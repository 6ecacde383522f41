---------------------------- MODULE EpochRecovery ----------------------------
(***************************************************************************)
(* Recovery of one epoch of a log.  The sequencer of epoch `Epoch' stores  *)
(* its records on the shards of the nodeset.  Any number of sequencers of  *)
(* later epochs may find the epoch unclean and recover it, each with an    *)
(* EpochRecovery state machine of its own (common/EpochRecovery.cpp) that  *)
(* is identified by its seal epoch; they race with each other and with the *)
(* old sequencer, which has not noticed that it was replaced.              *)
(*                                                                         *)
(* A step is what one handler does: on a shard (STORE, SEAL, START, CLEAN) *)
(* together with the delivery of its reply, or inside a state machine.     *)
(* Messages may be delayed for ever or lost, in which case the step is not *)
(* taken; a lost SEALED reply is a step of its own because the shard keeps *)
(* the seal.  A shard handles the messages of one state machine in the     *)
(* order they were sent, and checks the seal and writes in one step.       *)
(***************************************************************************)
EXTENDS Digest

CONSTANTS
    Epoch,         \* the epoch that is recovered
    SealEpochs,    \* the seal epochs of the state machines that recover it
    LoseReplies,   \* whether replies of shards and epoch store can be lost
    MaxRestarts    \* bound: restarts of each state machine

ASSUME EpochAssumption == Epoch \in Nat \ {0}
ASSUME SealEpochsAssumption == SealEpochs \subseteq {s \in Nat : s >= Epoch}
ASSUME LoseRepliesAssumption == LoseReplies \in BOOLEAN
ASSUME MaxRestartsAssumption == MaxRestarts \in [SealEpochs -> Nat]

VARIABLES
    \* the sequencer of the epoch
    issued,     \* the last ESN given to an Appender
    copies,     \* copies[e]: the shards that replied STORED(OK) for ESN e
    acked,      \* the ESNs acknowledged to the client
    \* the shards
    seal,       \* seal[n]: the normal seal of shard n, 0 if none
    store,      \* store[n][e]: the copy of ESN e in n's local log store
    shardLng,   \* shardLng[n]: the highest last known good ESN n has seen
    clean,      \* the shards whose local last clean epoch covers Epoch
    \* the state machines, by seal epoch
    phase,      \* EpochRecovery::state_, and how the machine ended
    restarts,   \* number of restarts so far
    lng,        \* lng_
    sealed,     \* the shards in state SEALED or higher
    digest,     \* what each digesting shard sent; a function on those shards
    mutationSet,\* the shards in state MUTATABLE or higher
    settled,    \* settled[s][e]: what the machine stores for ESN e, if anything
    mutators,   \* the ESNs that a Mutator was started for
    required,   \* required[s][e]: shards that Mutator must store a copy on
    stored,     \* stored[s][e]: shards that replied MUTATED(OK) to it
    cleaned,    \* the shards in state CLEAN
    \* the epoch store
    lce         \* the outcome registered with the last clean epoch

seqVars == <<issued, copies, acked>>
shardVars == <<seal, store, shardLng, clean>>
machineVars == <<phase, restarts, lng, sealed, digest, mutationSet, settled,
                 mutators, required, stored, cleaned>>
vars == <<seqVars, shardVars, machineVars, lce>>

-----------------------------------------------------------------------------
Active == {"SEAL", "DIGEST", "MUTATION", "CLEAN", "ADVANCE_LCE"}
Phases == Active \cup {"PREEMPTED", "RECOVERED"}

NoDigest == [n \in {} |-> EmptyShard]
NoShards == [e \in Slots |-> {}]
NoChange == [e \in Slots |-> [kind |-> "none", bridge |-> FALSE]]
NoOutcome == [e \in Slots |-> "none"]
Larger(a, b) == IF a < b THEN b ELSE a

\* What a state machine that is past its mutations holds the epoch to be.
Outcome(s) ==
    [e \in Slots |->
        IF e =< lng[s] \/ settled[s][e].kind = "record"
        THEN "record" ELSE "hole"]

\* Each machine has been created for the unclean epoch, before any of them
\* could register it as clean.
MachinesInit ==
    /\ phase = [s \in SealEpochs |-> "SEAL"]
    /\ restarts = [s \in SealEpochs |-> 0]
    /\ lng = [s \in SealEpochs |-> 0]
    /\ sealed = [s \in SealEpochs |-> {}]
    /\ digest = [s \in SealEpochs |-> NoDigest]
    /\ mutationSet = [s \in SealEpochs |-> {}]
    /\ settled = [s \in SealEpochs |-> NoChange]
    /\ mutators = [s \in SealEpochs |-> {}]
    /\ required = [s \in SealEpochs |-> NoShards]
    /\ stored = [s \in SealEpochs |-> NoShards]
    /\ cleaned = [s \in SealEpochs |-> {}]

Init ==
    /\ issued = 0
    /\ copies = [e \in Esns |-> {}]
    /\ acked = {}
    /\ seal = [n \in Shards |-> 0]
    /\ store = [n \in Shards |-> EmptyShard]
    /\ shardLng = [n \in Shards |-> 0]
    /\ clean = {}
    /\ MachinesInit
    /\ lce = NoOutcome

-----------------------------------------------------------------------------
(* The sequencer of the epoch: Appenders and the shards they store on.     *)

\* Bug: the end of the ESN range is not checked.
AppendPastLastEsn ==
    /\ issued' = issued + 1
    /\ UNCHANGED <<copies, acked, shardVars, machineVars, lce>>

\* EpochSequencer::runAppender
Append ==
    /\ issued < MaxEsn
    /\ issued' = issued + 1
    /\ UNCHANGED <<copies, acked, shardVars, machineVars, lce>>

\* A shard accepts the STOREs of an Appender until it is sealed for the epoch
\* (STORE_Message::checkIfPreempted, StoreStorageTask::isPreempted).
AcceptsAll(n) == n \in Shards

AcceptsAppends(n) == Epoch > seal[n]

\* The last known good ESN that the sequencer puts in a STORE for ESN e: the
\* Appenders of all ESNs up to it are done.
LngOfIssued(l, e) == l < e

LngOfAppender(l, e) == l < e /\ 1 .. l \subseteq acked

\* A STORE of the Appender of ESN e with LNG l in its header reaches shard n,
\* and STORED(OK) goes back.
StoreRecord(e, n, l) ==
    /\ e =< issued
    /\ n \notin copies[e]
    /\ LngOfAppender(l, e)
    /\ AcceptsAppends(n)
    /\ store' = [store EXCEPT ![n][e] = [kind |-> "record", bridge |-> FALSE,
                                         recovery |-> FALSE, wave |-> 1]]
    /\ shardLng' = [shardLng EXCEPT ![n] = Larger(@, l)]
    /\ copies' = [copies EXCEPT ![e] = @ \cup {n}]
    /\ UNCHANGED <<issued, acked, seal, clean, machineVars, lce>>

\* Enough STORED replies came in: the Appender acknowledges the append.
FullyStored(e) == CanReplicate(copies[e])

Acknowledge(e) ==
    /\ e \notin acked
    /\ FullyStored(e)
    /\ acked' = acked \cup {e}
    /\ UNCHANGED <<issued, copies, shardVars, machineVars, lce>>

-----------------------------------------------------------------------------
(* Recovery, state machine s.                                              *)

\* The machine learns from a shard with a higher seal that a later sequencer
\* is active (onEpochRecovered with PREEMPTED); the object is destroyed.  What
\* it had settled and stored stays on record: no step reads it any more.
Preempted(s) ==
    /\ phase' = [phase EXCEPT ![s] = "PREEMPTED"]
    /\ sealed' = [sealed EXCEPT ![s] = {}]
    /\ digest' = [digest EXCEPT ![s] = NoDigest]
    /\ mutationSet' = [mutationSet EXCEPT ![s] = {}]
    /\ required' = [required EXCEPT ![s] = NoShards]
    /\ cleaned' = [cleaned EXCEPT ![s] = {}]
    /\ UNCHANGED <<restarts, lng, settled, mutators, stored>>

\* A shard rejects what a machine sends once it is sealed by a later one.
NeverPreempted(s, n) == n \in Shards

NotPreempted(s, n) == seal[n] =< s

\* The digested shards a machine may go ahead with.
CanReplicateOnly(D) == CanReplicate(D)

DigestSufficient(D) == Fmajority(D)

\* SEAL at shard n (SealStorageTask), and EpochRecovery::onSealed.
Seal(s, n) ==
    /\ phase[s] \in Active
    /\ n \notin sealed[s]
    /\ seal[n] =< s
    /\ seal' = [seal EXCEPT ![n] = s]
    /\ sealed' = [sealed EXCEPT ![s] = @ \cup {n}]
    /\ lng' = [lng EXCEPT ![s] = Larger(@, shardLng[n])]
    /\ UNCHANGED <<seqVars, store, shardLng, clean, phase, restarts, digest,
                   mutationSet, settled, mutators, required, stored, cleaned,
                   lce>>

\* The shard is sealed but SEALED is lost.
SealReplyLost(s, n) ==
    /\ LoseReplies
    /\ phase[s] \in Active
    /\ n \notin sealed[s]
    /\ seal[n] < s
    /\ seal' = [seal EXCEPT ![n] = s]
    /\ UNCHANGED <<seqVars, store, shardLng, clean, machineVars, lce>>

SealPreempted(s, n) ==
    /\ phase[s] \in Active
    /\ n \notin sealed[s]
    /\ seal[n] > s
    /\ Preempted(s)
    /\ UNCHANGED <<seqVars, shardVars, lce>>

\* onSealedOrActivated: enough shards are sealed to build a digest, and the
\* machine is activated (it waits for the recovery of the epochs below).
StartDigest(s) ==
    /\ phase[s] = "SEAL"
    /\ Fmajority(sealed[s])
    /\ CanReplicate(sealed[s])
    /\ phase' = [phase EXCEPT ![s] = "DIGEST"]
    /\ UNCHANGED <<seqVars, shardVars, restarts, lng, sealed, digest,
                   mutationSet, settled, mutators, required, stored, cleaned,
                   lce>>

\* Shard n streams its copies (STARTED, which may raise the LNG, then RECORD
\* and GAP messages).
DigestShard(s, n) ==
    /\ phase[s] = "DIGEST"
    /\ n \in sealed[s] \ DOMAIN digest[s]
    /\ digest' = [digest EXCEPT ![s] =
                    [m \in DOMAIN @ \cup {n} |->
                        IF m = n THEN store[n] ELSE @[m]]]
    /\ lng' = [lng EXCEPT ![s] = Larger(@, shardLng[n])]
    /\ UNCHANGED <<seqVars, shardVars, phase, restarts, sealed, mutationSet,
                   settled, mutators, required, stored, cleaned, lce>>

\* onDigestComplete, startMutations, mutateEpoch.  D are the shards whose
\* stream has ended, M those of them that may be written to; shards outside D
\* may have sent copies too.  r is the Entry::record map, that depends on the
\* order of arrival.
StartMutations(s, D, M, r) ==
    LET d == digest[s]
        after == AfterBridges(d, M, lng[s], r)
        plan == Settled(after, lng[s])
        complete == D = Shards
        mutate == {e \in Slots :
                    /\ plan[e].kind # "none"
                    /\ \/ after[e].kind = "none"
                       \/ NeedsMutation(d, M, e, plan[e], s, complete)}
    IN  /\ phase[s] = "DIGEST"
        /\ DigestSufficient(D)
        /\ M \subseteq D
        /\ CanReplicate(M)
        /\ settled' = [settled EXCEPT ![s] =
                [e \in Slots |-> [kind |-> plan[e].kind,
                                  bridge |-> plan[e].bridge]]]
        /\ mutationSet' = [mutationSet EXCEPT ![s] = M]
        /\ mutators' = [mutators EXCEPT ![s] = mutate]
        /\ required' = [required EXCEPT ![s] =
                [e \in Slots |-> IF e \in mutate THEN M \cap Senders(d, e)
                                                ELSE {}]]
        /\ phase' = [phase EXCEPT ![s] =
                        IF mutate = {} THEN "CLEAN" ELSE "MUTATION"]
        /\ digest' = [digest EXCEPT ![s] = NoDigest]
        /\ UNCHANGED <<seqVars, shardVars, restarts, lng, sealed, stored,
                       cleaned, lce>>

\* A STORE of the Mutator of ESN e reaches shard n: the copy carries the seal
\* epoch in place of a wave and takes precedence over what the shard has.
MutateShard(s, e, n) ==
    /\ phase[s] = "MUTATION"
    /\ e \in mutators[s]
    /\ n \in mutationSet[s] \ stored[s][e]
    /\ NotPreempted(s, n)
    /\ store' = [store EXCEPT ![n][e] =
                    [kind |-> settled[s][e].kind,
                     bridge |-> settled[s][e].bridge,
                     recovery |-> TRUE, wave |-> s]]
    /\ shardLng' = [shardLng EXCEPT ![n] = Larger(@, lng[s])]
    /\ stored' = [stored EXCEPT ![s][e] = @ \cup {n}]
    /\ UNCHANGED <<seqVars, seal, clean, phase, restarts, lng, sealed, digest,
                   mutationSet, settled, mutators, required, cleaned, lce>>

MutatePreempted(s, e, n) ==
    /\ phase[s] = "MUTATION"
    /\ e \in mutators[s]
    /\ n \in mutationSet[s] \ stored[s][e]
    /\ seal[n] > s
    /\ Preempted(s)
    /\ UNCHANGED <<seqVars, shardVars, lce>>

\* Bug: wait for shards that need not store.
WholeNodeset(s, e) == stored[s][e] = Shards

\* Bug: do not look for a copyset.
RequiredOnly(s, e) == required[s][e] \subseteq stored[s][e]

\* The Mutator of ESN e is done: it stored on all the shards it had to and on
\* a copyset.
MutationDone(s, e) ==
    /\ required[s][e] \subseteq stored[s][e]
    /\ CanReplicate(stored[s][e])

\* onMutationComplete of the last Mutator, and advanceToCleaning.
MutationComplete(s) ==
    /\ phase[s] = "MUTATION"
    /\ \A e \in mutators[s] : MutationDone(s, e)
    /\ phase' = [phase EXCEPT ![s] = "CLEAN"]
    /\ required' = [required EXCEPT ![s] = NoShards]
    /\ UNCHANGED <<seqVars, shardVars, restarts, lng, sealed, digest,
                   mutationSet, settled, mutators, stored, cleaned, lce>>

\* CLEAN at shard n (PurgeCoordinator::onCleanMessage): the shard takes the
\* epoch for clean before it checks for preemption; then onCleaned.
Clean(s, n) ==
    /\ phase[s] = "CLEAN"
    /\ n \in mutationSet[s] \ cleaned[s]
    /\ clean' = clean \cup {n}
    /\ \/ /\ seal[n] > s
          /\ Preempted(s)
       \/ /\ seal[n] =< s
          /\ cleaned' = [cleaned EXCEPT ![s] = @ \cup {n}]
          /\ phase' = [phase EXCEPT ![s] =
                IF cleaned[s] \cup {n} = mutationSet[s]
                THEN "ADVANCE_LCE" ELSE "CLEAN"]
          /\ UNCHANGED <<restarts, lng, sealed, digest, mutationSet, settled,
                         mutators, required, stored>>
    /\ UNCHANGED <<seqVars, seal, store, shardLng, lce>>

\* setLastCleanEpoch and onLastCleanEpochUpdated: OK for the first machine,
\* STALE for one that comes later; both end the recovery successfully.
RegisterLCE(s) ==
    /\ lce' = IF lce = NoOutcome THEN Outcome(s) ELSE lce

AdvanceLCE(s) ==
    /\ phase[s] = "ADVANCE_LCE"
    /\ RegisterLCE(s)
    /\ phase' = [phase EXCEPT ![s] = "RECOVERED"]
    /\ sealed' = [sealed EXCEPT ![s] = {}]
    /\ cleaned' = [cleaned EXCEPT ![s] = {}]
    /\ UNCHANGED <<seqVars, shardVars, restarts, lng, digest, mutationSet,
                   settled, mutators, required, stored>>

\* The epoch store made the change but the reply is lost; onTimeout retries.
AdvanceLCEReplyLost(s) ==
    /\ LoseReplies
    /\ phase[s] = "ADVANCE_LCE"
    /\ lce = NoOutcome
    /\ RegisterLCE(s)
    /\ UNCHANGED <<seqVars, shardVars, machineVars>>

\* onTimeout or onRecoveryNodeFailure, then restart(): back to SEALED with
\* the same seal epoch.
Restart(s) ==
    /\ phase[s] \in {"MUTATION", "CLEAN", "ADVANCE_LCE"}
    /\ restarts[s] < MaxRestarts[s]
    /\ restarts' = [restarts EXCEPT ![s] = @ + 1]
    /\ phase' = [phase EXCEPT ![s] = "SEAL"]
    /\ digest' = [digest EXCEPT ![s] = NoDigest]
    /\ mutationSet' = [mutationSet EXCEPT ![s] = {}]
    /\ settled' = [settled EXCEPT ![s] = NoChange]
    /\ mutators' = [mutators EXCEPT ![s] = {}]
    /\ required' = [required EXCEPT ![s] = NoShards]
    /\ stored' = [stored EXCEPT ![s] = NoShards]
    /\ cleaned' = [cleaned EXCEPT ![s] = {}]
    /\ UNCHANGED <<seqVars, shardVars, lng, sealed, lce>>

-----------------------------------------------------------------------------
SequencerNext ==
    \/ Append
    \/ \E e \in Esns : Acknowledge(e)
    \/ \E e \in Esns, n \in Shards, l \in 0 .. MaxEsn : StoreRecord(e, n, l)

MachineNext(s) ==
    \/ \E n \in Shards : Seal(s, n) \/ SealReplyLost(s, n)
                            \/ SealPreempted(s, n)
    \/ StartDigest(s)
    \/ \E n \in Shards : DigestShard(s, n)
    \/ \E D \in SUBSET DOMAIN digest[s] : \E M \in SUBSET D :
            \E r \in Selections(digest[s]) : StartMutations(s, D, M, r)
    \/ \E e \in Slots, n \in Shards : MutateShard(s, e, n)
                                        \/ MutatePreempted(s, e, n)
    \/ MutationComplete(s)
    \/ \E n \in Shards : Clean(s, n)
    \/ AdvanceLCE(s)
    \/ AdvanceLCEReplyLost(s)
    \/ Restart(s)

Next == SequencerNext \/ \E s \in SealEpochs : MachineNext(s)

Spec == Init /\ [][Next]_vars

\* Every step of a state machine brings it closer to its end, and there are
\* retry timers behind all its messages.
FairSpec == Spec /\ \A s \in SealEpochs : WF_vars(MachineNext(s))

-----------------------------------------------------------------------------
(* Properties.                                                             *)

\* Every variable keeps its type; in particular the sequencer issues no ESN
\* beyond the last one of its epoch, and copies are stored within the slots.
TypeOK ==
    /\ issued \in 0 .. MaxEsn
    /\ copies \in [Esns -> SUBSET Shards]
    /\ acked \subseteq Esns
    /\ seal \in [Shards -> Nat]
    /\ store \in [Shards -> [Slots -> Copy]]
    /\ shardLng \in [Shards -> Nat]
    /\ clean \subseteq Shards
    /\ phase \in [SealEpochs -> Phases]
    /\ restarts \in [SealEpochs -> Nat]
    /\ lng \in [SealEpochs -> Nat]
    /\ sealed \in [SealEpochs -> SUBSET Shards]
    /\ digest = [s \in SealEpochs |-> digest[s]]
    /\ \A s \in SealEpochs : IsDigest(digest[s])
    /\ mutationSet \in [SealEpochs -> SUBSET Shards]
    /\ settled \in [SealEpochs -> [Slots -> [kind : Kinds, bridge : BOOLEAN]]]
    /\ mutators \in [SealEpochs -> SUBSET Slots]
    /\ required \in [SealEpochs -> [Slots -> SUBSET Shards]]
    /\ stored \in [SealEpochs -> [Slots -> SUBSET Shards]]
    /\ cleaned \in [SealEpochs -> SUBSET Shards]
    /\ lce \in [Slots -> Kinds]

Settling == {"MUTATION", "CLEAN", "ADVANCE_LCE", "RECOVERED"}
Finished == {"CLEAN", "ADVANCE_LCE", "RECOVERED"}

\* An ESN that was acknowledged to the client is never turned into a hole by
\* any state machine, however STOREs, seals, digests and mutations interleave.
AckedNeverLost ==
    \A s \in SealEpochs : phase[s] \in Settling =>
        \A e \in acked : Outcome(s)[e] = "record"

\* State machines that have finished their mutations agree on the content of
\* the epoch, however often shards are sealed, digested and mutated by other
\* machines in between.
Agreement ==
    \A s, t \in SealEpochs :
        phase[s] \in Finished /\ phase[t] \in Finished
            => Outcome(s) = Outcome(t)

\* A state machine that ends with success, also when the epoch store answers
\* that another one was first (STALE), holds the epoch to be what is on record
\* there: the tail record it reports is the registered one.
AgreesWithLCE ==
    lce # NoOutcome => \A s \in SealEpochs :
        phase[s] = "RECOVERED" => Outcome(s) = lce

\* When a state machine has finished its mutations, each ESN it settled is
\* fully replicated on its mutation set and no shard of the set holds a
\* conflicting copy, so that the other shards can purge theirs.
RecoveredReplicated ==
    \A s \in SealEpochs : phase[s] \in Finished =>
        \A e \in {k \in Slots : settled[s][k].kind # "none"} :
            /\ CanReplicate({n \in mutationSet[s] :
                                store[n][e].kind = settled[s][e].kind})
            /\ \A n \in mutationSet[s] :
                    store[n][e].kind \in {"none", settled[s][e].kind}

\* Every acknowledged ESN stays fully replicated.
AckedReplicated ==
    \A e \in acked : CanReplicate({n \in Shards : store[n][e].kind = "record"})

\* The last known good ESN that a shard or a state machine goes by covers
\* acknowledged ESNs only.
LngSound ==
    /\ \A n \in Shards : 1 .. shardLng[n] \subseteq acked
    /\ \A s \in SealEpochs : 1 .. lng[s] \subseteq acked

\* No write to a shard replaces a copy by one of lower precedence.  (The local
\* log store resolves two writes of the same LSN by precedence, the model by
\* the order of the writes: the two never differ.)
PrecedenceAscends ==
    [][\A n \in Shards, e \in Slots :
        store[n][e].kind # "none" => ~Precedes(store'[n][e], store[n][e])]_vars

\* Some recovery completes and registers the epoch as clean, whatever races and
\* preemptions happen on the way.
RecoveryTerminates == <>(lce # NoOutcome)

\* A shard that takes the epoch for clean holds no copy that contradicts the
\* registered outcome: readers of that shard see the recovered content.
CleanShardsAgree ==
    lce # NoOutcome => \A n \in clean, e \in Slots :
        store[n][e].kind \in {"none", lce[e]}

-----------------------------------------------------------------------------
(* The inductive invariant behind AckedNeverLost.  An ESN is choosable as  *)
(* long as it may still be acknowledged: some copyset consists of shards   *)
(* that have stored it or are not sealed.                                  *)

Choosable(e) ==
    \E c \in CopySets : \A n \in c : n \in copies[e] \/ seal[n] < Epoch

\* Shard content that cannot turn ESN e into a hole.
Harmless(content, e) ==
    /\ content[e].kind # "hole"
    /\ \A k \in Slots : k =< e => ~content[k].bridge

\* The shards a machine has sealed stay sealed for it, it digests no others,
\* and it mutates what it has settled.
SealedInv ==
    \A s \in SealEpochs :
        /\ \A n \in sealed[s] : seal[n] >= s
        /\ DOMAIN digest[s] \subseteq sealed[s]
        /\ phase[s] \in Settling => DOMAIN digest[s] = {}
        /\ \A e \in mutators[s] : settled[s][e].kind # "none"

AckedInv == \A e \in acked : CanReplicate(copies[e])

StoreInv ==
    \A e \in Esns : Choosable(e) => \A n \in Shards :
        /\ Harmless(store[n], e)
        /\ n \in copies[e] => store[n][e].kind = "record"

DigestInv ==
    \A e \in Esns : Choosable(e) =>
        \A s \in SealEpochs : \A n \in DOMAIN digest[s] :
            /\ Harmless(digest[s][n], e)
            /\ n \in copies[e] => digest[s][n][e].kind = "record"

SettledInv ==
    \A e \in Esns : Choosable(e) =>
        \A s \in SealEpochs : phase[s] \in Settling \/ settled[s] # NoChange =>
            /\ Harmless(settled[s], e)
            /\ settled[s][e].kind = "none" => e =< lng[s]

\* Everything an ESN that may be acknowledged rests on, on the shards, in the
\* digests and in what the machines settled.
DurabilityInv ==
    SealedInv /\ AckedInv /\ StoreInv /\ DigestInv /\ SettledInv
-----------------------------------------------------------------------------
(* The inductive invariant behind PrecedenceAscends: the copies on a shard *)
(* carry the wave of an Appender, or the seal epoch of a recovery that has *)
(* sealed the shard.                                                       *)

PrecedenceInv ==
    /\ \A n \in Shards, e \in Slots :
        LET c == store[n][e]
        IN  c.kind # "none" =>
                IF c.recovery THEN Epoch =< c.wave /\ c.wave =< seal[n]
                              ELSE c.wave = 1
    /\ \A s \in SealEpochs : \A n \in mutationSet[s] : seal[n] >= s
==============================================================================
