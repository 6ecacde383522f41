------------------------------- MODULE Purging -------------------------------
(***************************************************************************)
(* How the storage shards of one log learn that an epoch is clean.         *)
(*                                                                         *)
(* A recovery that has settled the content of an epoch sends CLEAN to its  *)
(* participants; a sequencer whose recovery is over sends RELEASE to every *)
(* shard.  A shard that receives either while an earlier epoch is unclean  *)
(* buffers the message and purges: it seals itself, asks the other shards  *)
(* for the EpochRecoveryMetadata of its unclean epochs, deletes what       *)
(* recovery did not settle on, writes the metadata and then its last clean *)
(* epoch, and replays the messages (PurgeCoordinator, PurgeUncleanEpochs,  *)
(* PurgeSingleEpoch, PurgeScheduler).  The recoveries are modelled at the  *)
(* level of what they settle: module EpochRecovery has the protocol.       *)
(***************************************************************************)
EXTENDS Integers, FiniteSets, FiniteSetsExt

CONSTANTS
    Shards,                 \* the storage set of the log
    CopySets,               \* the sets of shards that replicate a record
    MaxEpoch,               \* epochs 1..MaxEpoch are recovered and purged
    Seqs,                   \* epochs of the sequencers that recover the log
    Busy,                   \* shards where another log may need the purge token
    MaxFaults               \* bound: restarts, failed storage tasks, early resends

Epochs == 1..MaxEpoch
Esns == 1..2

ASSUME PurgingAssumption ==
    /\ MaxEpoch \in Nat
    /\ \A c \in CopySets : c \subseteq Shards /\ c # {}
    /\ Busy \subseteq Shards
    /\ Seqs \subseteq 2..(MaxEpoch + 1)
    /\ MaxFaults \in Nat

VARIABLES
    \* the local log stores
    rec,        \* rec[n][e]: ESNs of epoch e that shard n has a copy of
    lng,        \* lng[n][e]: last known good ESN of epoch e on n
    erm,        \* erm[n][e]: EpochRecoveryMetadata of epoch e on n
    lceDisk,    \* LastCleanMetadata
    sealDisk,   \* SealMetadata
    \* LogStorageState and PurgeCoordinator, lost in a restart
    lce,        \* last_clean_epoch_
    seal,       \* the effective in-memory seal, -1 when it is not known
    err,        \* permanent_error_
    released,   \* epoch of last_released_lsn_
    inbox,      \* CLEAN and RELEASE messages to be handled
    pending,    \* messages past the unlocked check, about to take mutex_
    cleans,     \* buffered_clean_
    bufRel,     \* epoch of buffered_release_, 0 when there is none
    purge,      \* active_purge_
    replies,    \* CleanedResponseRequests whose storage task is queued
    waiting,    \* the log is in the purge scheduler's queue
    others,     \* a purge of another log has the only token
    \* the recoveries and the epoch store
    phase,      \* phase[s]: where the recovery by sequencer s is
    at,         \* at[s]: the epoch it recovers
    sealed,     \* sealed[s]: shards it has sealed
    part,       \* part[s]: the participants that it sends CLEAN to
    cleaned,    \* cleaned[s]: participants that answered CLEANED
    out,        \* out[s][e]: the outcome that its CLEANs carry
    settled,    \* settled[e]: last ESN of e by consensus, -1 before recovery
    glce,       \* last clean epoch in the epoch store
    faults      \* number of faults so far

disk == <<rec, lng, erm, lceDisk, sealDisk>>
memory == <<lce, seal, err, released>>
coordinator == <<inbox, pending, cleans, bufRel, purge, replies>>
scheduler == <<waiting, others>>
recovery == <<phase, at, sealed, part, cleaned, out, settled, glce>>
vars == <<disk, memory, coordinator, scheduler, recovery, faults>>

NoErm == [seq |-> 0, lng |-> 0, last |-> 0]
Erms == [seq : {0} \cup Seqs, lng : {0} \cup Esns, last : {0} \cup Esns]

CleanMsgs == [type : {"CLEAN"}, e : Epochs, s : Seqs]
ReleaseMsgs == [type : {"RELEASE"}, e : Seqs]
Msgs == CleanMsgs \cup ReleaseMsgs

FMajority(X) == \A c \in CopySets : c \cap X # {}

Last(S) == IF S = {} THEN 0 ELSE Max(S)

\* No answer of GetEpochRecoveryMetadataRequest yet.
None == [st |-> "none"]

Idle == [st |-> "idle"]
States == {"idle", "seal", "erm", "run", "lce", "sync"}
-----------------------------------------------------------------------------
(* A shard holds record 1 of epoch 1 on a full copyset, or some stray      *)
(* copies; record 2 was being stored, with or without the news that 1 is   *)
(* good.  The later epochs are empty.                                      *)

Init ==
    /\ \E one, two \in SUBSET Shards, good \in 0..1 :
        /\ one \in CopySets \/ (two = {} /\ \E c \in CopySets : one \subseteq c)
        /\ good = 1 => two # {}
        /\ \E c \in CopySets : two \subseteq c /\ two # c
        /\ rec = [n \in Shards |-> [e \in Epochs |->
                    IF e # 1 THEN {}
                    ELSE {x \in Esns : n \in IF x = 1 THEN one ELSE two}]]
        /\ lng = [n \in Shards |-> [e \in Epochs |->
                    IF e = 1 /\ n \in two THEN good ELSE 0]]
    /\ erm = [n \in Shards |-> [e \in Epochs |-> NoErm]]
    /\ lceDisk = [n \in Shards |-> 0]
    /\ sealDisk = [n \in Shards |-> 0]
    /\ lce = [n \in Shards |-> 0]
    /\ seal = [n \in Shards |-> 0]
    /\ err = [n \in Shards |-> FALSE]
    /\ released = [n \in Shards |-> 0]
    /\ inbox = [n \in Shards |-> {}]
    /\ pending = [n \in Shards |-> {}]
    /\ cleans = [n \in Shards |-> {}]
    /\ bufRel = [n \in Shards |-> 0]
    /\ purge = [n \in Shards |-> Idle]
    /\ replies = [n \in Shards |-> {}]
    /\ waiting = [n \in Shards |-> FALSE]
    /\ others = [n \in Shards |-> FALSE]
    /\ phase = [s \in Seqs |-> "idle"]
    /\ at = [s \in Seqs |-> 0]
    /\ sealed = [s \in Seqs |-> {}]
    /\ part = [s \in Seqs |-> {}]
    /\ cleaned = [s \in Seqs |-> {}]
    /\ out = [s \in Seqs |-> [e \in Epochs |-> NoErm]]
    /\ settled = [e \in Epochs |-> -1]
    /\ glce = 0
    /\ faults = 0
-----------------------------------------------------------------------------
(* Recoveries.  The recovery of an epoch starts when the epoch before it   *)
(* is clean in the epoch store.  A sequencer that crashes takes no more    *)
(* steps.                                                                  *)

\* Read the last clean epoch, then seal.
StartRecovery(s) ==
    /\ phase[s] = "idle"
    /\ phase' = [phase EXCEPT ![s] = IF glce + 1 < s THEN "recover" ELSE "done"]
    /\ at' = [at EXCEPT ![s] = glce + 1]
    /\ UNCHANGED <<disk, memory, coordinator, scheduler, sealed, part, cleaned,
                   out, settled, glce, faults>>

\* SealStorageTask for a recovery; a higher seal refuses it.
SealShard(s, n) ==
    /\ phase[s] = "recover"
    /\ n \notin sealed[s]
    /\ sealDisk[n] < s
    /\ ~err[n]
    /\ sealDisk' = [sealDisk EXCEPT ![n] = s - 1]
    /\ seal' = [seal EXCEPT ![n] = s - 1]
    /\ sealed' = [sealed EXCEPT ![s] = @ \cup {n}]
    /\ UNCHANGED <<rec, lng, erm, lceDisk, lce, err, released, coordinator,
                   scheduler, phase, at, part, cleaned, out, settled, glce,
                   faults>>

\* Digest and mutation with participants P: they agree on the last record
\* of the epoch, and hold every record above the last known good ESN.
SettleAndClean(s, P) ==
    LET e == at[s]
        good == Max({lng[n][e] : n \in P})
        seen == Last(UNION {rec[n][e] : n \in P})
        last == IF settled[e] # -1 THEN settled[e] ELSE Max({good, seen})
    IN  /\ phase[s] = "recover"
        /\ P \subseteq sealed[s]
        /\ FMajority(P)
        /\ \E c \in CopySets : c \subseteq P
        /\ settled' = [settled EXCEPT ![e] = last]
        /\ rec' = [n \in Shards |-> IF n \notin P THEN rec[n] ELSE
                    [rec[n] EXCEPT ![e] = (@ \cap 1..good) \cup
                                          ((good + 1)..last)]]
        /\ out' = [out EXCEPT ![s][e] =
                    [seq |-> s, lng |-> good, last |-> last]]
        /\ part' = [part EXCEPT ![s] = P]
        /\ cleaned' = [cleaned EXCEPT ![s] = {}]
        /\ phase' = [phase EXCEPT ![s] = "clean"]
        /\ UNCHANGED <<lng, erm, lceDisk, sealDisk, memory, coordinator,
                       scheduler, at, sealed, glce, faults>>

\* One more fault.
Fault == faults < MaxFaults /\ faults' = faults + 1

\* The message reaches the shard.  A second copy, sent by a timer that was
\* too early, is a fault.
Receive(n, m, first) ==
    /\ m \notin inbox[n]
    /\ inbox' = [inbox EXCEPT ![n] = @ \cup {m}]
    /\ IF first THEN UNCHANGED faults ELSE Fault
    /\ UNCHANGED <<disk, memory, pending, cleans, bufRel, purge, replies,
                   scheduler, recovery>>

\* CLEAN is sent, and sent again until it is answered.
SendClean(s, n) ==
    LET m == [type |-> "CLEAN", e |-> at[s], s |-> s]
    IN  /\ phase[s] = "clean"
        /\ n \in part[s] \ cleaned[s]
        /\ Receive(n, m, m \notin pending[n] \cup cleans[n] /\
                         [e |-> at[s], s |-> s] \notin replies[n])

\* Every participant has answered: advance the last clean epoch.
AdvanceLCE(s) ==
    /\ phase[s] = "clean"
    /\ part[s] \subseteq cleaned[s]
    /\ glce' = Max({glce, at[s]})
    /\ at' = [at EXCEPT ![s] = @ + 1]
    /\ phase' = [phase EXCEPT ![s] = IF at[s] + 1 < s THEN "recover" ELSE "done"]
    /\ UNCHANGED <<disk, memory, coordinator, scheduler, sealed, part, cleaned,
                   out, settled, faults>>

\* The sequencer of a recovered log releases a record of its own epoch, and
\* repeats the RELEASE periodically.
SendRelease(s, n) ==
    LET m == [type |-> "RELEASE", e |-> s]
    IN  /\ phase[s] = "done"
        /\ released[n] < s
        /\ Receive(n, m, m \notin pending[n] /\ bufRel[n] < s)
-----------------------------------------------------------------------------
(* PurgeCoordinator: receiving CLEAN and RELEASE.                          *)

\* The seals are not checked when a restart has lost them.
Preempted(n, s) == seal[n] > s - 1

\* Bug: unclean epochs do not hold back a RELEASE.
ReleaseAlways(n, e) == e > 0

\* onReleaseMessage(): release at once.
ReleaseNow(n, e) == e =< lce[n] + 1

\* Bug: CLEANED is sent before the metadata is written.
AnswerCleanEarly(n, m) ==
    /\ m \in inbox[n] \cap CleanMsgs
    /\ m.e =< lce[n]
    /\ inbox' = [inbox EXCEPT ![n] = @ \ {m}]
    /\ replies' = [replies EXCEPT ![n] = @ \cup {[e |-> m.e, s |-> m.s]}]
    /\ cleaned' = [cleaned EXCEPT ![m.s] =
            IF phase[m.s] = "clean" /\ at[m.s] = m.e THEN @ \cup {n} ELSE @]
    /\ UNCHANGED <<disk, memory, pending, cleans, bufRel, purge, scheduler,
                   phase, at, sealed, part, out, settled, glce, faults>>

\* CLEAN of an epoch that is clean already: answer, after the metadata has
\* been written unless a higher seal preempts the recovery.
AnswerClean(n, m) ==
    LET ok == ~Preempted(n, m.s)
        expected == phase[m.s] = "clean" /\ at[m.s] = m.e
    IN  /\ m \in inbox[n] \cap CleanMsgs
        /\ m.e =< lce[n]
        /\ inbox' = [inbox EXCEPT ![n] = @ \ {m}]
        /\ replies' = [replies EXCEPT ![n] =
                        IF ok THEN @ \cup {[e |-> m.e, s |-> m.s]} ELSE @]
        /\ phase' = [phase EXCEPT ![m.s] =
                        IF ~ok /\ expected THEN "stopped" ELSE @]
        /\ UNCHANGED <<disk, memory, pending, cleans, bufRel, purge, scheduler,
                       at, sealed, part, cleaned, out, settled, glce, faults>>

\* doRelease(): readers may read up to the released record.
DoRelease(n, m) ==
    /\ m \in inbox[n] \cap ReleaseMsgs
    /\ ReleaseNow(n, m.e)
    /\ inbox' = [inbox EXCEPT ![n] = @ \ {m}]
    /\ released' = [released EXCEPT ![n] = Max({@, m.e})]
    /\ UNCHANGED <<disk, lce, seal, err, pending, cleans, bufRel, purge,
                   replies, scheduler, recovery, faults>>

\* The shard must purge first.  The last clean epoch is read before mutex_
\* is taken.  A broken local log store refuses.
MustPurge(n, m) ==
    /\ m \in inbox[n]
    /\ IF m.type = "CLEAN" THEN m.e > lce[n] ELSE ~ReleaseNow(n, m.e)
    /\ inbox' = [inbox EXCEPT ![n] = @ \ {m}]
    /\ pending' = [pending EXCEPT ![n] = IF err[n] THEN @ ELSE @ \cup {m}]
    /\ UNCHANGED <<disk, memory, cleans, bufRel, purge, replies, scheduler,
                   recovery, faults>>

\* UpdatePerEpochLogMetadataTask and the CLEANED that follows.  The update
\* is refused, and the answer is still OK, if newer metadata is there or if
\* a higher seal has arrived.
WriteCleaned(n, r) ==
    LET new == out[r.s][r.e]
        old == erm[n][r.e]
        newer == new.seq > old.seq
        stored == IF ~newer \/ (old = NoErm /\ sealDisk[n] >= r.s) THEN old
                  ELSE IF new.last = 0 THEN NoErm ELSE new
    IN  /\ r \in replies[n]
        /\ replies' = [replies EXCEPT ![n] = @ \ {r}]
        /\ erm' = [erm EXCEPT ![n][r.e] = stored]
        /\ cleaned' = [cleaned EXCEPT ![r.s] =
                IF phase[r.s] = "clean" /\ at[r.s] = r.e THEN @ \cup {n} ELSE @]
        /\ UNCHANGED <<rec, lng, lceDisk, sealDisk, memory, inbox, pending,
                       cleans, bufRel, purge, scheduler, phase, at, sealed,
                       part, out, settled, glce, faults>>
-----------------------------------------------------------------------------
(* PurgeCoordinator under mutex_: buffering and startPurge().              *)

Active(n) == purge[n].st # "idle"

\* Bug: purge although there is nothing left to purge.
NeverUpToDate(n, new) == FALSE

\* Some purge has advanced the last clean epoch since it was read.
UpToDate(n, new) == lce[n] >= new

\* PurgeUncleanEpochs::start(): the epochs after lce[n] up to `to' are to be
\* purged, and the last clean epoch becomes `new'.
NewPurge(n, to, new, token) ==
    [st |-> IF lce[n] >= to THEN "lce" ELSE "seal",
     from |-> lce[n], to |-> to, new |-> new, token |-> token]

\* Bug: the buffered RELEASE is forgotten.
ReplayCleansOnly(n, bufferedCleans, bufferedRelease) ==
    /\ inbox' = [inbox EXCEPT ![n] = @ \cup bufferedCleans]
    /\ cleans' = [cleans EXCEPT ![n] = {}]
    /\ bufRel' = [bufRel EXCEPT ![n] = bufferedRelease]
    /\ purge' = [purge EXCEPT ![n] = Idle]
    /\ waiting' = [waiting EXCEPT ![n] = @ /\ others[n]]

\* onStateMachineDone() with the given buffers: replay them, and wake up the
\* log in the scheduler's queue if a token is free.
Replay(n, bufferedCleans, bufferedRelease) ==
    /\ inbox' = [inbox EXCEPT ![n] = @ \cup bufferedCleans \cup
                    {m \in ReleaseMsgs : m.e = bufferedRelease}]
    /\ cleans' = [cleans EXCEPT ![n] = {}]
    /\ bufRel' = [bufRel EXCEPT ![n] = 0]
    /\ purge' = [purge EXCEPT ![n] = Idle]
    /\ waiting' = [waiting EXCEPT ![n] = @ /\ others[n]]

BufferClean(n, m) ==
    LET buffered == cleans[n] \cup {m}
    IN  /\ m \in pending[n] \cap CleanMsgs
        /\ pending' = [pending EXCEPT ![n] = @ \ {m}]
        /\ \/ /\ Active(n) \/ ~UpToDate(n, m.e)
              /\ cleans' = [cleans EXCEPT ![n] = buffered]
              /\ purge' = [purge EXCEPT ![n] =
                    IF Active(n) THEN @ ELSE NewPurge(n, m.e - 1, m.e, FALSE)]
              /\ UNCHANGED <<inbox, bufRel, waiting>>
           \/ /\ ~Active(n) /\ UpToDate(n, m.e)
              /\ Replay(n, buffered, bufRel[n])
        /\ UNCHANGED <<disk, memory, replies, others, recovery, faults>>

\* tryStartPurgeForRelease(): one purge for a RELEASE at a time.
TokenFree(n) == ~others[n] /\ ~(Active(n) /\ purge[n].token)

BufferRelease(n, m) ==
    LET buffered == Max({bufRel[n], m.e})
    IN  /\ m \in pending[n] \cap ReleaseMsgs
        /\ pending' = [pending EXCEPT ![n] = @ \ {m}]
        /\ \/ /\ ~TokenFree(n)
              /\ waiting' = [waiting EXCEPT ![n] = TRUE]
              /\ bufRel' = [bufRel EXCEPT ![n] = buffered]
              /\ UNCHANGED <<inbox, cleans, purge>>
           \/ /\ TokenFree(n)
              /\ Active(n) \/ ~UpToDate(n, m.e - 1)
              /\ bufRel' = [bufRel EXCEPT ![n] = buffered]
              /\ purge' = [purge EXCEPT ![n] =
                    IF Active(n) THEN @
                    ELSE NewPurge(n, m.e - 1, m.e - 1, TRUE)]
              /\ UNCHANGED <<inbox, cleans, waiting>>
           \/ /\ TokenFree(n)
              /\ ~Active(n) /\ UpToDate(n, m.e - 1)
              /\ Replay(n, cleans[n], buffered)
        /\ UNCHANGED <<disk, memory, replies, others, recovery, faults>>

\* Purges of other logs on the same worker and shard.
OtherPurgeStarts(n) ==
    /\ n \in Busy
    /\ TokenFree(n)
    /\ ~waiting[n]
    /\ others' = [others EXCEPT ![n] = TRUE]
    /\ UNCHANGED <<disk, memory, coordinator, waiting, recovery, faults>>

\* wakeUpMorePurgingForReleases() and startBuffered().
OtherPurgeEnds(n) ==
    /\ others[n]
    /\ others' = [others EXCEPT ![n] = FALSE]
    /\ \/ /\ waiting[n] /\ ~Active(n)
          /\ inbox' = [inbox EXCEPT ![n] = @ \cup cleans[n] \cup
                        {m \in ReleaseMsgs : m.e = bufRel[n]}]
          /\ cleans' = [cleans EXCEPT ![n] = {}]
          /\ bufRel' = [bufRel EXCEPT ![n] = 0]
       \/ /\ ~waiting[n] \/ Active(n)
          /\ UNCHANGED <<inbox, cleans, bufRel>>
    /\ waiting' = [waiting EXCEPT ![n] = FALSE]
    /\ UNCHANGED <<disk, memory, pending, purge, replies, recovery, faults>>
-----------------------------------------------------------------------------
(* PurgeUncleanEpochs: one purge.                                          *)

Unclean(p) == (p.from + 1)..p.to

\* SealStorageTask for purging: seal, and take stock of the unclean epochs.
PurgeSeal(n) ==
    LET p == purge[n]
        s == Max({sealDisk[n], p.new})
    IN  /\ p.st = "seal"
        /\ sealDisk' = [sealDisk EXCEPT ![n] = s]
        /\ seal' = [seal EXCEPT ![n] = s]
        /\ purge' = [purge EXCEPT ![n] =
                [st |-> "erm", from |-> p.from, to |-> p.to, new |-> p.new,
                 token |-> p.token,
                 last |-> [e \in Unclean(p) |-> Last(rec[n][e])],
                 lng |-> [e \in Unclean(p) |-> lng[n][e]],
                 asked |-> {}, ans |-> [e \in Unclean(p) |-> None]]]
        /\ UNCHANGED <<rec, lng, erm, lceDisk, lce, err, released, inbox,
                       pending, cleans, bufRel, replies, scheduler, recovery,
                       faults>>

\* GetEpochRecoveryMetadataStorageTask on shard m for epoch e.
AnswerFor(m, e) ==
    IF err[m] \/ lce[m] < e THEN None
    ELSE IF erm[m][e] # NoErm THEN [st |-> "OK", erm |-> erm[m][e]]
    ELSE [st |-> "EMPTY"]

\* processResponse(): metadata outweighs EMPTY.
Merge(old, new) == IF old.st = "OK" \/ new.st = "none" THEN old ELSE new

\* Bug: hold an epoch that is empty by consensus for purged.
ToPurgeNonEmpty(p, ans) == {e \in Unclean(p) : ans[e].st = "OK"}

\* The epochs that get a PurgeSingleEpoch: not those without an answer, nor
\* those that are empty here and by consensus.
ToPurge(p, ans) ==
    {e \in Unclean(p) : ans[e].st = "OK" \/ (ans[e].st = "EMPTY" /\ p.last[e] > 0)}

\* Shard m answers GET_EPOCH_RECOVERY_METADATA.  The request is done when it
\* has an answer for each epoch, or has heard from every shard.
AskErm(n, m) ==
    LET p == purge[n]
        ans == [e \in Unclean(p) |-> Merge(p.ans[e], AnswerFor(m, e))]
        asked == p.asked \cup {m}
        done == asked = Shards \/ \A e \in Unclean(p) : ans[e] # None
        todo == ToPurge(p, ans)
    IN  /\ p.st = "erm"
        /\ purge' = [purge EXCEPT ![n] =
                IF ~done THEN [p EXCEPT !.asked = asked, !.ans = ans]
                ELSE [st |-> IF todo = {} THEN "lce" ELSE "run",
                      from |-> p.from, to |-> p.to, new |-> p.new,
                      token |-> p.token, last |-> p.last, lng |-> p.lng,
                      ans |-> ans, del |-> todo, write |-> {}]]
        /\ UNCHANGED <<disk, memory, inbox, pending, cleans, bufRel, replies,
                       scheduler, recovery, faults>>

\* Bug: start at the last known good ESN instead of after it.
ToDeleteFromLng(p, e) ==
    IF p.ans[e].st = "OK" THEN p.ans[e].erm.lng..p.last[e]
    ELSE IF p.lng[e] > 0 THEN {} ELSE 1..p.last[e]

\* The ESNs that PurgeSingleEpoch deletes in epoch e.
ToDelete(p, e) ==
    IF p.ans[e].st = "OK" THEN (p.ans[e].erm.lng + 1)..p.last[e]
    ELSE IF p.lng[e] > 0 THEN {} ELSE 1..p.last[e]

\* allEpochsPurged() when no PurgeSingleEpoch is left.
AfterEpoch(p) == [p EXCEPT !.st = IF p.del \cup p.write = {} THEN "lce" ELSE "run"]

\* PurgeDeleteRecordsStorageTask; an epoch that is empty is then done.
PurgeRecords(n, e) ==
    LET p == purge[n]
    IN  /\ p.st = "run"
        /\ e \in p.del
        /\ rec' = [rec EXCEPT ![n][e] = @ \ ToDelete(p, e)]
        /\ purge' = [purge EXCEPT ![n] =
                AfterEpoch([p EXCEPT !.del = @ \ {e}, !.write =
                    IF p.ans[e].st = "OK" THEN @ \cup {e} ELSE @])]
        /\ UNCHANGED <<lng, erm, lceDisk, sealDisk, memory, inbox, pending,
                       cleans, bufRel, replies, scheduler, recovery, faults>>

\* PurgeWriteEpochRecoveryMetadataStorageTask.
PurgeWriteErm(n, e) ==
    LET p == purge[n]
        new == p.ans[e].erm
    IN  /\ p.st = "run"
        /\ e \in p.write
        /\ erm' = [erm EXCEPT ![n][e] = IF new.seq > @.seq THEN new ELSE @]
        /\ purge' = [purge EXCEPT ![n] = AfterEpoch([p EXCEPT !.write = @ \ {e}])]
        /\ UNCHANGED <<rec, lng, lceDisk, sealDisk, memory, inbox, pending,
                       cleans, bufRel, replies, scheduler, recovery, faults>>

\* PurgeWriteLastCleanTask is executed and, after a sync, done.
WriteLastClean(n) ==
    /\ purge[n].st = "lce"
    /\ lceDisk' = [lceDisk EXCEPT ![n] = purge[n].new]
    /\ purge' = [purge EXCEPT ![n].st = "sync"]
    /\ UNCHANGED <<rec, lng, erm, sealDisk, memory, inbox, pending, cleans,
                   bufRel, replies, scheduler, recovery, faults>>

LastCleanDone(n) ==
    /\ purge[n].st = "sync"
    /\ lce' = [lce EXCEPT ![n] = Max({@, purge[n].new})]
    /\ Replay(n, cleans[n], bufRel[n])
    /\ UNCHANGED <<disk, seal, err, released, pending, replies, others,
                   recovery, faults>>

\* A storage task fails for good: onPermanentError().
TaskFails(n) ==
    /\ Fault
    /\ purge[n].st \in {"seal", "run", "lce"}
    /\ err' = [err EXCEPT ![n] = TRUE]
    /\ Replay(n, cleans[n], bufRel[n])
    /\ UNCHANGED <<disk, lce, seal, released, pending, replies, others,
                   recovery>>

\* The storage node restarts.  Server.cpp reads the last clean epoch again,
\* and the last released LSN if a clean shutdown has stored it.
Crash(n) ==
    /\ Fault
    /\ lce' = [lce EXCEPT ![n] = lceDisk[n]]
    /\ seal' = [seal EXCEPT ![n] = -1]
    /\ err' = [err EXCEPT ![n] = FALSE]
    /\ \E kept \in {0, released[n]} : released' = [released EXCEPT ![n] = kept]
    /\ inbox' = [inbox EXCEPT ![n] = {}]
    /\ pending' = [pending EXCEPT ![n] = {}]
    /\ cleans' = [cleans EXCEPT ![n] = {}]
    /\ bufRel' = [bufRel EXCEPT ![n] = 0]
    /\ purge' = [purge EXCEPT ![n] = Idle]
    /\ replies' = [replies EXCEPT ![n] = {}]
    /\ waiting' = [waiting EXCEPT ![n] = FALSE]
    /\ others' = [others EXCEPT ![n] = FALSE]
    /\ UNCHANGED <<disk, recovery>>
-----------------------------------------------------------------------------
ShardNext(n) ==
    \/ \E m \in inbox[n] : AnswerClean(n, m) \/ DoRelease(n, m) \/ MustPurge(n, m)
    \/ \E m \in pending[n] : BufferClean(n, m) \/ BufferRelease(n, m)
    \/ \E r \in replies[n] : WriteCleaned(n, r)
    \/ OtherPurgeStarts(n) \/ OtherPurgeEnds(n)
    \/ PurgeSeal(n)
    \/ \E m \in Shards : AskErm(n, m)
    \/ \E e \in Epochs : PurgeRecords(n, e) \/ PurgeWriteErm(n, e)
    \/ WriteLastClean(n) \/ LastCleanDone(n)
    \/ TaskFails(n) \/ Crash(n)

RecoveryNext(s) ==
    \/ StartRecovery(s)
    \/ \E n \in Shards : SealShard(s, n) \/ SendClean(s, n) \/ SendRelease(s, n)
    \/ \E P \in SUBSET Shards : SettleAndClean(s, P)
    \/ AdvanceLCE(s)

Next == (\E n \in Shards : ShardNext(n)) \/ (\E s \in Seqs : RecoveryNext(s))

Spec == Init /\ [][Next]_vars
-----------------------------------------------------------------------------
\* Every variable keeps its type; a purge under way moves the last clean epoch
\* of its shard forward and works on no epoch beyond it.
TypeOK ==
    /\ rec \in [Shards -> [Epochs -> SUBSET Esns]]
    /\ lng \in [Shards -> [Epochs -> {0} \cup Esns]]
    /\ erm \in [Shards -> [Epochs -> Erms]]
    /\ lceDisk \in [Shards -> 0..MaxEpoch]
    /\ lce \in [Shards -> 0..MaxEpoch]
    /\ released \in [Shards -> {0} \cup Seqs]
    /\ \A n \in Shards :
        /\ inbox[n] \cup pending[n] \subseteq Msgs
        /\ cleans[n] \subseteq CleanMsgs
        /\ purge[n].st \in States
        /\ Active(n) => purge[n].from < purge[n].new /\ purge[n].to =< purge[n].new

\* A record that recovery settled on stays on a full copyset, whatever the
\* shards purge.
SettledReplicated ==
    \A e \in Epochs : \A x \in 1..settled[e] :
        \E c \in CopySets : \A n \in c : x \in rec[n][e]

\* A shard that holds an epoch for clean has no record of it that recovery
\* did not settle on.
CleanShowsSettled ==
    \A n \in Shards, e \in Epochs :
        e =< lce[n] => rec[n][e] \subseteq 1..settled[e]

\* What readers may read of an earlier epoch is what recovery settled on,
\* and the epoch store has registered it.
ReleasedSettled ==
    \A n \in Shards, e \in Epochs :
        e < released[n] => e =< glce /\ rec[n][e] \subseteq 1..settled[e]

\* An epoch that is clean in the epoch store, and not empty, has its
\* EpochRecoveryMetadata on an f-majority (CleanedResponseRequest.h).
GlobalCleanHasErm ==
    \A e \in Epochs : e =< glce /\ settled[e] > 0
        => FMajority({n \in Shards : erm[n][e] # NoErm})

\* Buffered messages are replayed: a purge runs, or the log waits for the
\* purge of another log to end.
NeverStranded ==
    \A n \in Shards : ~Active(n) =>
        /\ cleans[n] = {}
        /\ bufRel[n] # 0 => waiting[n] /\ others[n]

=============================================================================
