------------------------ MODULE EpochRecoveryProofs ------------------------
(***************************************************************************)
(* Proofs about EpochRecovery, for every nodeset, every family of copysets,*)
(* any number of ESNs, of concurrent recoveries and of restarts.           *)
(***************************************************************************)
EXTENDS EpochRecovery, TLAPS

\* The operators of Digest keep kinds and flags in their types.
LEMMA SelectionType ==
    ASSUME NEW d, IsDigest(d), NEW r \in Selections(d)
    PROVE  r \in [Slots -> Copy]
<1>1. NoCopy \in Copy
  BY DEF NoCopy, Copy, Kinds
<1>2. \A e \in Slots : Highest(d, e) \subseteq Copy
  BY DEF IsDigest, Highest, Senders
<1>3. QED
  BY <1>1, <1>2 DEF Selections

LEMMA AfterBridgesKind ==
    ASSUME NEW d, NEW M, NEW l, NEW r \in [Slots -> Copy], NEW e \in Slots
    PROVE  AfterBridges(d, M, l, r)[e].kind \in Kinds
BY DEF AfterBridges, ApplyBridges, NoCopy, Copy, Kinds

LEMMA SettledType ==
    ASSUME NEW d, NEW M, NEW l, NEW r \in [Slots -> Copy], NEW e \in Slots
    PROVE  LET c == Settled(AfterBridges(d, M, l, r), l)[e]
           IN  c.kind \in Kinds /\ c.bridge \in BOOLEAN
<1> DEFINE a == AfterBridges(d, M, l, r)
<1>1. a[e].kind \in Kinds
  BY AfterBridgesKind
<1>2. NewBridge(a, l, e) \in BOOLEAN
  BY DEF NewBridge
<1>3. QED
  BY <1>1, <1>2 DEF Settled, NoCopy, Kinds

-----------------------------------------------------------------------------
(* Type correctness.                                                       *)

LEMMA ConstantTypes ==
    /\ IsDigest(NoDigest) /\ DOMAIN NoDigest = {}
    /\ NoShards \in [Slots -> SUBSET Shards]
    /\ NoChange \in [Slots -> [kind : Kinds, bridge : BOOLEAN]]
    /\ NoOutcome \in [Slots -> Kinds]
    /\ EmptyShard \in [Slots -> Copy]
    /\ Esns \subseteq Slots
    /\ SealEpochs \subseteq Nat
<1>1. IsDigest(NoDigest) /\ DOMAIN NoDigest = {}
  BY DEF NoDigest, IsDigest
<1>2. Esns \subseteq Slots
  BY MaxEsnAssumption DEF Esns, Slots
<1>3. QED
  BY <1>1, <1>2, SealEpochsAssumption
  DEF NoShards, NoChange, NoOutcome, EmptyShard, NoCopy, Copy, Kinds

LEMMA TypeInit == Init => TypeOK
BY ConstantTypes, MaxEsnAssumption, EpochAssumption
DEF Init, MachinesInit, TypeOK, Phases, Active, EmptyShard, NoCopy, Copy, Kinds

LEMMA SequencerType == TypeOK /\ SequencerNext => TypeOK'
<1> SUFFICES ASSUME TypeOK, SequencerNext PROVE TypeOK'
  OBVIOUS
<1>1. CASE Append
  BY <1>1, MaxEsnAssumption
  DEF TypeOK, Append, shardVars, machineVars
<1>2. ASSUME NEW e \in Esns, Acknowledge(e) PROVE TypeOK'
  BY <1>2 DEF TypeOK, Acknowledge, shardVars, machineVars
<1>3. ASSUME NEW e \in Esns, NEW n \in Shards, NEW l \in 0 .. MaxEsn,
             StoreRecord(e, n, l)
      PROVE  TypeOK'
  <2>1. [kind |-> "record", bridge |-> FALSE, recovery |-> FALSE, wave |-> 1]
            \in Copy
    BY DEF Copy, Kinds
  <2>2. Larger(shardLng[n], l) \in Nat
    BY MaxEsnAssumption DEF TypeOK, Larger
  <2>3. store' \in [Shards -> [Slots -> Copy]]
    BY <1>3, <2>1, ConstantTypes DEF TypeOK, StoreRecord
  <2>4. shardLng' \in [Shards -> Nat]
    BY <1>3, <2>2 DEF TypeOK, StoreRecord
  <2>5. copies' \in [Esns -> SUBSET Shards]
    BY <1>3 DEF TypeOK, StoreRecord
  <2>6. QED
    BY <1>3, <2>3, <2>4, <2>5 DEF TypeOK, StoreRecord, machineVars
<1>4. QED
  BY <1>1, <1>2, <1>3 DEF SequencerNext

LEMMA PreemptedType ==
    ASSUME TypeOK, NEW s \in SealEpochs, Preempted(s)
    PROVE  /\ phase' \in [SealEpochs -> Phases]
           /\ restarts' \in [SealEpochs -> Nat]
           /\ lng' \in [SealEpochs -> Nat]
           /\ sealed' \in [SealEpochs -> SUBSET Shards]
           /\ digest' = [t \in SealEpochs |-> digest'[t]]
           /\ \A t \in SealEpochs : IsDigest(digest'[t])
           /\ mutationSet' \in [SealEpochs -> SUBSET Shards]
           /\ settled' \in [SealEpochs ->
                                [Slots -> [kind : Kinds, bridge : BOOLEAN]]]
           /\ mutators' \in [SealEpochs -> SUBSET Slots]
           /\ required' \in [SealEpochs -> [Slots -> SUBSET Shards]]
           /\ stored' \in [SealEpochs -> [Slots -> SUBSET Shards]]
           /\ cleaned' \in [SealEpochs -> SUBSET Shards]
BY ConstantTypes DEF TypeOK, Preempted, Phases

LEMMA SealType ==
    ASSUME TypeOK, NEW s \in SealEpochs, NEW n \in Shards,
           Seal(s, n) \/ SealReplyLost(s, n) \/ SealPreempted(s, n)
    PROVE  TypeOK'
<1>1. CASE Seal(s, n)
  <2>1. lng' \in [SealEpochs -> Nat]
    BY <1>1 DEF TypeOK, Seal, Larger
  <2>2. seal' \in [Shards -> Nat] /\ sealed' \in [SealEpochs -> SUBSET Shards]
    BY <1>1, ConstantTypes DEF TypeOK, Seal
  <2>3. QED
    BY <1>1, <2>1, <2>2 DEF TypeOK, Seal, seqVars
<1>2. CASE SealReplyLost(s, n)
  BY <1>2, ConstantTypes DEF TypeOK, SealReplyLost, seqVars, machineVars
<1>3. CASE SealPreempted(s, n)
  BY <1>3, PreemptedType DEF TypeOK, SealPreempted, seqVars, shardVars
<1>4. QED
  BY <1>1, <1>2, <1>3

LEMMA DigestType ==
    ASSUME TypeOK, NEW s \in SealEpochs, NEW n \in Shards, DigestShard(s, n)
    PROVE  TypeOK'
<1>1. lng' \in [SealEpochs -> Nat]
  BY DEF TypeOK, DigestShard, Larger
<1>2. IsDigest(digest[s])
  BY DEF TypeOK
<1>3. IsDigest([m \in DOMAIN digest[s] \cup {n} |->
                    IF m = n THEN store[n] ELSE digest[s][m]])
  BY <1>2 DEF TypeOK, IsDigest
<1>4. digest' = [t \in SealEpochs |-> digest'[t]]
  BY DEF TypeOK, DigestShard
<1>5. \A t \in SealEpochs : IsDigest(digest'[t])
  BY <1>3 DEF TypeOK, DigestShard
<1>6. QED
  BY <1>1, <1>4, <1>5 DEF TypeOK, DigestShard, seqVars, shardVars

LEMMA StartMutationsType ==
    ASSUME TypeOK, NEW s \in SealEpochs, NEW D \in SUBSET DOMAIN digest[s],
           NEW M \in SUBSET D, NEW r \in Selections(digest[s]),
           StartMutations(s, D, M, r)
    PROVE  TypeOK'
<1> DEFINE d == digest[s]
           plan == Settled(AfterBridges(d, M, lng[s], r), lng[s])
<1>1. IsDigest(d)
  BY DEF TypeOK
<1>2. r \in [Slots -> Copy]
  BY <1>1, SelectionType
<1>3. \A e \in Slots : plan[e].kind \in Kinds /\ plan[e].bridge \in BOOLEAN
  BY <1>2, SettledType
<1>4. settled' \in [SealEpochs -> [Slots -> [kind : Kinds, bridge : BOOLEAN]]]
  BY <1>3 DEF StartMutations, TypeOK
<1>5. M \subseteq Shards
  BY <1>1 DEF IsDigest
<1>6. /\ mutationSet' \in [SealEpochs -> SUBSET Shards]
      /\ required' \in [SealEpochs -> [Slots -> SUBSET Shards]]
      /\ mutators' \in [SealEpochs -> SUBSET Slots]
  BY <1>5 DEF StartMutations, TypeOK
<1>7. /\ phase' \in [SealEpochs -> Phases]
      /\ digest' = [t \in SealEpochs |-> digest'[t]]
      /\ \A t \in SealEpochs : IsDigest(digest'[t])
  BY ConstantTypes DEF StartMutations, TypeOK, Phases, Active
<1>8. QED
  BY <1>4, <1>6, <1>7 DEF StartMutations, TypeOK, seqVars, shardVars

LEMMA MutateType ==
    ASSUME TypeOK, NEW s \in SealEpochs, NEW e \in Slots, NEW n \in Shards,
           MutateShard(s, e, n)
    PROVE  TypeOK'
<1>1. [kind |-> settled[s][e].kind, bridge |-> settled[s][e].bridge,
       recovery |-> TRUE, wave |-> s] \in Copy
  BY ConstantTypes DEF TypeOK, Copy
<1>2. store' \in [Shards -> [Slots -> Copy]]
  BY <1>1 DEF TypeOK, MutateShard
<1>3. shardLng' \in [Shards -> Nat]
  BY DEF TypeOK, MutateShard, Larger
<1>4. stored' \in [SealEpochs -> [Slots -> SUBSET Shards]]
  BY DEF TypeOK, MutateShard
<1>5. QED
  BY <1>2, <1>3, <1>4 DEF TypeOK, MutateShard, seqVars

LEMMA MachineType ==
    ASSUME TypeOK, NEW s \in SealEpochs, MachineNext(s)
    PROVE  TypeOK'
<1>1. ASSUME NEW n \in Shards,
             Seal(s, n) \/ SealReplyLost(s, n) \/ SealPreempted(s, n)
      PROVE  TypeOK'
  BY <1>1, SealType
<1>2. CASE StartDigest(s)
  BY <1>2 DEF TypeOK, StartDigest, Phases, Active, seqVars, shardVars
<1>3. ASSUME NEW n \in Shards, DigestShard(s, n) PROVE TypeOK'
  BY <1>3, DigestType
<1>4. ASSUME NEW D \in SUBSET DOMAIN digest[s], NEW M \in SUBSET D,
             NEW r \in Selections(digest[s]), StartMutations(s, D, M, r)
      PROVE  TypeOK'
  BY <1>4, StartMutationsType
<1>5. ASSUME NEW e \in Slots, NEW n \in Shards, MutateShard(s, e, n)
      PROVE  TypeOK'
  BY <1>5, MutateType
<1>6. ASSUME NEW e \in Slots, NEW n \in Shards, MutatePreempted(s, e, n)
      PROVE  TypeOK'
  BY <1>6, PreemptedType DEF TypeOK, MutatePreempted, seqVars, shardVars
<1>7. CASE MutationComplete(s)
  BY <1>7, ConstantTypes
  DEF TypeOK, MutationComplete, Phases, Active, seqVars, shardVars
<1>8. ASSUME NEW n \in Shards, Clean(s, n) PROVE TypeOK'
  <2>1. CASE seal[n] > s /\ Preempted(s)
    BY <1>8, <2>1, PreemptedType DEF TypeOK, Clean, seqVars
  <2>2. CASE ~(seal[n] > s /\ Preempted(s))
    <3>1. clean' \subseteq Shards
      BY <1>8 DEF TypeOK, Clean
    <3>2. PICK p \in {"CLEAN", "ADVANCE_LCE"} :
                phase' = [phase EXCEPT ![s] = p]
      BY <1>8, <2>2 DEF Clean
    <3>3. phase' \in [SealEpochs -> Phases]
      BY <3>2 DEF TypeOK, Phases, Active
    <3>4. cleaned' \in [SealEpochs -> SUBSET Shards]
      <4>1. cleaned' = [cleaned EXCEPT ![s] = @ \cup {n}]
        BY <1>8, <2>2 DEF Clean
      <4>2. QED
        BY <4>1 DEF TypeOK
    <3>5. QED
      BY <1>8, <2>2, <3>1, <3>3, <3>4 DEF TypeOK, Clean, seqVars
  <2>3. QED
    BY <2>1, <2>2
<1>9. CASE AdvanceLCE(s)
  <2>1. lce' \in [Slots -> Kinds]
    BY <1>9 DEF TypeOK, AdvanceLCE, RegisterLCE, Outcome, Kinds
  <2>2. QED
    BY <1>9, <2>1 DEF TypeOK, AdvanceLCE, Phases, Active, seqVars, shardVars
<1>10. CASE AdvanceLCEReplyLost(s)
  <2>1. lce' \in [Slots -> Kinds]
    BY <1>10 DEF TypeOK, AdvanceLCEReplyLost, RegisterLCE, Outcome, Kinds
  <2>2. QED
    BY <1>10, <2>1
    DEF TypeOK, AdvanceLCEReplyLost, seqVars, shardVars, machineVars
<1>11. CASE Restart(s)
  <2>1. digest' = [t \in SealEpochs |-> digest'[t]]
    BY <1>11 DEF TypeOK, Restart
  <2>2. \A t \in SealEpochs : IsDigest(digest'[t])
    <3> SUFFICES ASSUME NEW t \in SealEpochs PROVE IsDigest(digest'[t])
      OBVIOUS
    <3>1. CASE t = s
      <4>1. digest'[t] = NoDigest
        BY <1>11, <3>1 DEF TypeOK, Restart
      <4>2. QED
        BY <4>1, ConstantTypes
    <3>2. CASE t # s
      <4>1. digest'[t] = digest[t]
        BY <1>11, <3>2 DEF TypeOK, Restart
      <4>2. QED
        BY <4>1 DEF TypeOK
    <3>3. QED
      BY <3>1, <3>2
  <2>3. QED
    BY <1>11, <2>1, <2>2, ConstantTypes
    DEF TypeOK, Restart, Phases, Active, seqVars, shardVars
<1>12. QED
  BY <1>1, <1>2, <1>3, <1>4, <1>5, <1>6, <1>7, <1>8, <1>9, <1>10, <1>11
  DEF MachineNext

\* Every reachable state is well-typed: the sequencer, the shards, every
\* recovery and the epoch store.
THEOREM TypeCorrect == Spec => []TypeOK
<1>1. Init => TypeOK
  BY TypeInit
<1>2. TypeOK /\ [Next]_vars => TypeOK'
  <2> SUFFICES ASSUME TypeOK, [Next]_vars PROVE TypeOK'
    OBVIOUS
  <2>1. CASE SequencerNext
    BY <2>1, SequencerType
  <2>2. ASSUME NEW s \in SealEpochs, MachineNext(s) PROVE TypeOK'
    BY <2>2, MachineType
  <2>3. CASE UNCHANGED vars
    BY <2>3 DEF TypeOK, vars, seqVars, shardVars, machineVars
  <2>4. QED
    BY <2>1, <2>2, <2>3 DEF Next
<1>3. QED
  BY <1>1, <1>2, PTL DEF Spec

-----------------------------------------------------------------------------
(* Acknowledged records are never lost.                                    *)

\* An ESN that can still be acknowledged after a step could be before it: the
\* step seals shards, or adds a copy on a shard that is not sealed.
LEMMA ChoosableShrinks ==
    ASSUME TypeOK, TypeOK', NEW e \in Esns,
           \A n \in Shards : seal[n] =< seal'[n],
           \A n \in copies'[e] : n \in copies[e] \/ seal[n] < Epoch,
           Choosable(e)'
    PROVE  Choosable(e)
<1>1. PICK c \in CopySets : \A n \in c : n \in copies'[e] \/ seal'[n] < Epoch
  BY DEF Choosable
<1>2. ASSUME NEW n \in c PROVE n \in copies[e] \/ seal[n] < Epoch
  <2>1. n \in Shards
    BY CopySetsAssumption
  <2>2. seal[n] \in Nat /\ seal'[n] \in Nat /\ Epoch \in Nat
    BY <2>1, EpochAssumption DEF TypeOK
  <2>3. QED
    BY <1>1, <2>1, <2>2
<1>3. QED
  BY <1>2 DEF Choosable

LEMMA AckedChoosable ==
    ASSUME AckedInv, NEW e \in acked
    PROVE  Choosable(e)
BY DEF AckedInv, CanReplicate, Choosable

\* What a machine settles for an ESN that may be acknowledged: the f-majority
\* it digested meets the copyset in a sealed shard that has the record, and
\* no shard has anything that beats it.
LEMMA SettlesRecord ==
    ASSUME TypeOK, DurabilityInv, NEW s \in SealEpochs,
           NEW D \in SUBSET DOMAIN digest[s], NEW M \in SUBSET D,
           NEW r \in Selections(digest[s]), Fmajority(D),
           NEW e \in Esns, Choosable(e)
    PROVE  LET plan == Settled(AfterBridges(digest[s], M, lng[s], r), lng[s])
           IN  /\ Harmless(plan, e)
               /\ plan[e].kind = "none" => e =< lng[s]
<1> DEFINE d == digest[s]
           after == AfterBridges(d, M, lng[s], r)
           plan == Settled(after, lng[s])
<1>0. /\ e \in Slots /\ e \in Nat /\ lng[s] \in Nat
      /\ \A k \in Slots : k \in Nat
      /\ \A n \in DOMAIN d : d[n] \in [Slots -> Copy]
  <2>1. IsDigest(d)
    BY DEF TypeOK
  <2>2. QED
    BY <2>1, ConstantTypes, MaxEsnAssumption DEF TypeOK, Slots, IsDigest
<1>1. PICK c \in CopySets : \A n \in c : n \in copies[e] \/ seal[n] < Epoch
  BY DEF Choosable
<1>2. PICK n \in c : n \in D
  BY DEF Fmajority
<1>3. n \in copies[e]
  <2>1. n \in Shards
    BY CopySetsAssumption
  <2>2. seal[n] \in Nat /\ s \in Nat /\ Epoch \in Nat /\ s >= Epoch
    BY <2>1, EpochAssumption, SealEpochsAssumption DEF TypeOK
  <2>3. seal[n] >= s
    BY <1>2 DEF DurabilityInv, SealedInv
  <2>4. QED
    BY <1>1, <2>2, <2>3
<1>4. /\ d[n][e].kind = "record"
      /\ \A m \in DOMAIN d : Harmless(d[m], e)
  BY <1>2, <1>3 DEF DurabilityInv, DigestInv
<1>5. n \in Senders(d, e) /\ e \in Entries(d)
  BY <1>0, <1>2, <1>4 DEF Senders, Entries
<1>6. r[e] \in Copy /\ r[e].kind = "record"
  <2>1. r[e] \in Highest(d, e)
    BY <1>0, <1>5 DEF Selections
  <2>2. PICK m \in Senders(d, e) : r[e] = d[m][e]
    BY <2>1 DEF Highest
  <2>3. m \in DOMAIN d /\ d[m][e].kind # "none"
    BY <2>2 DEF Senders
  <2>4. d[m][e] \in Copy /\ d[m][e].kind # "hole"
    BY <1>0, <1>4, <2>3 DEF Harmless
  <2>5. QED
    BY <2>2, <2>3, <2>4 DEF Copy, Kinds
<1>7. BridgesUpTo(d, M, lng[s], e) = {}
  BY <1>0, <1>4 DEF BridgesUpTo, Harmless
<1>8. after[e].kind = "record"
  <2>1. after[e] = ApplyBridges(r[e], BridgesUpTo(d, M, lng[s], e))
    BY <1>0, <1>6 DEF AfterBridges
  <2>2. after[e] = [r[e] EXCEPT !.bridge = FALSE]
    BY <1>7, <2>1 DEF ApplyBridges
  <2>3. QED
    BY <1>6, <2>2 DEF Copy
<1>9. ASSUME NEW k \in Slots, k =< e PROVE ~plan[k].bridge
  <2>1. CASE Mutated(after, lng[s], k)
    <3>1. ~NewBridge(after, lng[s], k)
      BY <1>0, <1>8, <1>9 DEF NewBridge
    <3>2. plan[k].bridge = NewBridge(after, lng[s], k)
      BY <2>1 DEF Settled
    <3>3. QED
      BY <3>1, <3>2
  <2>2. CASE ~Mutated(after, lng[s], k)
    BY <2>2 DEF Settled, NoCopy
  <2>3. QED
    BY <2>1, <2>2
<1>10. CASE lng[s] < e
  <2>1. Mutated(after, lng[s], e)
    BY <1>0, <1>8, <1>10 DEF Mutated
  <2>2. plan[e].kind = "record"
    BY <1>0, <1>8, <2>1 DEF Settled
  <2>3. QED
    BY <1>9, <2>2 DEF Harmless
<1>11. CASE ~(lng[s] < e)
  <2>1. ~Mutated(after, lng[s], e)
    BY <1>11 DEF Mutated
  <2>2. plan[e].kind = "none"
    BY <1>0, <2>1 DEF Settled, NoCopy
  <2>3. QED
    BY <1>0, <1>9, <1>11, <2>2 DEF Harmless
<1>12. QED
  BY <1>10, <1>11

LEMMA DurabilityInit == Init => DurabilityInv
<1> SUFFICES ASSUME Init PROVE DurabilityInv
  OBVIOUS
<1>1. SealedInv
  BY DEF Init, MachinesInit, SealedInv, NoDigest
<1>2. AckedInv
  BY DEF Init, AckedInv
<1>3. StoreInv
  BY ConstantTypes DEF Init, StoreInv, Harmless, EmptyShard, NoCopy
<1>4. DigestInv
  BY DEF Init, MachinesInit, DigestInv, NoDigest
<1>5. SettledInv
  BY DEF Init, MachinesInit, SettledInv, Settling
<1>6. QED
  BY <1>1, <1>2, <1>3, <1>4, <1>5 DEF DurabilityInv

\* A STORE of an Appender adds a copy on a shard that no machine has sealed,
\* hence none has digested.
LEMMA StoreDurability ==
    ASSUME TypeOK, TypeOK', DurabilityInv, NEW e \in Esns, NEW n \in Shards,
           NEW l \in 0 .. MaxEsn, StoreRecord(e, n, l)
    PROVE  DurabilityInv'
<1>0. /\ e \in Slots /\ seal' = seal /\ seal[n] < Epoch
      /\ copies' = [copies EXCEPT ![e] = @ \cup {n}]
      /\ copies \in [Esns -> SUBSET Shards]
      /\ store \in [Shards -> [Slots -> Copy]]
      /\ seal \in [Shards -> Nat]
      /\ UNCHANGED <<acked, machineVars>>
  BY ConstantTypes, EpochAssumption DEF TypeOK, StoreRecord, AcceptsAppends
<1>1. SealedInv'
  BY <1>0 DEF DurabilityInv, SealedInv, machineVars
<1>2. AckedInv'
  BY <1>0 DEF DurabilityInv, AckedInv, CanReplicate, TypeOK
<1>3. \A k \in Esns : Choosable(k)' => Choosable(k)
  <2>1. /\ \A m \in Shards : seal[m] =< seal'[m]
        /\ \A k \in Esns : \A m \in copies'[k] :
                m \in copies[k] \/ seal[m] < Epoch
    BY <1>0
  <2>2. QED
    BY <2>1, ChoosableShrinks
<1>4. /\ store'[n][e].kind = "record" /\ ~store'[n][e].bridge
      /\ \A m \in Shards, k \in Slots :
            m # n \/ k # e => store'[m][k] = store[m][k]
  BY <1>0 DEF StoreRecord
<1>5. StoreInv'
  <2> SUFFICES ASSUME NEW k \in Esns, Choosable(k)', NEW m \in Shards
               PROVE  /\ Harmless(store[m], k)'
                      /\ m \in copies'[k] => store'[m][k].kind = "record"
    BY DEF StoreInv
  <2>1. /\ Harmless(store[m], k)
        /\ m \in copies[k] => store[m][k].kind = "record"
    BY <1>3 DEF DurabilityInv, StoreInv
  <2>2. k \in Slots
    BY ConstantTypes
  <2>3. QED
    BY <1>0, <1>4, <2>1, <2>2 DEF Harmless
<1>6. DigestInv'
  <2> SUFFICES ASSUME NEW k \in Esns, Choosable(k)', NEW s \in SealEpochs,
                      NEW m \in DOMAIN digest'[s]
               PROVE  /\ Harmless(digest[s][m], k)'
                      /\ m \in copies'[k] => digest'[s][m][k].kind = "record"
    BY DEF DigestInv
  <2>1. digest' = digest
    BY <1>0 DEF machineVars
  <2>2. /\ Harmless(digest[s][m], k)
        /\ m \in copies[k] => digest[s][m][k].kind = "record"
    BY <1>3, <2>1 DEF DurabilityInv, DigestInv
  <2>3. m # n
    <3>1. seal[m] >= s
      BY <2>1 DEF DurabilityInv, SealedInv
    <3>2. s \in Nat /\ s >= Epoch /\ Epoch \in Nat
      BY SealEpochsAssumption, EpochAssumption
    <3>3. QED
      BY <1>0, <3>1, <3>2
  <2>4. QED
    BY <1>0, <2>1, <2>2, <2>3 DEF Harmless
<1>7. SettledInv'
  BY <1>0, <1>3 DEF DurabilityInv, SettledInv, Harmless, machineVars
<1>8. QED
  BY <1>1, <1>2, <1>5, <1>6, <1>7 DEF DurabilityInv

LEMMA SequencerDurability ==
    ASSUME TypeOK, TypeOK', DurabilityInv, SequencerNext
    PROVE  DurabilityInv'
<1>1. CASE Append
  BY <1>1 DEF Append, DurabilityInv, SealedInv, AckedInv, StoreInv, DigestInv,
              SettledInv, Choosable, Harmless, shardVars, machineVars
<1>2. ASSUME NEW e \in Esns, Acknowledge(e) PROVE DurabilityInv'
  <2>1. AckedInv'
    BY <1>2 DEF Acknowledge, FullyStored, DurabilityInv, AckedInv
  <2>2. QED
    BY <1>2, <2>1
    DEF Acknowledge, DurabilityInv, SealedInv, StoreInv, DigestInv,
        SettledInv, Choosable, Harmless, shardVars, machineVars
<1>3. ASSUME NEW e \in Esns, NEW n \in Shards, NEW l \in 0 .. MaxEsn,
             StoreRecord(e, n, l)
      PROVE  DurabilityInv'
  BY <1>3, StoreDurability
<1>4. QED
  BY <1>1, <1>2, <1>3 DEF SequencerNext

-----------------------------------------------------------------------------
\* A step that only moves machine s on, or ends or resets it, and changes no
\* shard's seal or copies.
LEMMA MachineOnly ==
    ASSUME TypeOK, TypeOK', DurabilityInv, NEW s \in SealEpochs,
           UNCHANGED <<copies, acked, seal, store>>,
           \A t \in SealEpochs \ {s} :
                /\ sealed'[t] = sealed[t] /\ digest'[t] = digest[t]
                /\ mutators'[t] = mutators[t] /\ settled'[t] = settled[t]
                /\ phase'[t] = phase[t] /\ lng'[t] = lng[t],
           sealed'[s] \subseteq sealed[s],
           digest'[s] = NoDigest \/ digest'[s] = digest[s],
           digest'[s] # NoDigest =>
                phase[s] \in Settling \/ sealed'[s] = sealed[s],
           mutators'[s] # {} =>
                mutators'[s] = mutators[s] /\ settled'[s] = settled[s],
           phase'[s] \in Settling => phase[s] \in Settling,
           phase'[s] \in Settling \/ settled'[s] # NoChange =>
                /\ phase[s] \in Settling \/ settled[s] # NoChange
                /\ settled'[s] = settled[s] /\ lng'[s] = lng[s]
    PROVE  DurabilityInv'
<1>1. SealedInv'
  <2> SUFFICES ASSUME NEW t \in SealEpochs
               PROVE  /\ \A n \in sealed'[t] : seal'[n] >= t
                      /\ DOMAIN digest'[t] \subseteq sealed'[t]
                      /\ phase'[t] \in Settling => DOMAIN digest'[t] = {}
                      /\ \A e \in mutators'[t] : settled'[t][e].kind # "none"
    BY DEF SealedInv
  <2>1. DOMAIN NoDigest = {}
    BY DEF NoDigest
  <2>2. /\ \A n \in sealed[t] : seal[n] >= t
        /\ DOMAIN digest[t] \subseteq sealed[t]
        /\ phase[t] \in Settling => DOMAIN digest[t] = {}
        /\ \A e \in mutators[t] : settled[t][e].kind # "none"
    BY DEF DurabilityInv, SealedInv
  <2>3. CASE t # s
    BY <2>2, <2>3
  <2>4. CASE t = s
    BY <2>1, <2>2, <2>4
  <2>5. QED
    BY <2>3, <2>4
<1>2. \A e \in Esns : Choosable(e)' = Choosable(e)
  BY DEF Choosable
<1>3. AckedInv' /\ StoreInv'
  BY <1>2 DEF DurabilityInv, AckedInv, StoreInv, Harmless
<1>4. DigestInv'
  <2> SUFFICES ASSUME NEW e \in Esns, Choosable(e), NEW t \in SealEpochs,
                      NEW n \in DOMAIN digest'[t]
               PROVE  /\ Harmless(digest[t][n], e)'
                      /\ n \in copies'[e] => digest'[t][n][e].kind = "record"
    BY <1>2 DEF DigestInv
  <2>1. digest'[t] = digest[t]
    BY DEF NoDigest
  <2>2. QED
    BY <2>1 DEF DurabilityInv, DigestInv, Harmless
<1>5. SettledInv'
  <2> SUFFICES ASSUME NEW e \in Esns, Choosable(e), NEW t \in SealEpochs,
                      phase'[t] \in Settling \/ settled'[t] # NoChange
               PROVE  /\ Harmless(settled[t], e)'
                      /\ settled'[t][e].kind = "none" => e =< lng'[t]
    BY <1>2 DEF SettledInv
  <2>1. /\ phase[t] \in Settling \/ settled[t] # NoChange
        /\ settled'[t] = settled[t] /\ lng'[t] = lng[t]
    OBVIOUS
  <2>2. QED
    BY <2>1 DEF DurabilityInv, SettledInv, Harmless
<1>6. QED
  BY <1>1, <1>3, <1>4, <1>5 DEF DurabilityInv
\* The seal of shard n is raised to s, and the machine may learn of it.
LEMMA SealDurability ==
    ASSUME TypeOK, TypeOK', DurabilityInv, NEW s \in SealEpochs,
           NEW n \in Shards, seal[n] =< s, seal' = [seal EXCEPT ![n] = s],
           UNCHANGED <<copies, acked, store, digest, mutators, settled, phase>>,
           \A t \in SealEpochs : lng[t] =< lng'[t],
           \A t \in SealEpochs : sealed[t] \subseteq sealed'[t],
           \A t \in SealEpochs : t # s => sealed'[t] = sealed[t],
           sealed'[s] \subseteq sealed[s] \cup {n}
    PROVE  DurabilityInv'
<1>0. /\ seal \in [Shards -> Nat] /\ SealEpochs \subseteq Nat
      /\ sealed \in [SealEpochs -> SUBSET Shards]
      /\ \A m \in Shards : seal[m] =< seal'[m]
  BY ConstantTypes DEF TypeOK
<1>1. SealedInv'
  <2>1. ASSUME NEW t \in SealEpochs, NEW m \in sealed'[t]
        PROVE  seal'[m] >= t
    <3>1. m \in sealed[t] => m \in Shards /\ seal[m] >= t
      BY <1>0 DEF DurabilityInv, SealedInv
    <3>2. t # s => m \in sealed[t]
      BY <2>1
    <3>3. t = s => m \in sealed[t] \/ m = n
      BY <2>1
    <3>4. QED
      BY <1>0, <3>1, <3>2, <3>3
  <2>2. QED
    BY <2>1 DEF DurabilityInv, SealedInv
<1>2. \A e \in Esns : Choosable(e)' => Choosable(e)
  BY <1>0, ChoosableShrinks
<1>3. AckedInv' /\ StoreInv' /\ DigestInv'
  BY <1>2 DEF DurabilityInv, AckedInv, StoreInv, DigestInv, Harmless
<1>4. SettledInv'
  <2> SUFFICES ASSUME NEW e \in Esns, Choosable(e), NEW t \in SealEpochs,
                      phase[t] \in Settling \/ settled[t] # NoChange
               PROVE  /\ Harmless(settled[t], e)
                      /\ settled[t][e].kind = "none" => e =< lng'[t]
    BY <1>2 DEF SettledInv, Harmless
  <2>1. /\ Harmless(settled[t], e)
        /\ settled[t][e].kind = "none" => e =< lng[t]
    BY DEF DurabilityInv, SettledInv
  <2>2. e \in Nat /\ lng[t] \in Nat /\ lng'[t] \in Nat /\ lng[t] =< lng'[t]
    BY MaxEsnAssumption DEF TypeOK, Esns
  <2>3. QED
    BY <2>1, <2>2
<1>5. QED
  BY <1>1, <1>3, <1>4 DEF DurabilityInv

\* A machine digests the content of a shard it has sealed.
LEMMA DigestDurability ==
    ASSUME TypeOK, TypeOK', DurabilityInv, NEW s \in SealEpochs,
           NEW n \in Shards, DigestShard(s, n)
    PROVE  DurabilityInv'
<1>0. /\ UNCHANGED <<copies, acked, seal, store, phase, sealed, settled,
                     mutators>>
      /\ phase[s] \notin Settling
      /\ n \in sealed[s]
  BY DEF DigestShard, seqVars, shardVars, Settling
<1>1. /\ DOMAIN digest'[s] = DOMAIN digest[s] \cup {n}
      /\ digest'[s][n] = store[n]
      /\ \A m \in DOMAIN digest[s] : m # n => digest'[s][m] = digest[s][m]
      /\ \A t \in SealEpochs : t # s =>
            digest'[t] = digest[t] /\ lng'[t] = lng[t]
  BY DEF DigestShard, TypeOK
<1>2. SealedInv'
  <2>1. ASSUME NEW t \in SealEpochs
        PROVE  /\ DOMAIN digest'[t] \subseteq sealed[t]
               /\ phase[t] \in Settling => DOMAIN digest'[t] = {}
    <3>1. /\ DOMAIN digest[t] \subseteq sealed[t]
          /\ phase[t] \in Settling => DOMAIN digest[t] = {}
      BY DEF DurabilityInv, SealedInv
    <3>2. QED
      BY <1>0, <1>1, <3>1
  <2>2. QED
    BY <1>0, <2>1 DEF DurabilityInv, SealedInv
<1>3. \A e \in Esns : Choosable(e)' = Choosable(e)
  BY <1>0 DEF Choosable
<1>4. AckedInv' /\ StoreInv'
  BY <1>0, <1>3 DEF DurabilityInv, AckedInv, StoreInv, Harmless
<1>5. DigestInv'
  <2> SUFFICES ASSUME NEW e \in Esns, Choosable(e), NEW t \in SealEpochs,
                      NEW m \in DOMAIN digest'[t]
               PROVE  /\ Harmless(digest[t][m], e)'
                      /\ m \in copies[e] => digest'[t][m][e].kind = "record"
    BY <1>0, <1>3 DEF DigestInv
  <2>1. CASE t = s /\ m = n
    BY <1>1, <2>1 DEF DurabilityInv, StoreInv, Harmless
  <2>2. CASE ~(t = s /\ m = n)
    <3>1. m \in DOMAIN digest[t] /\ digest'[t][m] = digest[t][m]
      BY <1>1, <2>2
    <3>2. QED
      BY <3>1 DEF DurabilityInv, DigestInv, Harmless
  <2>3. QED
    BY <2>1, <2>2
<1>6. SettledInv'
  <2>1. \A t \in SealEpochs : lng[t] =< lng'[t] /\ lng[t] \in Nat /\ lng'[t] \in Nat
    BY DEF DigestShard, TypeOK, Larger
  <2>2. \A e \in Esns : e \in Nat
    BY MaxEsnAssumption DEF Esns
  <2>3. QED
    BY <1>0, <1>3, <2>1, <2>2 DEF DurabilityInv, SettledInv, Harmless
<1>7. QED
  BY <1>2, <1>4, <1>5, <1>6 DEF DurabilityInv

LEMMA StartMutationsDurability ==
    ASSUME TypeOK, TypeOK', DurabilityInv, NEW s \in SealEpochs,
           NEW D \in SUBSET DOMAIN digest[s], NEW M \in SUBSET D,
           NEW r \in Selections(digest[s]), StartMutations(s, D, M, r)
    PROVE  DurabilityInv'
<1> DEFINE plan == Settled(AfterBridges(digest[s], M, lng[s], r), lng[s])
<1>0. /\ UNCHANGED <<copies, acked, seal, store, sealed, lng>>
      /\ Fmajority(D)
      /\ digest'[s] = NoDigest
      /\ \A e \in Slots : /\ settled'[s][e].kind = plan[e].kind
                          /\ settled'[s][e].bridge = plan[e].bridge
      /\ \A e \in mutators'[s] : e \in Slots /\ plan[e].kind # "none"
      /\ \A t \in SealEpochs : t # s =>
            /\ digest'[t] = digest[t] /\ settled'[t] = settled[t]
            /\ mutators'[t] = mutators[t] /\ phase'[t] = phase[t]
  BY DEF StartMutations, DigestSufficient, TypeOK, seqVars, shardVars
<1>1. SealedInv'
  <2>1. ASSUME NEW t \in SealEpochs
        PROVE  /\ DOMAIN digest'[t] \subseteq sealed[t]
               /\ phase'[t] \in Settling => DOMAIN digest'[t] = {}
               /\ \A e \in mutators'[t] : settled'[t][e].kind # "none"
    <3>1. CASE t = s
      BY <1>0, <3>1 DEF NoDigest
    <3>2. CASE t # s
      BY <1>0, <3>2 DEF DurabilityInv, SealedInv
    <3>3. QED
      BY <3>1, <3>2
  <2>2. QED
    BY <1>0, <2>1 DEF DurabilityInv, SealedInv
<1>2. \A e \in Esns : Choosable(e)' = Choosable(e)
  BY <1>0 DEF Choosable
<1>3. AckedInv' /\ StoreInv'
  BY <1>0, <1>2 DEF DurabilityInv, AckedInv, StoreInv, Harmless
<1>4. DigestInv'
  <2> SUFFICES ASSUME NEW e \in Esns, Choosable(e), NEW t \in SealEpochs,
                      NEW n \in DOMAIN digest'[t]
               PROVE  /\ Harmless(digest[t][n], e)'
                      /\ n \in copies[e] => digest'[t][n][e].kind = "record"
    BY <1>0, <1>2 DEF DigestInv
  <2>1. digest'[t] = digest[t]
    BY <1>0 DEF NoDigest
  <2>2. QED
    BY <2>1 DEF DurabilityInv, DigestInv, Harmless
<1>5. SettledInv'
  <2> SUFFICES ASSUME NEW e \in Esns, Choosable(e), NEW t \in SealEpochs,
                      phase'[t] \in Settling \/ settled'[t] # NoChange
               PROVE  /\ Harmless(settled[t], e)'
                      /\ settled'[t][e].kind = "none" => e =< lng[t]
    BY <1>0, <1>2 DEF SettledInv
  <2>1. CASE t = s
    <3>1. /\ Harmless(plan, e)
          /\ plan[e].kind = "none" => e =< lng[s]
      BY <1>0, SettlesRecord
    <3>2. e \in Slots
      BY ConstantTypes
    <3>3. QED
      BY <1>0, <2>1, <3>1, <3>2 DEF Harmless
  <2>2. CASE t # s
    BY <1>0, <2>2 DEF DurabilityInv, SettledInv, Harmless
  <2>3. QED
    BY <2>1, <2>2
<1>6. QED
  BY <1>1, <1>3, <1>4, <1>5 DEF DurabilityInv

\* A Mutator stores what its machine has settled, which SettledInv covers.
LEMMA MutateDurability ==
    ASSUME TypeOK, TypeOK', DurabilityInv, NEW s \in SealEpochs,
           NEW e \in Slots, NEW n \in Shards, MutateShard(s, e, n)
    PROVE  DurabilityInv'
<1>0. /\ UNCHANGED <<copies, acked, seal, sealed, digest, mutators, settled,
                     phase, lng>>
      /\ phase[s] \in Settling
      /\ settled[s][e].kind \in {"record", "hole"}
      /\ store'[n][e].kind = settled[s][e].kind
      /\ store'[n][e].bridge = settled[s][e].bridge
      /\ \A m \in Shards, k \in Slots :
            m # n \/ k # e => store'[m][k] = store[m][k]
  <2>1. settled[s][e].kind # "none" /\ settled[s][e].kind \in Kinds
    BY DEF MutateShard, DurabilityInv, SealedInv, TypeOK
  <2>2. QED
    BY <2>1 DEF MutateShard, TypeOK, Kinds, Settling, seqVars
<1>1. SealedInv'
  BY <1>0 DEF DurabilityInv, SealedInv
<1>2. \A k \in Esns : Choosable(k)' = Choosable(k)
  BY <1>0 DEF Choosable
<1>3. AckedInv' /\ DigestInv' /\ SettledInv'
  BY <1>0, <1>2 DEF DurabilityInv, AckedInv, DigestInv, SettledInv, Harmless
<1>4. StoreInv'
  <2> SUFFICES ASSUME NEW k \in Esns, Choosable(k), NEW m \in Shards
               PROVE  /\ Harmless(store[m], k)'
                      /\ m \in copies[k] => store'[m][k].kind = "record"
    BY <1>0, <1>2 DEF StoreInv
  <2>1. /\ Harmless(store[m], k)
        /\ m \in copies[k] => store[m][k].kind = "record"
    BY DEF DurabilityInv, StoreInv
  <2>2. Harmless(settled[s], k)
    BY <1>0 DEF DurabilityInv, SettledInv
  <2>3. k \in Slots
    BY ConstantTypes
  <2>4. QED
    BY <1>0, <2>1, <2>2, <2>3 DEF Harmless
<1>5. QED
  BY <1>1, <1>3, <1>4 DEF DurabilityInv
LEMMA PreemptedDurability ==
    ASSUME TypeOK, TypeOK', DurabilityInv, NEW s \in SealEpochs, Preempted(s),
           UNCHANGED <<copies, acked, seal, store>>
    PROVE  DurabilityInv'
<1>1. \A t \in SealEpochs \ {s} :
            /\ sealed'[t] = sealed[t] /\ digest'[t] = digest[t]
            /\ mutators'[t] = mutators[t] /\ settled'[t] = settled[t]
            /\ phase'[t] = phase[t] /\ lng'[t] = lng[t]
  BY DEF Preempted, TypeOK
<1>2. /\ sealed'[s] = {} /\ digest'[s] = NoDigest
      /\ UNCHANGED <<settled, mutators, lng>> /\ phase'[s] \notin Settling
  BY DEF Preempted, TypeOK, Settling
<1>3. QED
  BY <1>1, <1>2, MachineOnly

LEMMA MachineDurability ==
    ASSUME TypeOK, TypeOK', DurabilityInv, NEW s \in SealEpochs, MachineNext(s)
    PROVE  DurabilityInv'
<1> DEFINE Others ==
        \A t \in SealEpochs \ {s} :
            /\ sealed'[t] = sealed[t] /\ digest'[t] = digest[t]
            /\ mutators'[t] = mutators[t] /\ settled'[t] = settled[t]
            /\ phase'[t] = phase[t] /\ lng'[t] = lng[t]
<1>1. ASSUME NEW n \in Shards, Seal(s, n) PROVE DurabilityInv'
  <2>1. \A t \in SealEpochs : lng[t] =< lng'[t]
    BY <1>1 DEF Seal, TypeOK, Larger
  <2>2. /\ seal[n] =< s /\ seal' = [seal EXCEPT ![n] = s]
        /\ UNCHANGED <<copies, acked, store, digest, mutators, settled, phase>>
        /\ \A t \in SealEpochs : sealed[t] \subseteq sealed'[t]
        /\ \A t \in SealEpochs : t # s => sealed'[t] = sealed[t]
        /\ sealed'[s] \subseteq sealed[s] \cup {n}
    BY <1>1 DEF Seal, TypeOK, seqVars
  <2>3. QED
    BY <2>1, <2>2, SealDurability
<1>2. ASSUME NEW n \in Shards, SealReplyLost(s, n) PROVE DurabilityInv'
  <2>1. \A t \in SealEpochs : lng[t] =< lng'[t]
    BY <1>2 DEF SealReplyLost, TypeOK, machineVars
  <2>2. seal[n] =< s
    BY <1>2, ConstantTypes DEF SealReplyLost, TypeOK
  <2>3. /\ seal' = [seal EXCEPT ![n] = s] /\ sealed' = sealed
        /\ UNCHANGED <<copies, acked, store, digest, mutators, settled, phase>>
    BY <1>2 DEF SealReplyLost, seqVars, machineVars
  <2>4. QED
    BY <2>1, <2>2, <2>3, SealDurability
<1>3. ASSUME NEW n \in Shards, SealPreempted(s, n) PROVE DurabilityInv'
  BY <1>3, PreemptedDurability DEF SealPreempted, seqVars, shardVars
<1>4. CASE StartDigest(s)
  <2>1. Others /\ sealed' = sealed /\ digest' = digest /\ settled' = settled
        /\ lng' = lng /\ mutators' = mutators /\ phase'[s] \notin Settling
        /\ UNCHANGED <<copies, acked, seal, store>>
    BY <1>4 DEF StartDigest, TypeOK, Settling, seqVars, shardVars
  <2>2. QED
    BY <2>1, MachineOnly
<1>5. ASSUME NEW n \in Shards, DigestShard(s, n) PROVE DurabilityInv'
  BY <1>5, DigestDurability
<1>6. ASSUME NEW D \in SUBSET DOMAIN digest[s], NEW M \in SUBSET D,
             NEW r \in Selections(digest[s]), StartMutations(s, D, M, r)
      PROVE  DurabilityInv'
  BY <1>6, StartMutationsDurability
<1>7. ASSUME NEW e \in Slots, NEW n \in Shards, MutateShard(s, e, n)
      PROVE  DurabilityInv'
  BY <1>7, MutateDurability
<1>8. ASSUME NEW e \in Slots, NEW n \in Shards, MutatePreempted(s, e, n)
      PROVE  DurabilityInv'
  BY <1>8, PreemptedDurability DEF MutatePreempted, seqVars, shardVars
<1>9. CASE MutationComplete(s)
  <2>1. Others /\ sealed' = sealed /\ digest' = digest /\ settled' = settled
        /\ lng' = lng /\ mutators' = mutators /\ phase[s] \in Settling
        /\ UNCHANGED <<copies, acked, seal, store>>
    BY <1>9 DEF MutationComplete, TypeOK, Settling, seqVars, shardVars
  <2>2. QED
    BY <2>1, MachineOnly
<1>10. ASSUME NEW n \in Shards, Clean(s, n) PROVE DurabilityInv'
  <2>0. UNCHANGED <<copies, acked, seal, store>>
    BY <1>10 DEF Clean, seqVars
  <2>1. CASE Preempted(s)
    BY <2>0, <2>1, PreemptedDurability
  <2>2. CASE ~Preempted(s)
    <3>1. UNCHANGED <<lng, sealed, digest, settled, mutators>>
      BY <1>10, <2>2 DEF Clean
    <3>2. \A t \in SealEpochs \ {s} : phase'[t] = phase[t]
      BY <1>10, <2>2 DEF Clean, TypeOK
    <3>3. phase[s] \in Settling
      BY <1>10 DEF Clean, Settling
    <3>4. QED
      BY <2>0, <3>1, <3>2, <3>3, MachineOnly
  <2>3. QED
    BY <2>1, <2>2
<1>11. CASE AdvanceLCE(s)
  <2>1. /\ \A t \in SealEpochs \ {s} :
                sealed'[t] = sealed[t] /\ phase'[t] = phase[t]
        /\ UNCHANGED <<digest, mutators, settled, lng>>
        /\ phase[s] \in Settling
        /\ sealed'[s] = {}
        /\ UNCHANGED <<copies, acked, seal, store>>
    BY <1>11 DEF AdvanceLCE, TypeOK, Settling, seqVars, shardVars
  <2>2. QED
    BY <2>1, MachineOnly
<1>12. CASE AdvanceLCEReplyLost(s)
  BY <1>12 DEF AdvanceLCEReplyLost, DurabilityInv, SealedInv, AckedInv,
               StoreInv, DigestInv, SettledInv, Choosable, Harmless,
               seqVars, shardVars, machineVars
<1>13. CASE Restart(s)
  <2>1. Others /\ sealed' = sealed /\ digest'[s] = NoDigest
        /\ mutators'[s] = {} /\ settled'[s] = NoChange
        /\ phase'[s] \notin Settling
        /\ UNCHANGED <<copies, acked, seal, store>>
    BY <1>13 DEF Restart, TypeOK, Settling, seqVars, shardVars
  <2>2. QED
    BY <2>1, MachineOnly
<1>14. QED
  BY <1>1, <1>2, <1>3, <1>4, <1>5, <1>6, <1>7, <1>8, <1>9, <1>10, <1>11,
     <1>12, <1>13
  DEF MachineNext

\* The inductive invariant: an ESN that may still be acknowledged is on all
\* the shards that stored it, in every digest and in every settled outcome,
\* and nothing anywhere can turn it into a hole.
THEOREM Durability == Spec => []DurabilityInv
<1>1. Init => DurabilityInv
  BY DurabilityInit
<1>2. TypeOK /\ TypeOK' /\ DurabilityInv /\ [Next]_vars => DurabilityInv'
  <2> SUFFICES ASSUME TypeOK, TypeOK', DurabilityInv, [Next]_vars
               PROVE  DurabilityInv'
    OBVIOUS
  <2>1. CASE SequencerNext
    BY <2>1, SequencerDurability
  <2>2. ASSUME NEW s \in SealEpochs, MachineNext(s) PROVE DurabilityInv'
    BY <2>2, MachineDurability
  <2>3. CASE UNCHANGED vars
    BY <2>3 DEF DurabilityInv, SealedInv, AckedInv, StoreInv, DigestInv,
                SettledInv, Choosable, Harmless,
                vars, seqVars, shardVars, machineVars
  <2>4. QED
    BY <2>1, <2>2, <2>3 DEF Next
<1>3. QED
  BY <1>1, <1>2, TypeCorrect, PTL DEF Spec

\* No recovery of the epoch, however many race with each other and with the
\* old sequencer and however often they restart, turns an acknowledged record
\* into a hole.
THEOREM NoAckedRecordLost == Spec => []AckedNeverLost
<1>1. TypeOK /\ DurabilityInv => AckedNeverLost
  <2> SUFFICES ASSUME TypeOK, DurabilityInv, NEW s \in SealEpochs,
                      phase[s] \in Settling, NEW e \in acked
               PROVE  Outcome(s)[e] = "record"
    BY DEF AckedNeverLost
  <2>1. e \in Esns /\ e \in Slots
    BY ConstantTypes DEF TypeOK
  <2>2. Choosable(e)
    BY AckedChoosable DEF DurabilityInv
  <2>3. /\ settled[s][e].kind # "hole"
        /\ settled[s][e].kind = "none" => e =< lng[s]
    BY <2>1, <2>2 DEF DurabilityInv, SettledInv, Harmless
  <2>4. settled[s][e].kind \in Kinds
    BY <2>1 DEF TypeOK
  <2>5. QED
    BY <2>1, <2>3, <2>4 DEF Outcome, Kinds
<1>2. QED
  BY <1>1, TypeCorrect, Durability, PTL

\* Whatever recoveries write, every acknowledged record stays on a whole
\* copyset.
THEOREM AckedStaysReplicated == Spec => []AckedReplicated
<1>1. TypeOK /\ DurabilityInv => AckedReplicated
  <2> SUFFICES ASSUME TypeOK, DurabilityInv, NEW e \in acked
               PROVE  CanReplicate({n \in Shards :
                                        store[n][e].kind = "record"})
    BY DEF AckedReplicated
  <2>1. e \in Esns /\ Choosable(e)
    BY AckedChoosable DEF TypeOK, DurabilityInv
  <2>2. \A n \in Shards : n \in copies[e] => store[n][e].kind = "record"
    BY <2>1 DEF DurabilityInv, StoreInv
  <2>3. CanReplicate(copies[e])
    BY DEF DurabilityInv, AckedInv
  <2>4. QED
    BY <2>2, <2>3, CopySetsAssumption DEF CanReplicate
<1>2. QED
  BY <1>1, TypeCorrect, Durability, PTL
-----------------------------------------------------------------------------
(* The last known good ESN.                                                *)

LEMMA LargerIsOne ==
    ASSUME NEW a, NEW b
    PROVE  Larger(a, b) = a \/ Larger(a, b) = b
BY DEF Larger

\* The LNGs of the shards and of the machines are copied around, and come from
\* the sequencer, which has acknowledged all ESNs up to its own.
LEMMA LngStep ==
    ASSUME TypeOK, LngSound, acked \subseteq acked',
           \A n \in Shards : \/ shardLng'[n] = shardLng[n]
                             \/ 1 .. shardLng'[n] \subseteq acked
                             \/ \E s \in SealEpochs : shardLng'[n] = lng[s],
           \A s \in SealEpochs : \/ lng'[s] = lng[s]
                                 \/ lng'[s] = 0
                                 \/ \E n \in Shards : lng'[s] = shardLng[n]
    PROVE  LngSound'
<1>1. ASSUME NEW n \in Shards PROVE 1 .. shardLng'[n] \subseteq acked
  BY DEF LngSound
<1>2. ASSUME NEW s \in SealEpochs PROVE 1 .. lng'[s] \subseteq acked
  BY DEF LngSound
<1>3. QED
  BY <1>1, <1>2 DEF LngSound

\* Every last known good ESN on a shard or in a recovery, which recovery takes
\* to cover records without looking, covers acknowledged ESNs only.
THEOREM LastKnownGoodSound == Spec => []LngSound
<1>1. Init => LngSound
  BY DEF Init, MachinesInit, LngSound
<1>2. TypeOK /\ LngSound /\ [Next]_vars => LngSound'
  <2> SUFFICES ASSUME TypeOK, LngSound, [Next]_vars PROVE LngSound'
    OBVIOUS
  <2>1. CASE SequencerNext
    <3>1. CASE Append \/ \E e \in Esns : Acknowledge(e)
      BY <3>1 DEF Append, Acknowledge, LngSound, shardVars, machineVars
    <3>2. ASSUME NEW e \in Esns, NEW n \in Shards, NEW l \in 0 .. MaxEsn,
                 StoreRecord(e, n, l)
          PROVE  LngSound'
      <4>1. 1 .. l \subseteq acked /\ acked' = acked /\ lng' = lng
        BY <3>2 DEF StoreRecord, LngOfAppender, machineVars
      <4>2. shardLng' = [shardLng EXCEPT ![n] = Larger(@, l)]
        BY <3>2 DEF StoreRecord
      <4>3. \A m \in Shards : \/ shardLng'[m] = shardLng[m]
                              \/ 1 .. shardLng'[m] \subseteq acked
        BY <4>1, <4>2, LargerIsOne DEF TypeOK
      <4>4. QED
        BY <4>1, <4>3, LngStep
    <3>3. QED
      BY <2>1, <3>1, <3>2 DEF SequencerNext
  <2>2. ASSUME NEW s \in SealEpochs, MachineNext(s) PROVE LngSound'
    <3>0. acked' = acked
      BY <2>2 DEF MachineNext, Seal, SealReplyLost, SealPreempted,
                  StartDigest, DigestShard, StartMutations, MutateShard,
                  MutatePreempted, MutationComplete, Clean, AdvanceLCE,
                  AdvanceLCEReplyLost, Restart, seqVars
    <3>1. ASSUME NEW n \in Shards, Seal(s, n) \/ DigestShard(s, n)
          PROVE  LngSound'
      <4>1. /\ lng' = [lng EXCEPT ![s] = Larger(@, shardLng[n])]
            /\ shardLng' = shardLng
        BY <3>1 DEF Seal, DigestShard, shardVars
      <4>2. \A t \in SealEpochs : lng'[t] = lng[t] \/ lng'[t] = shardLng[n]
        BY <4>1, LargerIsOne DEF TypeOK
      <4>3. QED
        BY <3>0, <4>1, <4>2, LngStep
    <3>2. ASSUME NEW e \in Slots, NEW n \in Shards, MutateShard(s, e, n)
          PROVE  LngSound'
      <4>1. /\ shardLng' = [shardLng EXCEPT ![n] = Larger(@, lng[s])]
            /\ lng' = lng
        BY <3>2 DEF MutateShard
      <4>2. \A m \in Shards : \/ shardLng'[m] = shardLng[m]
                              \/ shardLng'[m] = lng[s]
        BY <4>1, LargerIsOne DEF TypeOK
      <4>3. QED
        BY <3>0, <4>1, <4>2, LngStep
    <3>3. CASE Preempted(s) /\ shardLng' = shardLng
      <4>1. \A t \in SealEpochs : lng'[t] = lng[t] \/ lng'[t] = 0
        BY <3>3 DEF Preempted, TypeOK
      <4>2. QED
        BY <3>0, <3>3, <4>1, LngStep
    <3>4. CASE lng' = lng /\ shardLng' = shardLng
      BY <3>0, <3>4, LngStep
    <3>5. QED
      BY <2>2, <3>1, <3>2, <3>3, <3>4
      DEF MachineNext, SealReplyLost, SealPreempted, StartDigest,
          StartMutations, MutatePreempted, MutationComplete, Clean,
          AdvanceLCE, AdvanceLCEReplyLost, Restart, shardVars, machineVars
  <2>3. CASE UNCHANGED vars
    BY <2>3 DEF LngSound, vars, seqVars, shardVars, machineVars
  <2>4. QED
    BY <2>1, <2>2, <2>3 DEF Next
<1>3. QED
  BY <1>1, <1>2, TypeCorrect, PTL DEF Spec
-----------------------------------------------------------------------------
(* Precedence.                                                             *)

\* Seals only grow, and a machine mutates shards that it has sealed.
LEMMA PrecedenceFrame ==
    ASSUME TypeOK, PrecedenceInv, store' = store,
           \A n \in Shards : seal'[n] \in Nat /\ seal[n] =< seal'[n],
           \A s \in SealEpochs : \A n \in mutationSet'[s] :
                n \in mutationSet[s] \/ (n \in Shards /\ seal'[n] >= s)
    PROVE  PrecedenceInv'
<1>1. ASSUME NEW n \in Shards, NEW e \in Slots, store[n][e].kind # "none"
      PROVE  IF store[n][e].recovery
             THEN Epoch =< store[n][e].wave /\ store[n][e].wave =< seal'[n]
             ELSE store[n][e].wave = 1
  <2>1. store[n][e].wave \in Nat /\ seal[n] \in Nat
    BY DEF TypeOK, Copy
  <2>2. QED
    BY <1>1, <2>1, EpochAssumption DEF PrecedenceInv
<1>2. ASSUME NEW s \in SealEpochs, NEW n \in mutationSet'[s]
      PROVE  seal'[n] >= s
  <2>1. CASE n \in mutationSet[s]
    <3>1. n \in Shards /\ seal[n] >= s /\ seal[n] \in Nat /\ s \in Nat
      BY <2>1, ConstantTypes DEF PrecedenceInv, TypeOK
    <3>2. QED
      BY <3>1
  <2>2. QED
    BY <2>1
<1>3. QED
  BY <1>1, <1>2 DEF PrecedenceInv

LEMMA PrecedenceStore ==
    ASSUME TypeOK, PrecedenceInv, NEW n \in Shards, NEW e \in Slots,
           NEW c \in Copy, store' = [store EXCEPT ![n][e] = c],
           IF c.recovery THEN Epoch =< c.wave /\ c.wave =< seal[n]
                         ELSE c.wave = 1,
           UNCHANGED <<seal, mutationSet>>
    PROVE  PrecedenceInv'
<1>1. \A m \in Shards, k \in Slots :
        store'[m][k] = IF m = n /\ k = e THEN c ELSE store[m][k]
  BY DEF TypeOK
<1>2. QED
  BY <1>1 DEF PrecedenceInv

\* What a step of the old sequencer or of a recovery may do to a shard.
LEMMA PrecedenceStep ==
    ASSUME TypeOK, TypeOK', SealedInv, PrecedenceInv, Next
    PROVE  /\ PrecedenceInv'
           /\ \A n \in Shards, e \in Slots :
                store[n][e].kind # "none" => ~Precedes(store'[n][e], store[n][e])
<1> DEFINE Ascends == \A n \in Shards, e \in Slots :
                store[n][e].kind # "none" => ~Precedes(store'[n][e], store[n][e])
<1>a. ASSUME store' = store PROVE Ascends
  <2> SUFFICES ASSUME NEW n \in Shards, NEW e \in Slots
               PROVE  ~Precedes(store[n][e], store[n][e])
    BY <1>a
  <2>1. store[n][e] \in Copy
    BY DEF TypeOK
  <2>2. WaveOrSealEpoch(store[n][e]) \in Nat
    BY <2>1, LegacyWaveAssumption DEF WaveOrSealEpoch, Copy
  <2>3. QED
    BY <2>1, <2>2 DEF Precedes, Copy
<1>b. ASSUME NEW n \in Shards, NEW e \in Slots, NEW c \in Copy,
             store' = [store EXCEPT ![n][e] = c],
             store[n][e].kind # "none" => ~Precedes(c, store[n][e])
      PROVE  Ascends
  <2> SUFFICES ASSUME NEW m \in Shards, NEW k \in Slots,
                      store[m][k].kind # "none"
               PROVE  ~Precedes(store'[m][k], store[m][k])
    OBVIOUS
  <2>1. CASE m = n /\ k = e
    <3>1. store'[m][k] = c
      BY <1>b, <2>1 DEF TypeOK
    <3>2. QED
      BY <1>b, <2>1, <3>1
  <2>2. CASE ~(m = n /\ k = e)
    <3>1. store'[m][k] = store[m][k]
      BY <1>b, <2>2 DEF TypeOK
    <3>2. store[m][k] \in Copy
      BY DEF TypeOK
    <3>3. WaveOrSealEpoch(store[m][k]) \in Nat
      BY <3>2, LegacyWaveAssumption DEF WaveOrSealEpoch, Copy
    <3>4. QED
      BY <3>1, <3>2, <3>3 DEF Precedes, Copy
  <2>3. QED
    BY <2>1, <2>2
<1>c. \A n \in Shards : seal[n] \in Nat
  BY DEF TypeOK
<1>1. CASE Append \/ \E e \in Esns : Acknowledge(e)
  <2>1. UNCHANGED <<seal, store, mutationSet>>
    BY <1>1 DEF Append, Acknowledge, shardVars, machineVars
  <2>2. QED
    BY <1>a, <1>c, <2>1, PrecedenceFrame
<1>2. ASSUME NEW e \in Esns, NEW n \in Shards, NEW l \in 0 .. MaxEsn,
             StoreRecord(e, n, l)
      PROVE  PrecedenceInv' /\ Ascends
  <2> DEFINE c == [kind |-> "record", bridge |-> FALSE,
                   recovery |-> FALSE, wave |-> 1]
  <2>1. c \in Copy /\ e \in Slots
    BY ConstantTypes DEF Copy, Kinds
  <2>2. /\ store' = [store EXCEPT ![n][e] = c]
        /\ UNCHANGED <<seal, mutationSet>>
        /\ Epoch > seal[n]
    BY <1>2 DEF StoreRecord, AcceptsAppends, machineVars
  <2>3. PrecedenceInv'
    BY <2>1, <2>2, PrecedenceStore
  <2>4. ASSUME store[n][e].kind # "none"
        PROVE  ~Precedes(c, store[n][e])
    <3>1. store[n][e] \in Copy /\ seal[n] \in Nat
      BY <2>1 DEF TypeOK
    <3>2. ~store[n][e].recovery /\ store[n][e].wave = 1
      BY <2>1, <2>2, <2>4, <3>1, EpochAssumption DEF PrecedenceInv, Copy
    <3>3. QED
      BY <3>1, <3>2 DEF Precedes, WaveOrSealEpoch
  <2>5. QED
    BY <1>b, <2>1, <2>2, <2>3, <2>4
<1>3. ASSUME NEW s \in SealEpochs, NEW e \in Slots, NEW n \in Shards,
             MutateShard(s, e, n)
      PROVE  PrecedenceInv' /\ Ascends
  <2> DEFINE c == [kind |-> settled[s][e].kind, bridge |-> settled[s][e].bridge,
                   recovery |-> TRUE, wave |-> s]
  <2>1. c \in Copy
    BY ConstantTypes DEF TypeOK, Copy
  <2>2. /\ store' = [store EXCEPT ![n][e] = c]
        /\ UNCHANGED <<seal, mutationSet>>
        /\ seal[n] =< s
        /\ n \in mutationSet[s]
    BY <1>3 DEF MutateShard, NotPreempted
  <2>3. Epoch =< s /\ s =< seal[n]
    BY <2>2, SealEpochsAssumption, ConstantTypes, <1>c DEF PrecedenceInv
  <2>4. PrecedenceInv'
    BY <2>1, <2>2, <2>3, PrecedenceStore
  <2>5. ASSUME store[n][e].kind # "none"
        PROVE  ~Precedes(c, store[n][e])
    <3>1. store[n][e] \in Copy /\ seal[n] \in Nat /\ s \in Nat
      BY ConstantTypes DEF TypeOK
    <3>2. store[n][e].recovery => store[n][e].wave =< s
      BY <2>2, <2>5, <3>1 DEF PrecedenceInv, Copy
    <3>3. /\ store[n][e].recovery \in BOOLEAN
          /\ store[n][e].recovery =>
                WaveOrSealEpoch(store[n][e]) \in Nat
      BY <3>1 DEF Copy, WaveOrSealEpoch
    <3>4. c.recovery /\ WaveOrSealEpoch(c) = s
      BY DEF WaveOrSealEpoch
    <3>5. store[n][e].recovery => WaveOrSealEpoch(store[n][e]) =< s
      BY <3>2 DEF WaveOrSealEpoch
    <3> HIDE DEF c
    <3>6. CASE store[n][e].recovery
      <4>1. ~(WaveOrSealEpoch(c) < WaveOrSealEpoch(store[n][e]))
        BY <3>1, <3>3, <3>4, <3>5, <3>6
      <4>2. QED
        BY <3>4, <4>1 DEF Precedes
    <3>7. CASE ~store[n][e].recovery
      BY <3>4, <3>7 DEF Precedes
    <3>8. QED
      BY <3>6, <3>7
  <2>6. QED
    BY <1>b, <2>1, <2>2, <2>4, <2>5
<1>4. ASSUME NEW s \in SealEpochs, NEW n \in Shards,
             Seal(s, n) \/ SealReplyLost(s, n)
      PROVE  PrecedenceInv' /\ Ascends
  <2>1. /\ seal[n] =< s
        /\ seal' = [seal EXCEPT ![n] = s]
        /\ UNCHANGED <<store, mutationSet>>
    BY <1>4, <1>c, ConstantTypes DEF Seal, SealReplyLost, machineVars
  <2>2. \A m \in Shards : seal'[m] \in Nat /\ seal[m] =< seal'[m]
    BY <2>1, <1>c, ConstantTypes DEF TypeOK
  <2>3. QED
    BY <1>a, <2>1, <2>2, PrecedenceFrame
<1>5. ASSUME NEW s \in SealEpochs, NEW D \in SUBSET DOMAIN digest[s],
             NEW M \in SUBSET D, NEW r \in Selections(digest[s]),
             StartMutations(s, D, M, r)
      PROVE  PrecedenceInv' /\ Ascends
  <2>1. /\ mutationSet' = [mutationSet EXCEPT ![s] = M]
        /\ UNCHANGED <<store, seal>>
    BY <1>5 DEF StartMutations, shardVars
  <2>2. \A n \in M : n \in Shards /\ seal[n] >= s
    BY DEF SealedInv, TypeOK
  <2>3. \A t \in SealEpochs : \A n \in mutationSet'[t] :
            n \in mutationSet[t] \/ (n \in Shards /\ seal'[n] >= t)
    BY <2>1, <2>2 DEF TypeOK
  <2>4. QED
    BY <1>a, <1>c, <2>1, <2>3, PrecedenceFrame
<1>6. ASSUME NEW s \in SealEpochs, UNCHANGED <<store, seal>>,
             mutationSet' \in {mutationSet, [mutationSet EXCEPT ![s] = {}]}
      PROVE  PrecedenceInv' /\ Ascends
  <2>1. \A t \in SealEpochs : mutationSet'[t] \subseteq mutationSet[t]
    BY <1>6 DEF TypeOK
  <2>2. QED
    BY <1>6, <1>a, <1>c, <2>1, PrecedenceFrame
<1>7. ASSUME NEW s \in SealEpochs,
             \/ \E n \in Shards : SealPreempted(s, n) \/ DigestShard(s, n) \/ Clean(s, n)
             \/ \E e \in Slots, n \in Shards : MutatePreempted(s, e, n)
             \/ StartDigest(s) \/ MutationComplete(s) \/ AdvanceLCE(s)
             \/ AdvanceLCEReplyLost(s) \/ Restart(s)
      PROVE  PrecedenceInv' /\ Ascends
  <2>1. UNCHANGED <<store, seal>>
    BY <1>7 DEF SealPreempted, DigestShard, Clean, MutatePreempted, StartDigest,
                MutationComplete, AdvanceLCE, AdvanceLCEReplyLost, Restart, shardVars
  <2>2. mutationSet' \in {mutationSet, [mutationSet EXCEPT ![s] = {}]}
    <3>1. CASE \E n \in Shards : SealPreempted(s, n) \/ DigestShard(s, n) \/ Clean(s, n)
      BY <3>1 DEF SealPreempted, DigestShard, Clean, Preempted
    <3>2. CASE \E e \in Slots, n \in Shards : MutatePreempted(s, e, n)
      BY <3>2 DEF MutatePreempted, Preempted
    <3>3. CASE \/ StartDigest(s) \/ MutationComplete(s) \/ AdvanceLCE(s)
               \/ AdvanceLCEReplyLost(s) \/ Restart(s)
      BY <3>3 DEF StartDigest, MutationComplete, AdvanceLCE, AdvanceLCEReplyLost,
                  Restart, machineVars
    <3>4. QED
      BY <1>7, <3>1, <3>2, <3>3
  <2>3. QED
    BY <1>6, <2>1, <2>2
<1>8. ASSUME NEW s \in SealEpochs, MachineNext(s) PROVE PrecedenceInv' /\ Ascends
  BY <1>3, <1>4, <1>5, <1>7, <1>8 DEF MachineNext
<1>9. CASE SequencerNext
  BY <1>1, <1>2, <1>9 DEF SequencerNext
<1>10. QED
  BY <1>8, <1>9 DEF Next

LEMMA PrecedenceInvariance == Spec => []PrecedenceInv
<1>1. Init => PrecedenceInv
  BY DEF Init, MachinesInit, PrecedenceInv, EmptyShard, NoCopy
<1>2. TypeOK /\ TypeOK' /\ SealedInv /\ PrecedenceInv /\ [Next]_vars
        => PrecedenceInv'
  <2> SUFFICES ASSUME TypeOK, TypeOK', SealedInv, PrecedenceInv, [Next]_vars
               PROVE  PrecedenceInv'
    OBVIOUS
  <2>1. CASE Next
    BY <2>1, PrecedenceStep
  <2>2. CASE UNCHANGED vars
    BY <2>2 DEF PrecedenceInv, vars, shardVars, machineVars
  <2>3. QED
    BY <2>1, <2>2
<1>3. DurabilityInv => SealedInv
  BY DEF DurabilityInv
<1>4. QED
  BY <1>1, <1>2, <1>3, TypeCorrect, Durability, PTL DEF Spec

\* No STORE of an Appender and no STORE of a recovery replaces a copy that has
\* a higher precedence: the local log store keeps what was written last, and
\* that is what the precedence rules of Digest would have kept.
THEOREM PrecedenceNeverDrops == Spec => PrecedenceAscends
<1> DEFINE Ascends == \A n \in Shards, e \in Slots :
                store[n][e].kind # "none" => ~Precedes(store'[n][e], store[n][e])
<1>1. TypeOK /\ TypeOK' /\ SealedInv /\ PrecedenceInv /\ [Next]_vars
        => [Ascends]_vars
  BY PrecedenceStep
<1>2. DurabilityInv => SealedInv
  BY DEF DurabilityInv
<1>3. QED
  BY <1>1, <1>2, TypeCorrect, Durability, PrecedenceInvariance, PTL
     DEF Spec, PrecedenceAscends
=============================================================================
