--------------------------- MODULE PurgingProofs ---------------------------
(***************************************************************************)
(* Proofs about Purging, for any shards and copysets, any number of epochs *)
(* and of faults.                                                          *)
(***************************************************************************)
EXTENDS Purging, Extrema

\* What GetEpochRecoveryMetadataRequest may have concluded for an epoch.
Answers == {None} \cup [st : {"EMPTY"}] \cup [st : {"OK"}, erm : Erms]

\* The records a purge may be, by the fields it has.
IsStart(p) ==
    p = [st |-> p.st, from |-> p.from, to |-> p.to, new |-> p.new,
         token |-> p.token]

IsAsking(p) ==
    p = [st |-> p.st, from |-> p.from, to |-> p.to, new |-> p.new,
         token |-> p.token, last |-> p.last, lng |-> p.lng,
         asked |-> p.asked, ans |-> p.ans]

IsRunning(p) ==
    p = [st |-> p.st, from |-> p.from, to |-> p.to, new |-> p.new,
         token |-> p.token, last |-> p.last, lng |-> p.lng,
         ans |-> p.ans, del |-> p.del, write |-> p.write]

\* What is known of the epochs that a purge p works on.
StockType(p) ==
    /\ p.last \in [Unclean(p) -> 0..2]
    /\ p.lng \in [Unclean(p) -> 0..2]
    /\ p.ans \in [Unclean(p) -> Answers]

WorkType(p) ==
    /\ StockType(p)
    /\ p.del \subseteq Unclean(p)
    /\ p.write \subseteq Unclean(p)
    /\ \A e \in p.write : p.ans[e].st = "OK"
    /\ p.st # "run" => p.del \cup p.write = {}

PurgeType(p) ==
    \/ p = Idle
    \/ /\ p.st \in States \ {"idle"}
       /\ p.from \in 0..MaxEpoch /\ p.to \in 0..MaxEpoch /\ p.new \in 0..MaxEpoch
       /\ p.from < p.new /\ (p.to = p.new \/ p.to = p.new - 1)
       /\ p.token \in BOOLEAN
       /\ \/ IsStart(p) /\ p.st \in {"seal", "lce", "sync"}
                        /\ (p.st # "seal" => Unclean(p) = {})
          \/ p.st = "erm" /\ IsAsking(p) /\ StockType(p)
          \/ p.st \in {"run", "lce", "sync"} /\ IsRunning(p) /\ WorkType(p)

DiskInv ==
    /\ rec \in [Shards -> [Epochs -> SUBSET Esns]]
    /\ lng \in [Shards -> [Epochs -> 0..2]]
    /\ erm \in [Shards -> [Epochs -> Erms]]
    /\ lceDisk \in [Shards -> 0..MaxEpoch]
    /\ sealDisk \in [Shards -> 0..MaxEpoch]

MemoryInv ==
    /\ lce \in [Shards -> 0..MaxEpoch]
    /\ seal \in [Shards -> Int]
    /\ err \in [Shards -> BOOLEAN]
    /\ released \in [Shards -> {0} \cup Seqs]
    /\ waiting \in [Shards -> BOOLEAN]
    /\ others \in [Shards -> BOOLEAN]

BufferInv ==
    /\ inbox \in [Shards -> SUBSET Msgs]
    /\ pending \in [Shards -> SUBSET Msgs]
    /\ cleans \in [Shards -> SUBSET CleanMsgs]
    /\ bufRel \in [Shards -> {0} \cup Seqs]
    /\ replies \in [Shards -> SUBSET [e : Epochs, s : Seqs]]

PurgeInv ==
    /\ DOMAIN purge = Shards
    /\ purge = [n \in Shards |-> purge[n]]
    /\ \A n \in Shards : PurgeType(purge[n])

Phases == {"idle", "recover", "clean", "done", "stopped"}

RecoveryTypes ==
    /\ phase \in [Seqs -> Phases]
    /\ at \in [Seqs -> 0..(MaxEpoch + 1)]
    /\ \A s \in Seqs : phase[s] \in {"recover", "clean", "stopped"} =>
            at[s] \in Epochs /\ at[s] < s
    /\ sealed \in [Seqs -> SUBSET Shards]
    /\ part \in [Seqs -> SUBSET Shards]
    /\ cleaned \in [Seqs -> SUBSET Shards]
    /\ out \in [Seqs -> [Epochs -> Erms]]
    /\ settled \in [Epochs -> (-1)..2]
    /\ glce \in 0..MaxEpoch
    /\ faults \in Nat

Types == DiskInv /\ MemoryInv /\ BufferInv /\ PurgeInv /\ RecoveryTypes

\* The last clean epoch on disk is the one in memory, until a purge that is
\* about to end has written its own.
LceInv ==
    \A n \in Shards :
        /\ Active(n) => purge[n].from = lce[n]
        /\ lceDisk[n] = IF purge[n].st = "sync" THEN purge[n].new ELSE lce[n]

-----------------------------------------------------------------------------
(* Types.                                                                  *)

LEMMA MaxOfSmall ==
    ASSUME NEW S, S \subseteq 0..2, S # {}
    PROVE  Max(S) \in S /\ \A x \in S : x =< Max(S)
<1>1. \E m \in S : IsMaximum(m, S)
  <2>1. CASE 2 \in S
    BY <2>1 DEF IsMaximum
  <2>2. CASE 2 \notin S /\ 1 \in S
    BY <2>2 DEF IsMaximum
  <2>3. CASE 2 \notin S /\ 1 \notin S
    <3>1. PICK z \in S : TRUE
      OBVIOUS
    <3>2. \A y \in S : y \in 0..2 /\ y # 1 /\ y # 2
      BY <2>3
    <3>3. \A y \in S : y = 0
      BY <3>2
    <3>4. IsMaximum(z, S)
      BY <3>1, <3>3 DEF IsMaximum
    <3>5. QED
      BY <3>4
  <2>4. QED
    BY <2>1, <2>2, <2>3
<1>2. QED
  BY <1>1, MaxIsMaximum DEF IsMaximum

LEMMA LastOf ==
    ASSUME NEW S, S \subseteq Esns
    PROVE  /\ Last(S) \in 0..2 /\ S \subseteq 1..Last(S)
           /\ S # {} => Last(S) \in S
<1>1. CASE S = {}
  BY <1>1 DEF Last
<1>2. CASE S # {}
  <2>1. S \subseteq 0..2
    BY DEF Esns
  <2>2. Max(S) \in S /\ \A x \in S : x =< Max(S)
    BY <1>2, <2>1, MaxOfSmall
  <2>3. Last(S) = Max(S) /\ Max(S) \in 1..2
    BY <1>2, <2>2 DEF Last, Esns
  <2>4. \A x \in S : x \in 1..Max(S)
    BY <2>2, <2>3 DEF Esns
  <2>5. QED
    BY <2>2, <2>3, <2>4
<1>3. QED
  BY <1>1, <1>2

LEMMA SeqsRange ==
    /\ MaxEpoch \in Nat
    /\ \A s \in Seqs : s \in Int /\ 2 =< s /\ s - 1 =< MaxEpoch
BY PurgingAssumption

LEMMA InitTypes == Init => Types /\ LceInv
<1> SUFFICES ASSUME Init PROVE Types /\ LceInv
  OBVIOUS
<1>2. DiskInv
  <2>1. NoErm \in Erms
    BY DEF NoErm, Erms
  <2>2. QED
    BY <2>1, PurgingAssumption DEF Init, DiskInv, Esns
<1>3. MemoryInv /\ BufferInv
  BY PurgingAssumption DEF Init, MemoryInv, BufferInv
<1>4. PurgeInv
  BY DEF Init, PurgeInv, PurgeType
<1>5. RecoveryTypes
  BY PurgingAssumption DEF Init, RecoveryTypes, Phases, NoErm, Erms
<1>6. LceInv
  BY DEF Init, LceInv, Active, Idle
<1>7. QED
  BY <1>2, <1>3, <1>4, <1>5, <1>6 DEF Types

\* The steps of the recoveries leave the purges alone.
LEMMA SettleTypes ==
    ASSUME Types, NEW s \in Seqs, NEW P \in SUBSET Shards, SettleAndClean(s, P)
    PROVE  /\ at[s] \in Epochs
           /\ Max({lng[n][at[s]] : n \in P}) \in {lng[n][at[s]] : n \in P}
           /\ \A n \in P : lng[n][at[s]] =< Max({lng[m][at[s]] : m \in P})
           /\ Max({lng[n][at[s]] : n \in P}) \in 0..2
           /\ Last(UNION {rec[n][at[s]] : n \in P}) \in 0..2
           /\ \A n \in P : rec[n][at[s]] \subseteq
                            1..Last(UNION {rec[m][at[s]] : m \in P})
<1> DEFINE goods == {lng[n][at[s]] : n \in P}
           all == UNION {rec[n][at[s]] : n \in P}
<1>1. at[s] \in Epochs
  BY DEF Types, RecoveryTypes, SettleAndClean
<1>2. PICK n \in P : TRUE
  BY PurgingAssumption DEF SettleAndClean
<1>3. goods \subseteq 0..2 /\ lng[n][at[s]] \in goods
  BY <1>1, <1>2 DEF Types, DiskInv
<1>4. all \subseteq Esns
  BY <1>1 DEF Types, DiskInv
<1>5. \A m \in P : lng[m][at[s]] \in goods /\ rec[m][at[s]] \subseteq all
  OBVIOUS
<1> HIDE DEF goods, all
<1>6. Max(goods) \in goods /\ \A x \in goods : x =< Max(goods)
  BY <1>3, MaxOfSmall
<1>7. Last(all) \in 0..2 /\ all \subseteq 1..Last(all)
  BY <1>4, LastOf
<1>8. /\ Max(goods) \in goods /\ Max(goods) \in 0..2
      /\ \A m \in P : lng[m][at[s]] =< Max(goods)
      /\ \A m \in P : rec[m][at[s]] \subseteq 1..Last(all)
  BY <1>3, <1>5, <1>6, <1>7
<1>9. QED
  BY <1>1, <1>7, <1>8 DEF goods, all

LEMMA RecoveryStepTypes ==
    ASSUME Types, LceInv, NEW s \in Seqs, RecoveryNext(s)
    PROVE  Types' /\ LceInv'
<1> s \in Int /\ 2 =< s /\ s =< MaxEpoch + 1 /\ MaxEpoch \in Nat
  BY PurgingAssumption
<1>1. ASSUME StartRecovery(s) PROVE Types' /\ LceInv'
  <2>1. UNCHANGED <<disk, memory, coordinator, scheduler>>
    BY <1>1 DEF StartRecovery
  <2>2. RecoveryTypes'
    BY <1>1 DEF StartRecovery, Types, RecoveryTypes, Phases, Epochs
  <2>3. QED
    BY <2>1, <2>2 DEF Types, DiskInv, MemoryInv, BufferInv, PurgeInv, LceInv,
                      Active, disk, memory, coordinator, scheduler
<1>2. ASSUME NEW n \in Shards, SealShard(s, n) PROVE Types' /\ LceInv'
  <2>1. UNCHANGED <<rec, lng, erm, lceDisk, lce, err, released, coordinator, scheduler>>
    BY <1>2 DEF SealShard
  <2>2. sealDisk' \in [Shards -> 0..MaxEpoch] /\ seal' \in [Shards -> Int]
    BY <1>2 DEF SealShard, Types, DiskInv, MemoryInv
  <2>3. RecoveryTypes'
    BY <1>2 DEF SealShard, Types, RecoveryTypes
  <2>4. QED
    BY <2>1, <2>2, <2>3 DEF Types, DiskInv, MemoryInv, BufferInv, PurgeInv,
                            LceInv, Active, coordinator, scheduler
<1>3. ASSUME NEW n \in Shards, SendClean(s, n) PROVE Types' /\ LceInv'
  <2> DEFINE m == [type |-> "CLEAN", e |-> at[s], s |-> s]
  <2>1. m \in Msgs
    BY <1>3 DEF SendClean, Types, RecoveryTypes, Msgs, CleanMsgs
  <2>2. /\ UNCHANGED <<disk, memory, pending, cleans, bufRel, purge, replies,
                       scheduler, recovery>>
        /\ inbox' = [inbox EXCEPT ![n] = @ \cup {m}]
        /\ faults' \in Nat
    BY <1>3 DEF SendClean, Receive, Fault, Types, RecoveryTypes
  <2> HIDE DEF m
  <2>3. BufferInv'
    BY <2>1, <2>2 DEF Types, BufferInv
  <2>4. QED
    BY <2>2, <2>3 DEF Types, DiskInv, MemoryInv, PurgeInv, RecoveryTypes, LceInv,
                      Active, disk, memory, scheduler, recovery
<1>4. ASSUME NEW n \in Shards, SendRelease(s, n) PROVE Types' /\ LceInv'
  <2> DEFINE m == [type |-> "RELEASE", e |-> s]
  <2>1. m \in Msgs
    BY DEF Msgs, ReleaseMsgs
  <2>2. /\ UNCHANGED <<disk, memory, pending, cleans, bufRel, purge, replies,
                       scheduler, recovery>>
        /\ inbox' = [inbox EXCEPT ![n] = @ \cup {m}]
        /\ faults' \in Nat
    BY <1>4 DEF SendRelease, Receive, Fault, Types, RecoveryTypes
  <2> HIDE DEF m
  <2>3. BufferInv'
    BY <2>1, <2>2 DEF Types, BufferInv
  <2>4. QED
    BY <2>2, <2>3 DEF Types, DiskInv, MemoryInv, PurgeInv, RecoveryTypes, LceInv,
                      Active, disk, memory, scheduler, recovery
<1>5. ASSUME NEW P \in SUBSET Shards, SettleAndClean(s, P) PROVE Types' /\ LceInv'
  <2> DEFINE e == at[s]
             good == Max({lng[n][e] : n \in P})
             seen == Last(UNION {rec[n][e] : n \in P})
             last == IF settled[e] # -1 THEN settled[e] ELSE Max({good, seen})
  <2>1. e \in Epochs /\ good \in 0..2 /\ seen \in 0..2
    BY <1>5, SettleTypes
  <2>2. /\ settled' = [settled EXCEPT ![e] = last]
        /\ rec' = [n \in Shards |-> IF n \notin P THEN rec[n] ELSE
                    [rec[n] EXCEPT ![e] = (@ \cap 1..good) \cup
                                          ((good + 1)..last)]]
        /\ out' = [out EXCEPT ![s][e] =
                    [seq |-> s, lng |-> good, last |-> last]]
        /\ part' = [part EXCEPT ![s] = P]
        /\ cleaned' = [cleaned EXCEPT ![s] = {}]
        /\ phase' = [phase EXCEPT ![s] = "clean"]
        /\ phase[s] = "recover"
        /\ UNCHANGED <<lng, erm, lceDisk, sealDisk, memory, coordinator,
                       scheduler, at, sealed, glce, faults>>
    BY <1>5 DEF SettleAndClean
  <2>3. last \in 0..2
    <3>1. settled[e] \in (-1)..2
      BY <2>1 DEF Types, RecoveryTypes
    <3> HIDE DEF e, good, seen
    <3>2. good \in Int /\ seen \in Int
      BY <2>1
    <3>3. Max({good, seen}) = IF good >= seen THEN good ELSE seen
      BY <3>2, MaxOfTwo
    <3>4. QED
      BY <2>1, <3>1, <3>3
  <2> HIDE DEF e, good, seen, last
  <2>4. rec' \in [Shards -> [Epochs -> SUBSET Esns]]
    <3>1. \A n \in Shards : rec'[n] \in [Epochs -> SUBSET Esns]
      <4>1. TAKE n \in Shards
      <4>2. rec[n] \in [Epochs -> SUBSET Esns]
        BY DEF Types, DiskInv
      <4>3. (rec[n][e] \cap 1..good) \cup ((good + 1)..last) \subseteq Esns
        BY <2>1, <2>3, <4>2 DEF Esns
      <4>4. QED
        BY <2>1, <2>2, <4>2, <4>3
    <3>2. QED
      BY <2>2, <3>1
  <2>5. out' \in [Seqs -> [Epochs -> Erms]]
    <3>1. [seq |-> s, lng |-> good, last |-> last] \in Erms
      BY <2>1, <2>3 DEF Erms, Esns
    <3>2. QED
      BY <2>1, <2>2, <3>1 DEF Types, RecoveryTypes
  <2>6. RecoveryTypes'
    <3>1. /\ settled' \in [Epochs -> (-1)..2]
          /\ phase' \in [Seqs -> Phases]
          /\ part' \in [Seqs -> SUBSET Shards]
          /\ cleaned' \in [Seqs -> SUBSET Shards]
      BY <2>1, <2>2, <2>3 DEF Types, RecoveryTypes, Phases
    <3>2. \A z \in Seqs : phase'[z] \in {"recover", "clean", "stopped"} =>
            at'[z] \in Epochs /\ at'[z] < z
      BY <2>2 DEF Types, RecoveryTypes
    <3>3. QED
      BY <2>2, <2>5, <3>1, <3>2 DEF Types, RecoveryTypes
  <2>7. QED
    BY <2>2, <2>4, <2>6 DEF Types, DiskInv, MemoryInv, BufferInv, PurgeInv, LceInv,
                      Active, memory, coordinator, scheduler
<1>6. ASSUME AdvanceLCE(s) PROVE Types' /\ LceInv'
  <2>1. UNCHANGED <<disk, memory, coordinator, scheduler>>
    BY <1>6 DEF AdvanceLCE
  <2>2. at[s] \in Epochs /\ at[s] < s /\ at[s] \in Int /\ glce \in Int
    BY <1>6 DEF AdvanceLCE, Types, RecoveryTypes, Epochs
  <2>3. Max({glce, at[s]}) = IF glce >= at[s] THEN glce ELSE at[s]
    BY <2>2, MaxOfTwo
  <2>4. glce' \in 0..MaxEpoch
    BY <1>6, <2>2, <2>3 DEF AdvanceLCE, Types, RecoveryTypes, Epochs
  <2>5. /\ phase' \in [Seqs -> Phases]
        /\ at' \in [Seqs -> 0..(MaxEpoch + 1)]
    BY <1>6, <2>2 DEF AdvanceLCE, Types, RecoveryTypes, Phases, Epochs
  <2>6. \A z \in Seqs : phase'[z] \in {"recover", "clean", "stopped"} =>
            at'[z] \in Epochs /\ at'[z] < z
    BY <1>6, <2>2 DEF AdvanceLCE, Types, RecoveryTypes, Epochs
  <2>7. RecoveryTypes'
    BY <1>6, <2>4, <2>5, <2>6 DEF AdvanceLCE, Types, RecoveryTypes
  <2>8. QED
    BY <2>1, <2>7 DEF Types, DiskInv, MemoryInv, BufferInv, PurgeInv, LceInv,
                      Active, disk, memory, coordinator, scheduler
<1>7. QED
  BY <1>1, <1>2, <1>3, <1>4, <1>5, <1>6 DEF RecoveryNext

LEMMA NewPurgeType ==
    ASSUME Types, NEW n \in Shards, NEW to \in 0..MaxEpoch, NEW new \in 0..MaxEpoch,
           lce[n] < new, to = new \/ to = new - 1, NEW token \in BOOLEAN
    PROVE  /\ PurgeType(NewPurge(n, to, new, token))
           /\ NewPurge(n, to, new, token).st \in {"seal", "lce"}
           /\ NewPurge(n, to, new, token).from = lce[n]
           /\ NewPurge(n, to, new, token).to = to
           /\ NewPurge(n, to, new, token).new = new
           /\ NewPurge(n, to, new, token).token = token
<1> DEFINE p == NewPurge(n, to, new, token)
<1>1. lce[n] \in 0..MaxEpoch /\ MaxEpoch \in Nat
  BY PurgingAssumption DEF Types, MemoryInv
<1>2. /\ p.st = IF lce[n] >= to THEN "lce" ELSE "seal"
      /\ p.from = lce[n] /\ p.to = to /\ p.new = new /\ p.token = token
      /\ IsStart(p)
  BY DEF NewPurge, IsStart
<1> HIDE DEF p
<1>3. p.st # "seal" => Unclean(p) = {}
  BY <1>1, <1>2 DEF Unclean
<1>4. PurgeType(p)
  BY <1>1, <1>2, <1>3 DEF PurgeType, States
<1>5. QED
  BY <1>2, <1>4 DEF p

\* A purge is idle, starting, asking or running.
LEMMA PurgeCases ==
    ASSUME Types, NEW n \in Shards
    PROVE  /\ purge[n].st = "idle" => purge[n] = Idle
           /\ Active(n) =>
                /\ purge[n].st \in States \ {"idle"}
                /\ purge[n].from \in 0..MaxEpoch /\ purge[n].to \in 0..MaxEpoch
                /\ purge[n].new \in 0..MaxEpoch
                /\ purge[n].from < purge[n].new
                /\ purge[n].to = purge[n].new \/ purge[n].to = purge[n].new - 1
                /\ purge[n].token \in BOOLEAN
                /\ Unclean(purge[n]) \subseteq Epochs
           /\ purge[n].st = "seal" => IsStart(purge[n])
           /\ purge[n].st = "erm" => IsAsking(purge[n]) /\ StockType(purge[n])
           /\ purge[n].st = "run" => IsRunning(purge[n]) /\ WorkType(purge[n])
<1>1. PurgeType(purge[n])
  BY DEF Types, PurgeInv
<1>2. Idle.st = "idle"
  BY DEF Idle
<1>3. Active(n) =>
        /\ purge[n].from \in 0..MaxEpoch /\ purge[n].to \in 0..MaxEpoch
        /\ purge[n].new \in 0..MaxEpoch
        /\ purge[n].from < purge[n].new
        /\ purge[n].to = purge[n].new \/ purge[n].to = purge[n].new - 1
        /\ purge[n].token \in BOOLEAN
        /\ purge[n].st \in States \ {"idle"}
  BY <1>1, <1>2 DEF PurgeType, Active
<1>4. Active(n) => Unclean(purge[n]) \subseteq Epochs
  BY <1>3, PurgingAssumption DEF Unclean, Epochs
<1>5. QED
  BY <1>1, <1>2, <1>3, <1>4 DEF PurgeType, Active

\* Steps that neither start, change nor end a purge.
LEMMA QuietStepTypes ==
    ASSUME Types, LceInv, NEW n \in Shards,
           \/ \E m \in inbox[n] : AnswerClean(n, m) \/ DoRelease(n, m) \/ MustPurge(n, m)
           \/ \E r \in replies[n] : WriteCleaned(n, r)
           \/ OtherPurgeStarts(n) \/ OtherPurgeEnds(n)
    PROVE  Types' /\ LceInv'
<1>1. ASSUME NEW m \in inbox[n], AnswerClean(n, m) PROVE Types' /\ LceInv'
  <2>1. m \in CleanMsgs /\ m.e \in Epochs /\ m.s \in Seqs
    BY <1>1 DEF AnswerClean, CleanMsgs
  <2>2. BufferInv'
    BY <1>1, <2>1 DEF AnswerClean, Types, BufferInv
  <2>3. RecoveryTypes'
    BY <1>1, <2>1 DEF AnswerClean, Types, RecoveryTypes, Phases
  <2>4. QED
    BY <1>1, <2>2, <2>3 DEF AnswerClean, Types, DiskInv, MemoryInv, PurgeInv, LceInv,
                            Active, disk, memory, scheduler
<1>2. ASSUME NEW m \in inbox[n], DoRelease(n, m) PROVE Types' /\ LceInv'
  <2>1. m.e \in Seqs /\ m.e \in Int /\ released[n] \in Int
    <3>1. m.e \in Seqs /\ released[n] \in {0} \cup Seqs
      BY <1>2 DEF DoRelease, ReleaseMsgs, Types, MemoryInv
    <3>2. QED
      BY <3>1, SeqsRange
  <2>2. Max({released[n], m.e}) = IF released[n] >= m.e THEN released[n] ELSE m.e
    BY <2>1, MaxOfTwo
  <2>3. MemoryInv' /\ BufferInv'
    BY <1>2, <2>1, <2>2 DEF DoRelease, Types, MemoryInv, BufferInv, scheduler
  <2>4. QED
    BY <1>2, <2>3 DEF DoRelease, Types, DiskInv, PurgeInv, RecoveryTypes, LceInv,
                      Active, disk, recovery
<1>3. ASSUME NEW m \in inbox[n], MustPurge(n, m) PROVE Types' /\ LceInv'
  <2>1. BufferInv'
    BY <1>3 DEF MustPurge, Types, BufferInv
  <2>2. QED
    BY <1>3, <2>1 DEF MustPurge, Types, DiskInv, MemoryInv, PurgeInv, RecoveryTypes,
                      LceInv, Active, disk, memory, scheduler, recovery
<1>4. ASSUME NEW r \in replies[n], WriteCleaned(n, r) PROVE Types' /\ LceInv'
  <2>1. r.e \in Epochs /\ r.s \in Seqs
    BY DEF Types, BufferInv
  <2>2. NoErm \in Erms
    BY DEF NoErm, Erms
  <2>3. erm[n][r.e] \in Erms /\ out[r.s][r.e] \in Erms
    BY <2>1 DEF Types, DiskInv, RecoveryTypes
  <2>4. PICK stored \in Erms : erm' = [erm EXCEPT ![n][r.e] = stored]
    BY <1>4, <2>2, <2>3 DEF WriteCleaned
  <2>5. DiskInv'
    <3>1. erm \in [Shards -> [Epochs -> Erms]]
      BY DEF Types, DiskInv
    <3>2. erm' \in [Shards -> [Epochs -> Erms]]
      BY <2>1, <2>4, <3>1
    <3>3. QED
      BY <1>4, <3>2 DEF WriteCleaned, Types, DiskInv
  <2>6. BufferInv' /\ RecoveryTypes'
    BY <1>4, <2>1 DEF WriteCleaned, Types, BufferInv, RecoveryTypes
  <2>7. QED
    BY <1>4, <2>5, <2>6 DEF WriteCleaned, Types, MemoryInv, PurgeInv, LceInv,
                            Active, memory, scheduler
<1>5. ASSUME OtherPurgeStarts(n) PROVE Types' /\ LceInv'
  BY <1>5 DEF OtherPurgeStarts, Types, DiskInv, MemoryInv, BufferInv, PurgeInv,
              RecoveryTypes, LceInv, Active, disk, memory, coordinator, recovery
<1>6. ASSUME OtherPurgeEnds(n) PROVE Types' /\ LceInv'
  <2>1. BufferInv'
    BY <1>6 DEF OtherPurgeEnds, Types, BufferInv, Msgs
  <2>2. QED
    BY <1>6, <2>1 DEF OtherPurgeEnds, Types, DiskInv, MemoryInv, PurgeInv,
              RecoveryTypes, LceInv, Active, disk, memory, recovery
<1>7. QED
  BY <1>1, <1>2, <1>3, <1>4, <1>5, <1>6

\* Steps under mutex_ that buffer a message, start a purge or end one.
LEMMA ReplayTypes ==
    ASSUME Types, NEW n \in Shards, NEW B \in SUBSET CleanMsgs, NEW b,
           Replay(n, B, b)
    PROVE  /\ inbox' \in [Shards -> SUBSET Msgs]
           /\ cleans' \in [Shards -> SUBSET CleanMsgs]
           /\ bufRel' \in [Shards -> {0} \cup Seqs]
           /\ waiting' \in [Shards -> BOOLEAN]
           /\ PurgeInv'
           /\ purge' = [purge EXCEPT ![n] = Idle]
<1>1. /\ inbox' \in [Shards -> SUBSET Msgs]
      /\ cleans' \in [Shards -> SUBSET CleanMsgs]
      /\ bufRel' \in [Shards -> {0} \cup Seqs]
      /\ waiting' \in [Shards -> BOOLEAN]
      /\ purge' = [purge EXCEPT ![n] = Idle]
  BY DEF Replay, Types, BufferInv, MemoryInv, Msgs
<1>2. PurgeInv'
  BY <1>1 DEF Types, PurgeInv, PurgeType
<1>3. QED
  BY <1>1, <1>2

LEMMA IdleLce ==
    ASSUME Types, LceInv, NEW n \in Shards, purge' = [purge EXCEPT ![n] = Idle],
           UNCHANGED <<lceDisk, lce>>, purge[n].st # "sync"
    PROVE  LceInv'
BY DEF Types, PurgeInv, LceInv, Active, Idle

LEMMA StartLce ==
    ASSUME Types, LceInv, NEW n \in Shards, NEW p, purge' = [purge EXCEPT ![n] = p],
           UNCHANGED <<lceDisk, lce>>, ~Active(n), p.st \in {"seal", "lce"},
           p.from = lce[n]
    PROVE  LceInv'
<1>1. /\ purge'[n] = p
      /\ \A k \in Shards \ {n} : purge'[k] = purge[k]
  BY DEF Types, PurgeInv
<1>2. lceDisk[n] = lce[n]
  BY DEF LceInv, Active
<1>3. QED
  BY <1>1, <1>2 DEF LceInv, Active

LEMMA BufferCleanTypes ==
    ASSUME Types, LceInv, NEW n \in Shards, NEW m \in pending[n], BufferClean(n, m)
    PROVE  Types' /\ LceInv'
<1>1. /\ m \in CleanMsgs /\ m.e \in Epochs /\ cleans[n] \cup {m} \in SUBSET CleanMsgs
  BY DEF BufferClean, Types, BufferInv, CleanMsgs
<1>2. /\ m.e \in 0..MaxEpoch /\ m.e - 1 \in 0..MaxEpoch /\ lce[n] \in 0..MaxEpoch
  BY <1>1, SeqsRange DEF Epochs, Types, MemoryInv
<1>3. CASE Active(n) \/ ~UpToDate(n, m.e)
  <2>1. /\ UNCHANGED <<disk, memory, replies, others, recovery, faults, inbox, bufRel, waiting>>
        /\ pending' = [pending EXCEPT ![n] = @ \ {m}]
        /\ cleans' = [cleans EXCEPT ![n] = cleans[n] \cup {m}]
        /\ purge' = [purge EXCEPT ![n] =
              IF Active(n) THEN purge[n] ELSE NewPurge(n, m.e - 1, m.e, FALSE)]
    BY <1>3 DEF BufferClean
  <2>2. CASE Active(n)
    <3>1. purge' = purge
      BY <2>1, <2>2 DEF Types, PurgeInv
    <3>2. BufferInv' /\ PurgeInv'
      BY <1>1, <2>1, <3>1 DEF Types, BufferInv, PurgeInv
    <3>3. LceInv'
      BY <2>1, <3>1 DEF LceInv, Active, disk, memory
    <3>4. QED
      BY <2>1, <3>2, <3>3 DEF Types, DiskInv, MemoryInv, RecoveryTypes,
                              disk, memory, recovery
  <2>3. CASE ~Active(n)
    <3> DEFINE p == NewPurge(n, m.e - 1, m.e, FALSE)
    <3>1. lce[n] < m.e
      BY <1>2, <1>3, <2>3 DEF UpToDate
    <3>2. /\ PurgeType(p) /\ p.st \in {"seal", "lce"} /\ p.from = lce[n]
      <4>1. PICK to \in 0..MaxEpoch, new \in 0..MaxEpoch : to = m.e - 1 /\ new = m.e
        BY <1>2
      <4>2. lce[n] < new /\ to = new - 1
        BY <3>1, <4>1
      <4>3. PICK token \in BOOLEAN : token = FALSE
        OBVIOUS
      <4>4. LET q == NewPurge(n, to, new, token)
            IN  PurgeType(q) /\ q.st \in {"seal", "lce"} /\ q.from = lce[n]
        BY <4>2, NewPurgeType
      <4>5. QED
        BY <4>1, <4>3, <4>4
    <3> HIDE DEF p
    <3>3. purge' = [purge EXCEPT ![n] = p]
      BY <2>1, <2>3 DEF p
    <3>4. PurgeInv'
      BY <3>2, <3>3 DEF Types, PurgeInv
    <3>5. LceInv'
      BY <2>1, <2>3, <3>2, <3>3, StartLce DEF disk, memory
    <3>6. BufferInv'
      BY <1>1, <2>1 DEF Types, BufferInv
    <3>7. QED
      BY <2>1, <3>4, <3>5, <3>6 DEF Types, DiskInv, MemoryInv, RecoveryTypes,
                                    disk, memory, recovery
  <2>4. QED
    BY <2>2, <2>3
<1>4. CASE ~Active(n) /\ UpToDate(n, m.e)
  <2>1. /\ Replay(n, cleans[n] \cup {m}, bufRel[n])
        /\ UNCHANGED <<disk, memory, replies, others, recovery, faults>>
        /\ pending' = [pending EXCEPT ![n] = @ \ {m}]
    BY <1>4 DEF BufferClean
  <2>2. /\ inbox' \in [Shards -> SUBSET Msgs]
        /\ cleans' \in [Shards -> SUBSET CleanMsgs]
        /\ bufRel' \in [Shards -> {0} \cup Seqs]
        /\ waiting' \in [Shards -> BOOLEAN]
        /\ PurgeInv'
        /\ purge' = [purge EXCEPT ![n] = Idle]
    BY <1>1, <2>1, ReplayTypes
  <2>3. LceInv'
    BY <1>4, <2>1, <2>2, IdleLce DEF Active, disk, memory
  <2>4. pending' \in [Shards -> SUBSET Msgs]
    BY <2>1 DEF Types, BufferInv
  <2>5. QED
    BY <2>1, <2>2, <2>3, <2>4 DEF Types, DiskInv, MemoryInv, BufferInv, RecoveryTypes,
                            disk, memory, recovery
<1>5. QED
  BY <1>3, <1>4

LEMMA BufferReleaseTypes ==
    ASSUME Types, LceInv, NEW n \in Shards, NEW m \in pending[n], BufferRelease(n, m)
    PROVE  Types' /\ LceInv'
<1> DEFINE b == Max({bufRel[n], m.e})
<1>1. /\ m \in ReleaseMsgs /\ m.e \in Seqs /\ bufRel[n] \in {0} \cup Seqs
      /\ m.e \in Int /\ bufRel[n] \in Int
      /\ m.e - 1 \in 0..MaxEpoch /\ lce[n] \in 0..MaxEpoch
  <2>1. m \in ReleaseMsgs /\ m.e \in Seqs /\ bufRel[n] \in {0} \cup Seqs
    BY DEF BufferRelease, Types, BufferInv, ReleaseMsgs
  <2>2. QED
    BY <2>1, SeqsRange DEF Types, MemoryInv
<1>2. b \in {0} \cup Seqs
  <2>1. b = IF bufRel[n] >= m.e THEN bufRel[n] ELSE m.e
    BY <1>1, MaxOfTwo
  <2>2. QED
    BY <1>1, <2>1
<1>3. /\ UNCHANGED <<disk, memory, replies, others, recovery, faults>>
      /\ pending' = [pending EXCEPT ![n] = @ \ {m}]
      /\ pending' \in [Shards -> SUBSET Msgs]
  BY DEF BufferRelease, Types, BufferInv
<1>4. CASE UNCHANGED purge /\ UNCHANGED <<inbox, cleans>> /\
           bufRel' = [bufRel EXCEPT ![n] = b] /\
           (UNCHANGED waiting \/ waiting' = [waiting EXCEPT ![n] = TRUE])
  <2> HIDE DEF b
  <2>1. BufferInv' /\ PurgeInv'
    BY <1>2, <1>3, <1>4 DEF Types, BufferInv, PurgeInv
  <2>2. MemoryInv'
    BY <1>3, <1>4 DEF Types, MemoryInv, memory
  <2>3. LceInv'
    BY <1>3, <1>4 DEF LceInv, Active, disk, memory
  <2>4. QED
    BY <1>3, <2>1, <2>2, <2>3 DEF Types, DiskInv, RecoveryTypes, disk, recovery
<1>5. CASE ~Active(n) /\ ~UpToDate(n, m.e - 1) /\ TokenFree(n)
  <2> DEFINE p == NewPurge(n, m.e - 1, m.e - 1, TRUE)
  <2>1. /\ purge' = [purge EXCEPT ![n] = p]
        /\ UNCHANGED <<inbox, cleans, waiting>>
        /\ bufRel' = [bufRel EXCEPT ![n] = b]
    BY <1>5 DEF BufferRelease
  <2>2. lce[n] < m.e - 1
    BY <1>1, <1>5 DEF UpToDate
  <2>3. /\ PurgeType(p) /\ p.st \in {"seal", "lce"} /\ p.from = lce[n]
    <3>1. PICK to \in 0..MaxEpoch : to = m.e - 1
      BY <1>1
    <3>2. lce[n] < to
      BY <2>2, <3>1
    <3>3. PICK token \in BOOLEAN : token = TRUE
      OBVIOUS
    <3>4. LET q == NewPurge(n, to, to, token)
          IN  PurgeType(q) /\ q.st \in {"seal", "lce"} /\ q.from = lce[n]
      BY <3>2, NewPurgeType
    <3>5. QED
      BY <3>1, <3>3, <3>4
  <2> HIDE DEF p, b
  <2>4. PurgeInv'
    BY <2>1, <2>3 DEF Types, PurgeInv
  <2>5. LceInv'
    BY <1>3, <1>5, <2>1, <2>3, StartLce DEF disk, memory
  <2>6. BufferInv'
    BY <1>2, <1>3, <2>1 DEF Types, BufferInv
  <2>7. QED
    BY <1>3, <2>1, <2>4, <2>5, <2>6 DEF Types, DiskInv, MemoryInv, RecoveryTypes,
                                  disk, memory, recovery
<1>6. CASE ~Active(n) /\ UpToDate(n, m.e - 1) /\ TokenFree(n)
  <2>1. Replay(n, cleans[n], b)
    BY <1>6 DEF BufferRelease
  <2> HIDE DEF b
  <2>2. /\ inbox' \in [Shards -> SUBSET Msgs]
        /\ cleans' \in [Shards -> SUBSET CleanMsgs]
        /\ bufRel' \in [Shards -> {0} \cup Seqs]
        /\ waiting' \in [Shards -> BOOLEAN]
        /\ PurgeInv'
        /\ purge' = [purge EXCEPT ![n] = Idle]
    BY <2>1, ReplayTypes DEF Types, BufferInv
  <2>3. LceInv'
    BY <1>3, <1>6, <2>2, IdleLce DEF Active, disk, memory
  <2>4. QED
    BY <1>3, <2>2, <2>3 DEF Types, DiskInv, MemoryInv, BufferInv, RecoveryTypes,
                            disk, memory, recovery
<1>7. \/ UNCHANGED purge /\ UNCHANGED <<inbox, cleans>> /\
           bufRel' = [bufRel EXCEPT ![n] = b] /\
           (UNCHANGED waiting \/ waiting' = [waiting EXCEPT ![n] = TRUE])
      \/ ~Active(n) /\ ~UpToDate(n, m.e - 1) /\ TokenFree(n)
      \/ ~Active(n) /\ UpToDate(n, m.e - 1) /\ TokenFree(n)
  BY DEF BufferRelease, Types, PurgeInv
<1>8. QED
  BY <1>4, <1>5, <1>6, <1>7

\* The steps of a purge: what becomes of the purge.
Same(p, q) == q.from = p.from /\ q.to = p.to /\ q.new = p.new /\ q.token = p.token

LEMMA PurgeSealEffect ==
    ASSUME Types, NEW n \in Shards, PurgeSeal(n)
    PROVE  \E q : /\ purge' = [purge EXCEPT ![n] = q]
                  /\ PurgeType(q) /\ q.st = "erm" /\ Same(purge[n], q)
                  /\ q.last = [e \in Unclean(purge[n]) |-> Last(rec[n][e])]
                  /\ q.lng = [e \in Unclean(purge[n]) |-> lng[n][e]]
                  /\ q.ans = [e \in Unclean(purge[n]) |-> None]
<1> DEFINE p == purge[n]
           q == [st |-> "erm", from |-> p.from, to |-> p.to, new |-> p.new,
                 token |-> p.token,
                 last |-> [e \in Unclean(p) |-> Last(rec[n][e])],
                 lng |-> [e \in Unclean(p) |-> lng[n][e]],
                 asked |-> {}, ans |-> [e \in Unclean(p) |-> None]]
<1>1. purge' = [purge EXCEPT ![n] = q] /\ p.st = "seal"
  BY DEF PurgeSeal
<1>2. Unclean(q) = Unclean(p)
  BY DEF Unclean
<1>3. /\ p.from \in 0..MaxEpoch /\ p.to \in 0..MaxEpoch /\ p.new \in 0..MaxEpoch
      /\ p.from < p.new /\ (p.to = p.new \/ p.to = p.new - 1) /\ p.token \in BOOLEAN
      /\ Unclean(p) \subseteq Epochs
  BY <1>1, PurgeCases DEF Active
<1>4. StockType(q)
  <2>1. \A e \in Unclean(p) : Last(rec[n][e]) \in 0..2 /\ lng[n][e] \in 0..2
    BY <1>3, LastOf DEF Types, DiskInv
  <2>2. None \in Answers
    BY DEF Answers
  <2>3. QED
    BY <1>2, <2>1, <2>2 DEF StockType
<1>5. IsAsking(q) /\ q.st = "erm" /\ Same(p, q)
  BY DEF IsAsking, Same
<1>6. /\ q.last = [e \in Unclean(p) |-> Last(rec[n][e])]
      /\ q.lng = [e \in Unclean(p) |-> lng[n][e]]
      /\ q.ans = [e \in Unclean(p) |-> None]
  OBVIOUS
<1> HIDE DEF q
<1>7. PurgeType(q)
  BY <1>3, <1>4, <1>5 DEF PurgeType, States, Same
<1>8. QED
  BY <1>1, <1>5, <1>6, <1>7

\* What the purge p of n knows once m has answered.
Heard(p, m) == [e \in Unclean(p) |-> Merge(p.ans[e], AnswerFor(m, e))]

LEMMA AskingUpdate ==
    ASSUME NEW p, IsAsking(p), NEW asked, NEW ans
    PROVE  [p EXCEPT !.asked = asked, !.ans = ans] =
             [st |-> p.st, from |-> p.from, to |-> p.to, new |-> p.new,
              token |-> p.token, last |-> p.last, lng |-> p.lng,
              asked |-> asked, ans |-> ans]
<1> DEFINE q == [st |-> p.st, from |-> p.from, to |-> p.to, new |-> p.new,
                 token |-> p.token, last |-> p.last, lng |-> p.lng,
                 asked |-> asked, ans |-> p.ans]
<1>1. [p EXCEPT !.asked = asked] = q
  BY DEF IsAsking
<1>2. [q EXCEPT !.ans = ans] =
        [st |-> p.st, from |-> p.from, to |-> p.to, new |-> p.new,
         token |-> p.token, last |-> p.last, lng |-> p.lng,
         asked |-> asked, ans |-> ans]
  OBVIOUS
<1>3. [p EXCEPT !.asked = asked, !.ans = ans] =
        [[p EXCEPT !.asked = asked] EXCEPT !.ans = ans]
  OBVIOUS
<1> HIDE DEF q
<1>4. QED
  BY <1>1, <1>2, <1>3

LEMMA AskErmEffect ==
    ASSUME Types, NEW n \in Shards, NEW m \in Shards, AskErm(n, m)
    PROVE  /\ purge[n].st = "erm"
           /\ \E q : /\ purge' = [purge EXCEPT ![n] = q]
                     /\ PurgeType(q) /\ Same(purge[n], q)
                     /\ q.st \in {"erm", "run", "lce"}
                     /\ q.last = purge[n].last /\ q.lng = purge[n].lng
                     /\ q.ans = Heard(purge[n], m)
                     /\ q.st # "erm" =>
                            /\ q.del = ToPurge(purge[n], q.ans) /\ q.write = {}
                            /\ q.st = "lce" <=> q.del = {}
<1> DEFINE p == purge[n]
           ans == Heard(p, m)
           asked == p.asked \cup {m}
           done == asked = Shards \/ \A e \in Unclean(p) : ans[e] # None
           todo == ToPurge(p, ans)
           asking == [p EXCEPT !.asked = asked, !.ans = ans]
           running == [st |-> IF todo = {} THEN "lce" ELSE "run",
                       from |-> p.from, to |-> p.to, new |-> p.new,
                       token |-> p.token, last |-> p.last, lng |-> p.lng,
                       ans |-> ans, del |-> todo, write |-> {}]
<1>1. p.st = "erm" /\ purge' = [purge EXCEPT ![n] = IF ~done THEN asking ELSE running]
  BY DEF AskErm, Heard
<1>2. /\ p.from \in 0..MaxEpoch /\ p.to \in 0..MaxEpoch /\ p.new \in 0..MaxEpoch
      /\ p.from < p.new /\ (p.to = p.new \/ p.to = p.new - 1) /\ p.token \in BOOLEAN
      /\ Unclean(p) \subseteq Epochs
      /\ IsAsking(p) /\ StockType(p)
  BY <1>1, PurgeCases DEF Active
<1>3. ans \in [Unclean(p) -> Answers]
  <2>1. \A e \in Unclean(p) : AnswerFor(m, e) \in Answers
    BY <1>2 DEF AnswerFor, Answers, Types, DiskInv
  <2>2. \A e \in Unclean(p) : p.ans[e] \in Answers
    BY <1>2 DEF StockType
  <2>3. QED
    BY <2>1, <2>2 DEF Heard, Merge
<1>4. CASE ~done
  <2>1. /\ IsAsking(asking) /\ Same(p, asking) /\ asking.st = "erm"
        /\ asking.last = p.last /\ asking.lng = p.lng /\ asking.ans = ans
    <3> HIDE DEF ans, asked
    <3>1. asking = [st |-> p.st, from |-> p.from, to |-> p.to, new |-> p.new,
                    token |-> p.token, last |-> p.last, lng |-> p.lng,
                    asked |-> asked, ans |-> ans]
      BY <1>2, AskingUpdate
    <3>2. QED
      BY <1>1, <3>1 DEF IsAsking, Same
  <2> HIDE DEF asking, ans
  <2>2. StockType(asking)
    BY <1>2, <1>3, <2>1 DEF StockType, Unclean, Same
  <2>3. PurgeType(asking)
    BY <1>2, <2>1, <2>2 DEF PurgeType, States, Same
  <2>4. QED
    BY <1>1, <1>4, <2>1, <2>3 DEF ans
<1>5. CASE done
  <2>1. /\ IsRunning(running) /\ Same(p, running)
        /\ running.st = IF todo = {} THEN "lce" ELSE "run"
        /\ running.last = p.last /\ running.lng = p.lng /\ running.ans = ans
        /\ running.del = todo /\ running.write = {}
    BY DEF IsRunning, Same
  <2>2. todo \subseteq Unclean(p)
    BY DEF ToPurge
  <2> HIDE DEF running, ans, todo
  <2>3. WorkType(running)
    BY <1>2, <1>3, <2>1, <2>2 DEF WorkType, StockType, Unclean, Same
  <2>4. PurgeType(running)
    BY <1>2, <2>1, <2>3 DEF PurgeType, States, Same
  <2>5. QED
    BY <1>1, <1>5, <2>1, <2>4 DEF ans, todo
<1>6. QED
  BY <1>4, <1>5

\* A purge that goes on with the deletions del and the writes wr left.
Goes(p, del, wr) == AfterEpoch([p EXCEPT !.del = del, !.write = wr])

LEMMA RunningUpdate ==
    ASSUME NEW p, IsRunning(p), NEW del, NEW wr
    PROVE  Goes(p, del, wr) =
             [st |-> IF del \cup wr = {} THEN "lce" ELSE "run",
              from |-> p.from, to |-> p.to, new |-> p.new,
              token |-> p.token, last |-> p.last, lng |-> p.lng,
              ans |-> p.ans, del |-> del, write |-> wr]
<1> DEFINE R(a, b, c, d, f, g, h, i, j, k) ==
        [st |-> a, from |-> b, to |-> c, new |-> d, token |-> f, last |-> g,
         lng |-> h, ans |-> i, del |-> j, write |-> k]
<1>1. [p EXCEPT !.del = del] =
        R(p.st, p.from, p.to, p.new, p.token, p.last, p.lng, p.ans, del, p.write)
  BY DEF IsRunning
<1>2. \A a, b, c, d, f, g, h, i : AfterEpoch(R(a, b, c, d, f, g, h, i, del, wr)) =
        R(IF del \cup wr = {} THEN "lce" ELSE "run", b, c, d, f, g, h, i, del, wr)
  BY DEF AfterEpoch
<1>3. [R(p.st, p.from, p.to, p.new, p.token, p.last, p.lng, p.ans, del, p.write)
        EXCEPT !.write = wr] =
      R(p.st, p.from, p.to, p.new, p.token, p.last, p.lng, p.ans, del, wr)
  OBVIOUS
<1>4. [p EXCEPT !.del = del, !.write = wr] =
        R(p.st, p.from, p.to, p.new, p.token, p.last, p.lng, p.ans, del, wr)
  <2>1. [p EXCEPT !.del = del, !.write = wr] =
          [[p EXCEPT !.del = del] EXCEPT !.write = wr]
    OBVIOUS
  <2> HIDE DEF R
  <2>2. QED
    BY <1>1, <1>3, <2>1
<1> HIDE DEF R
<1>5. Goes(p, del, wr) =
        R(IF del \cup wr = {} THEN "lce" ELSE "run", p.from, p.to, p.new, p.token,
          p.last, p.lng, p.ans, del, wr)
  BY <1>2, <1>4 DEF Goes
<1>6. QED
  BY <1>5 DEF R

LEMMA GoesOn ==
    ASSUME NEW p, p # Idle, PurgeType(p), p.st = "run", NEW del, NEW wr,
           del \subseteq Unclean(p), wr \subseteq Unclean(p),
           \A e \in wr : p.ans[e].st = "OK"
    PROVE  LET q == Goes(p, del, wr)
           IN  /\ PurgeType(q) /\ Same(p, q)
               /\ q.st = IF del \cup wr = {} THEN "lce" ELSE "run"
               /\ q.last = p.last /\ q.lng = p.lng /\ q.ans = p.ans
               /\ q.del = del /\ q.write = wr
<1> DEFINE q == Goes(p, del, wr)
           st == IF del \cup wr = {} THEN "lce" ELSE "run"
<1>1. /\ IsRunning(p) /\ WorkType(p)
      /\ p.from \in 0..MaxEpoch /\ p.to \in 0..MaxEpoch /\ p.new \in 0..MaxEpoch
      /\ p.from < p.new /\ (p.to = p.new \/ p.to = p.new - 1) /\ p.token \in BOOLEAN
  BY DEF PurgeType
<1>3. q = [st |-> st, from |-> p.from, to |-> p.to, new |-> p.new,
           token |-> p.token, last |-> p.last, lng |-> p.lng,
           ans |-> p.ans, del |-> del, write |-> wr]
  BY <1>1, RunningUpdate
<1>4. /\ IsRunning(q) /\ Same(p, q) /\ q.st = st
      /\ q.last = p.last /\ q.lng = p.lng /\ q.ans = p.ans
      /\ q.del = del /\ q.write = wr
  BY <1>3 DEF IsRunning, Same
<1> HIDE DEF q
<1>5. WorkType(q)
  BY <1>1, <1>4 DEF WorkType, StockType, Unclean, Same
<1>6. PurgeType(q)
  BY <1>1, <1>4, <1>5 DEF PurgeType, States, Same
<1>7. QED
  BY <1>4, <1>6 DEF q

LEMMA PurgeRecordsEffect ==
    ASSUME Types, NEW n \in Shards, NEW e \in Epochs, PurgeRecords(n, e)
    PROVE  /\ purge[n].st = "run" /\ e \in purge[n].del
           /\ purge[n].del \subseteq Unclean(purge[n])
           /\ \E q : /\ purge' = [purge EXCEPT ![n] = q]
                     /\ PurgeType(q) /\ Same(purge[n], q)
                     /\ q.last = purge[n].last /\ q.lng = purge[n].lng
                     /\ q.ans = purge[n].ans /\ q.del = purge[n].del \ {e}
                     /\ q.write = IF purge[n].ans[e].st = "OK"
                                  THEN purge[n].write \cup {e} ELSE purge[n].write
                     /\ q.st = IF q.del \cup q.write = {} THEN "lce" ELSE "run"
<1> DEFINE p == purge[n]
           wr == IF p.ans[e].st = "OK" THEN p.write \cup {e} ELSE p.write
<1>1. /\ p.st = "run" /\ e \in p.del
      /\ purge' = [purge EXCEPT ![n] =
            AfterEpoch([p EXCEPT !.del = @ \ {e}, !.write =
                    IF p.ans[e].st = "OK" THEN @ \cup {e} ELSE @])]
  BY DEF PurgeRecords
<1>2. /\ p # Idle /\ PurgeType(p) /\ WorkType(p) /\ IsRunning(p)
  BY <1>1, PurgeCases DEF Types, PurgeInv, Idle
<1>3. /\ p.del \subseteq Unclean(p) /\ p.del \ {e} \subseteq Unclean(p)
      /\ wr \subseteq Unclean(p) /\ \A x \in wr : p.ans[x].st = "OK"
  BY <1>1, <1>2 DEF WorkType
<1>4. [p EXCEPT !.del = @ \ {e}, !.write = IF p.ans[e].st = "OK" THEN @ \cup {e} ELSE @]
        = [p EXCEPT !.del = p.del \ {e}, !.write = wr]
  BY <1>2 DEF IsRunning
<1>5. purge' = [purge EXCEPT ![n] = Goes(p, p.del \ {e}, wr)]
  BY <1>1, <1>4 DEF Goes
<1> HIDE DEF wr
<1>6. PICK del : del = p.del \ {e}
  OBVIOUS
<1>7. LET q == Goes(p, del, wr)
      IN  /\ PurgeType(q) /\ Same(p, q)
          /\ q.st = IF del \cup wr = {} THEN "lce" ELSE "run"
          /\ q.last = p.last /\ q.lng = p.lng /\ q.ans = p.ans
          /\ q.del = del /\ q.write = wr
  BY <1>1, <1>2, <1>3, <1>6, GoesOn
<1>8. QED
  BY <1>1, <1>3, <1>5, <1>6, <1>7 DEF wr

LEMMA PurgeWriteErmEffect ==
    ASSUME Types, NEW n \in Shards, NEW e \in Epochs, PurgeWriteErm(n, e)
    PROVE  /\ purge[n].st = "run" /\ e \in purge[n].write
           /\ purge[n].write \subseteq Unclean(purge[n])
           /\ purge[n].ans[e].st = "OK" /\ purge[n].ans[e].erm \in Erms
           /\ \E q : /\ purge' = [purge EXCEPT ![n] = q]
                     /\ PurgeType(q) /\ Same(purge[n], q)
                     /\ q.last = purge[n].last /\ q.lng = purge[n].lng
                     /\ q.ans = purge[n].ans /\ q.del = purge[n].del
                     /\ q.write = purge[n].write \ {e}
                     /\ q.st = IF q.del \cup q.write = {} THEN "lce" ELSE "run"
<1> DEFINE p == purge[n]
<1>1. /\ p.st = "run" /\ e \in p.write
      /\ purge' = [purge EXCEPT ![n] = AfterEpoch([p EXCEPT !.write = @ \ {e}])]
  BY DEF PurgeWriteErm
<1>2. /\ p # Idle /\ PurgeType(p) /\ WorkType(p) /\ IsRunning(p)
  BY <1>1, PurgeCases DEF Types, PurgeInv, Idle
<1>3. /\ p.del \subseteq Unclean(p) /\ p.write \ {e} \subseteq Unclean(p)
      /\ p.write \subseteq Unclean(p)
      /\ \A x \in p.write : p.ans[x].st = "OK"
  BY <1>2 DEF WorkType
<1>4. [p EXCEPT !.write = @ \ {e}] = [p EXCEPT !.del = p.del, !.write = p.write \ {e}]
  BY <1>2 DEF IsRunning
<1>5. purge' = [purge EXCEPT ![n] = Goes(p, p.del, p.write \ {e})]
  BY <1>1, <1>4 DEF Goes
<1>6. p.ans[e].st = "OK" /\ p.ans[e].erm \in Erms
  <2>1. p.ans[e] \in Answers /\ p.ans[e].st = "OK"
    BY <1>1, <1>2, <1>3 DEF WorkType, StockType
  <2>2. QED
    BY <2>1 DEF Answers, None
<1>7. PICK wr : wr = p.write \ {e}
  OBVIOUS
<1>8. LET q == Goes(p, p.del, wr)
      IN  /\ PurgeType(q) /\ Same(p, q)
          /\ q.st = IF p.del \cup wr = {} THEN "lce" ELSE "run"
          /\ q.last = p.last /\ q.lng = p.lng /\ q.ans = p.ans
          /\ q.del = p.del /\ q.write = wr
  BY <1>1, <1>2, <1>3, <1>7, GoesOn
<1>9. QED
  BY <1>1, <1>3, <1>5, <1>6, <1>7, <1>8

LEMMA WriteLastCleanEffect ==
    ASSUME Types, NEW n \in Shards, WriteLastClean(n)
    PROVE  /\ purge[n].st = "lce"
           /\ \E q : /\ purge' = [purge EXCEPT ![n] = q]
                     /\ PurgeType(q) /\ Same(purge[n], q) /\ q.st = "sync"
<1> DEFINE p == purge[n]
           q == [p EXCEPT !.st = "sync"]
<1>1. p.st = "lce" /\ purge' = [purge EXCEPT ![n] = q]
  BY DEF WriteLastClean
<1>2. /\ p.from \in 0..MaxEpoch /\ p.to \in 0..MaxEpoch /\ p.new \in 0..MaxEpoch
      /\ p.from < p.new /\ (p.to = p.new \/ p.to = p.new - 1) /\ p.token \in BOOLEAN
      /\ PurgeType(p) /\ p # Idle
  BY <1>1, PurgeCases DEF Active, Types, PurgeInv, Idle
<1>3. CASE IsStart(p) /\ Unclean(p) = {}
  <2>1. q = [st |-> "sync", from |-> p.from, to |-> p.to, new |-> p.new,
             token |-> p.token]
    BY <1>3 DEF IsStart
  <2>2. IsStart(q) /\ q.st = "sync" /\ Same(p, q)
    BY <2>1 DEF IsStart, Same
  <2> HIDE DEF q
  <2>3. PurgeType(q)
    BY <1>2, <1>3, <2>2 DEF PurgeType, States, Unclean, Same
  <2>4. QED
    BY <1>1, <2>2, <2>3
<1>4. CASE IsRunning(p) /\ WorkType(p)
  <2>1. q = [st |-> "sync", from |-> p.from, to |-> p.to, new |-> p.new,
             token |-> p.token, last |-> p.last, lng |-> p.lng,
             ans |-> p.ans, del |-> p.del, write |-> p.write]
    BY <1>4 DEF IsRunning
  <2>2. /\ IsRunning(q) /\ q.st = "sync" /\ Same(p, q)
        /\ q.last = p.last /\ q.lng = p.lng /\ q.ans = p.ans
        /\ q.del = p.del /\ q.write = p.write
    BY <2>1 DEF IsRunning, Same
  <2> HIDE DEF q
  <2>3. WorkType(q)
    BY <1>1, <1>4, <2>2 DEF WorkType, StockType, Unclean, Same
  <2>4. PurgeType(q)
    BY <1>2, <2>2, <2>3 DEF PurgeType, States, Same
  <2>5. QED
    BY <1>1, <2>2, <2>4
<1>5. QED
  BY <1>1, <1>2, <1>3, <1>4 DEF PurgeType

LEMMA NewPurgeInv ==
    ASSUME Types, NEW n \in Shards, NEW q, PurgeType(q),
           purge' = [purge EXCEPT ![n] = q]
    PROVE  /\ PurgeInv'
           /\ purge'[n] = q /\ \A k \in Shards \ {n} : purge'[k] = purge[k]
BY DEF Types, PurgeInv

LEMMA GoesOnLce ==
    ASSUME Types, LceInv, NEW n \in Shards, NEW q, PurgeType(q),
           purge' = [purge EXCEPT ![n] = q], Active(n), purge[n].st # "sync",
           Same(purge[n], q), q.st \in {"erm", "run", "lce"},
           UNCHANGED <<lceDisk, lce>>
    PROVE  LceInv'
<1>1. purge'[n] = q /\ \A k \in Shards \ {n} : purge'[k] = purge[k]
  BY NewPurgeInv
<1>2. QED
  BY <1>1 DEF LceInv, Active, Same

LEMMA PurgeStepTypes ==
    ASSUME Types, LceInv, NEW n \in Shards,
           \/ PurgeSeal(n)
           \/ \E m \in Shards : AskErm(n, m)
           \/ \E e \in Epochs : PurgeRecords(n, e) \/ PurgeWriteErm(n, e)
           \/ WriteLastClean(n)
    PROVE  Types' /\ LceInv'
<1>1. ASSUME PurgeSeal(n) PROVE Types' /\ LceInv'
  <2>1. PICK q : /\ purge' = [purge EXCEPT ![n] = q]
                 /\ PurgeType(q) /\ q.st = "erm" /\ Same(purge[n], q)
    BY <1>1, PurgeSealEffect
  <2>2. purge[n].st = "seal" /\ purge[n].new \in 0..MaxEpoch /\ sealDisk[n] \in 0..MaxEpoch
    BY <1>1, PurgeCases DEF PurgeSeal, Active, Types, DiskInv
  <2>3. PICK x \in 0..MaxEpoch : /\ sealDisk' = [sealDisk EXCEPT ![n] = x]
                                 /\ seal' = [seal EXCEPT ![n] = x]
    <3>1. purge[n].new \in Int /\ sealDisk[n] \in Int
      BY <2>2
    <3>2. Max({sealDisk[n], purge[n].new}) \in 0..MaxEpoch
      BY <2>2, <3>1, MaxOfTwo
    <3>3. QED
      BY <1>1, <3>2 DEF PurgeSeal
  <2>4. DiskInv' /\ MemoryInv'
    BY <1>1, <2>3 DEF PurgeSeal, Types, DiskInv, MemoryInv, scheduler
  <2>5. PurgeInv'
    BY <2>1, NewPurgeInv
  <2>6. LceInv'
    BY <1>1, <2>1, <2>2, GoesOnLce DEF PurgeSeal, Active
  <2>7. QED
    BY <1>1, <2>4, <2>5, <2>6 DEF PurgeSeal, Types, BufferInv, RecoveryTypes, recovery
<1>2. ASSUME NEW m \in Shards, AskErm(n, m) PROVE Types' /\ LceInv'
  <2>1. PICK q : /\ purge' = [purge EXCEPT ![n] = q] /\ PurgeType(q)
                 /\ q.st \in {"erm", "run", "lce"} /\ Same(purge[n], q)
    BY <1>2, AskErmEffect
  <2>2. PurgeInv'
    BY <2>1, NewPurgeInv
  <2>3. /\ purge[n].st = "erm"
        /\ UNCHANGED <<disk, memory, inbox, pending, cleans, bufRel, replies,
                       scheduler, recovery, faults>>
    BY <1>2 DEF AskErm
  <2>4. LceInv'
    BY <2>1, <2>3, GoesOnLce DEF Active, disk, memory
  <2>5. QED
    BY <2>2, <2>3, <2>4 DEF Types, DiskInv, MemoryInv, BufferInv, RecoveryTypes,
                            disk, memory, scheduler, recovery
<1>3. ASSUME NEW e \in Epochs, PurgeRecords(n, e) PROVE Types' /\ LceInv'
  <2>1. PICK q : /\ purge' = [purge EXCEPT ![n] = q] /\ PurgeType(q)
                 /\ q.st \in {"run", "lce"} /\ Same(purge[n], q)
    BY <1>3, PurgeRecordsEffect
  <2>2. PurgeInv'
    BY <2>1, NewPurgeInv
  <2>3. /\ purge[n].st = "run"
        /\ UNCHANGED <<lng, erm, lceDisk, sealDisk, memory, inbox, pending,
                       cleans, bufRel, replies, scheduler, recovery, faults>>
        /\ rec' = [rec EXCEPT ![n][e] = @ \ ToDelete(purge[n], e)]
    BY <1>3 DEF PurgeRecords
  <2>4. LceInv'
    BY <2>1, <2>3, GoesOnLce DEF Active, memory
  <2>5. DiskInv'
    BY <2>3 DEF Types, DiskInv
  <2>6. QED
    BY <2>2, <2>3, <2>4, <2>5 DEF Types, MemoryInv, BufferInv, RecoveryTypes,
                                  memory, scheduler, recovery
<1>4. ASSUME NEW e \in Epochs, PurgeWriteErm(n, e) PROVE Types' /\ LceInv'
  <2>1. PICK q : /\ purge' = [purge EXCEPT ![n] = q] /\ PurgeType(q)
                 /\ q.st \in {"run", "lce"} /\ Same(purge[n], q)
    BY <1>4, PurgeWriteErmEffect
  <2>2. PurgeInv'
    BY <2>1, NewPurgeInv
  <2>3. /\ purge[n].st = "run"
        /\ UNCHANGED <<rec, lng, lceDisk, sealDisk, memory, inbox, pending,
                       cleans, bufRel, replies, scheduler, recovery, faults>>
        /\ \E new \in Erms : erm' = [erm EXCEPT ![n][e] = new]
    <3>1. purge[n].ans[e].erm \in Erms /\ erm[n][e] \in Erms
      BY <1>4, PurgeWriteErmEffect DEF Types, DiskInv
    <3>2. QED
      BY <1>4, <3>1 DEF PurgeWriteErm
  <2>4. LceInv'
    BY <2>1, <2>3, GoesOnLce DEF Active, memory
  <2>5. DiskInv'
    BY <2>3 DEF Types, DiskInv
  <2>6. QED
    BY <2>2, <2>3, <2>4, <2>5 DEF Types, MemoryInv, BufferInv, RecoveryTypes,
                                  memory, scheduler, recovery
<1>5. ASSUME WriteLastClean(n) PROVE Types' /\ LceInv'
  <2>1. PICK q : /\ purge' = [purge EXCEPT ![n] = q] /\ PurgeType(q)
                 /\ q.st = "sync" /\ Same(purge[n], q)
    BY <1>5, WriteLastCleanEffect
  <2>2. /\ PurgeInv'
        /\ purge'[n] = q /\ \A k \in Shards \ {n} : purge'[k] = purge[k]
    BY <2>1, NewPurgeInv
  <2>3. /\ purge[n].st = "lce" /\ purge[n].new \in 0..MaxEpoch
        /\ UNCHANGED <<rec, lng, erm, sealDisk, memory, inbox, pending, cleans,
                       bufRel, replies, scheduler, recovery, faults>>
        /\ lceDisk' = [lceDisk EXCEPT ![n] = purge[n].new]
    BY <1>5, PurgeCases DEF WriteLastClean, Active
  <2>4. DiskInv'
    BY <2>3 DEF Types, DiskInv
  <2>5. LceInv'
    BY <2>1, <2>2, <2>3 DEF LceInv, Active, Same, memory, Types, DiskInv
  <2>6. QED
    BY <2>2, <2>3, <2>4, <2>5 DEF Types, MemoryInv, BufferInv, RecoveryTypes,
                                  memory, scheduler, recovery
<1>6. QED
  BY <1>1, <1>2, <1>3, <1>4, <1>5

LEMMA PurgeEndTypes ==
    ASSUME Types, LceInv, NEW n \in Shards,
           LastCleanDone(n) \/ TaskFails(n) \/ Crash(n)
    PROVE  Types' /\ LceInv'
<1>1. ASSUME LastCleanDone(n) PROVE Types' /\ LceInv'
  <2>1. /\ purge[n].st = "sync"
        /\ purge[n].new \in 0..MaxEpoch /\ purge[n].new \in Int
        /\ purge[n].from < purge[n].new
        /\ lce[n] \in 0..MaxEpoch /\ lce[n] \in Int
    BY <1>1, PurgeCases DEF LastCleanDone, Active, Types, MemoryInv
  <2>2. Max({lce[n], purge[n].new}) = IF lce[n] >= purge[n].new THEN lce[n] ELSE purge[n].new
    BY <2>1, MaxOfTwo
  <2>3. lce[n] = purge[n].from
    BY <2>1 DEF LceInv, Active
  <2>4. lce' = [lce EXCEPT ![n] = purge[n].new]
    <3>1. Max({lce[n], purge[n].new}) = purge[n].new
      BY <2>1, <2>2, <2>3
    <3>2. lce' = [lce EXCEPT ![n] = Max({lce[n], purge[n].new})]
      BY <1>1 DEF LastCleanDone
    <3>3. QED
      BY <3>1, <3>2
  <2>5. /\ UNCHANGED <<disk, seal, err, released, pending, replies, others,
                       recovery, faults>>
        /\ Replay(n, cleans[n], bufRel[n])
    BY <1>1 DEF LastCleanDone
  <2>6. /\ inbox' \in [Shards -> SUBSET Msgs]
        /\ cleans' \in [Shards -> SUBSET CleanMsgs]
        /\ bufRel' \in [Shards -> {0} \cup Seqs]
        /\ waiting' \in [Shards -> BOOLEAN]
        /\ PurgeInv'
        /\ purge' = [purge EXCEPT ![n] = Idle]
    BY <2>5, ReplayTypes DEF Types, BufferInv
  <2>7. /\ purge'[n] = Idle /\ \A k \in Shards \ {n} : purge'[k] = purge[k]
    BY <2>6 DEF Types, PurgeInv
  <2>8. LceInv'
    <3>1. lce'[n] = purge[n].new /\ \A k \in Shards \ {n} : lce'[k] = lce[k]
      BY <2>4 DEF Types, MemoryInv
    <3>2. lceDisk'[n] = purge[n].new /\ lceDisk' = lceDisk
      BY <2>1, <2>5 DEF LceInv, disk
    <3>3. QED
      BY <2>7, <3>1, <3>2 DEF LceInv, Active, Idle
  <2>9. MemoryInv'
    BY <2>1, <2>4, <2>5, <2>6 DEF Types, MemoryInv
  <2>10. QED
    BY <2>5, <2>6, <2>8, <2>9 DEF Types, DiskInv, BufferInv, RecoveryTypes, disk, recovery
<1>2. ASSUME TaskFails(n) PROVE Types' /\ LceInv'
  <2>1. /\ UNCHANGED <<disk, lce, seal, released, pending, replies, others, recovery>>
        /\ Replay(n, cleans[n], bufRel[n])
        /\ faults' \in Nat
        /\ err' = [err EXCEPT ![n] = TRUE]
        /\ purge[n].st # "sync"
    BY <1>2 DEF TaskFails, Fault, Types, RecoveryTypes
  <2>2. /\ inbox' \in [Shards -> SUBSET Msgs]
        /\ cleans' \in [Shards -> SUBSET CleanMsgs]
        /\ bufRel' \in [Shards -> {0} \cup Seqs]
        /\ waiting' \in [Shards -> BOOLEAN]
        /\ PurgeInv'
        /\ purge' = [purge EXCEPT ![n] = Idle]
    BY <2>1, ReplayTypes DEF Types, BufferInv
  <2>3. LceInv'
    BY <2>1, <2>2, IdleLce DEF disk
  <2>4. MemoryInv'
    BY <2>1, <2>2 DEF Types, MemoryInv
  <2>5. QED
    BY <2>1, <2>2, <2>3, <2>4 DEF Types, DiskInv, BufferInv, RecoveryTypes, disk, recovery
<1>3. ASSUME Crash(n) PROVE Types' /\ LceInv'
  <2>1. PurgeInv' /\ purge'[n] = Idle /\ \A k \in Shards \ {n} : purge'[k] = purge[k]
    BY <1>3 DEF Crash, Types, PurgeInv, PurgeType
  <2>2. MemoryInv'
    <3>1. lceDisk[n] \in 0..MaxEpoch /\ released[n] \in {0} \cup Seqs
      BY DEF Types, DiskInv, MemoryInv
    <3>2. PICK kept \in {0} \cup Seqs : released' = [released EXCEPT ![n] = kept]
      BY <1>3, <3>1 DEF Crash
    <3>3. QED
      BY <1>3, <3>1, <3>2 DEF Crash, Types, MemoryInv
  <2>3. BufferInv' /\ DiskInv'
    BY <1>3 DEF Crash, Types, BufferInv, DiskInv, disk
  <2>4. RecoveryTypes'
    BY <1>3 DEF Crash, Fault, Types, RecoveryTypes, recovery
  <2>5. LceInv'
    <3>1. lce'[n] = lceDisk[n] /\ \A k \in Shards \ {n} : lce'[k] = lce[k]
      BY <1>3 DEF Crash, Types, MemoryInv
    <3>2. QED
      BY <1>3, <2>1, <3>1 DEF Crash, LceInv, Active, Idle, disk
  <2>6. QED
    BY <2>1, <2>2, <2>3, <2>4, <2>5 DEF Types
<1>4. QED
  BY <1>1, <1>2, <1>3

LEMMA StepTypes ==
    ASSUME Types, LceInv, [Next]_vars
    PROVE  Types' /\ LceInv'
<1>1. CASE UNCHANGED vars
  BY <1>1 DEF Types, DiskInv, MemoryInv, BufferInv, PurgeInv, RecoveryTypes, LceInv,
              Active, vars, disk, memory, coordinator, scheduler, recovery
<1>2. ASSUME NEW n \in Shards, ShardNext(n) PROVE Types' /\ LceInv'
  BY <1>2, QuietStepTypes, BufferCleanTypes, BufferReleaseTypes, PurgeStepTypes,
     PurgeEndTypes DEF ShardNext
<1>3. QED
  BY <1>1, <1>2, RecoveryStepTypes DEF Next

LEMMA TypesImply == Types => TypeOK
<1> SUFFICES ASSUME Types PROVE TypeOK
  OBVIOUS
<1>1. \A n \in Shards :
        /\ purge[n].st \in States
        /\ Active(n) => purge[n].from < purge[n].new /\ purge[n].to =< purge[n].new
  <2>1. TAKE n \in Shards
  <2>2. CASE Active(n)
    BY <2>2, PurgeCases, SeqsRange
  <2>3. CASE ~Active(n)
    BY <2>3 DEF Active, States
  <2>4. QED
    BY <2>2, <2>3
<1>2. 0..2 = {0} \cup Esns
  BY DEF Esns
<1>3. QED
  BY <1>1, <1>2 DEF TypeOK, Types, DiskInv, MemoryInv, BufferInv

LEMMA TypesInvariant == Spec => [](Types /\ LceInv)
<1>1. Types /\ LceInv /\ [Next]_vars => Types' /\ LceInv'
  BY StepTypes
<1>2. QED
  BY <1>1, InitTypes, PTL DEF Spec

\* Every variable keeps its type, and a purge under way moves the last clean
\* epoch of its shard forward: PurgeCoordinator starts one only for an epoch
\* beyond the last clean one, which nothing else advances meanwhile.
THEOREM PurgesAdvance == Spec => []TypeOK
BY TypesInvariant, TypesImply, PTL

-----------------------------------------------------------------------------
(* Buffered messages.                                                      *)

LEMMA ReplayStranded ==
    ASSUME Types, NEW n \in Shards, NEW B \in SUBSET CleanMsgs, NEW b, Replay(n, B, b),
           UNCHANGED others, NeverStranded
    PROVE  NeverStranded'
<1>1. /\ cleans'[n] = {} /\ bufRel'[n] = 0
      /\ \A k \in Shards \ {n} : /\ cleans'[k] = cleans[k] /\ bufRel'[k] = bufRel[k]
                                 /\ waiting'[k] = waiting[k] /\ purge'[k] = purge[k]
  BY DEF Replay, Types, BufferInv, MemoryInv, PurgeInv
<1>2. QED
  BY <1>1 DEF NeverStranded, Active

LEMMA StrandedStep ==
    ASSUME Types, NeverStranded, [Next]_vars
    PROVE  NeverStranded'
<1>1. CASE UNCHANGED <<cleans, bufRel, waiting, others, purge>>
  BY <1>1 DEF NeverStranded, Active
<1>2. ASSUME NEW n \in Shards, NEW m \in pending[n], BufferClean(n, m)
      PROVE  NeverStranded'
  <2>1. CASE Active(n) \/ ~UpToDate(n, m.e)
    <3>1. /\ UNCHANGED <<bufRel, waiting, others>>
          /\ \A k \in Shards \ {n} : cleans'[k] = cleans[k] /\ purge'[k] = purge[k]
          /\ purge'[n] = IF Active(n) THEN purge[n] ELSE NewPurge(n, m.e - 1, m.e, FALSE)
      BY <1>2, <2>1 DEF BufferClean, Types, BufferInv, PurgeInv
    <3>2. purge'[n].st # "idle"
      BY <3>1 DEF Active, NewPurge
    <3>3. QED
      BY <3>1, <3>2 DEF NeverStranded, Active
  <2>2. CASE ~Active(n) /\ UpToDate(n, m.e)
    <3>1. /\ Replay(n, cleans[n] \cup {m}, bufRel[n]) /\ UNCHANGED others
          /\ cleans[n] \cup {m} \in SUBSET CleanMsgs
      BY <1>2, <2>2 DEF BufferClean, Types, BufferInv
    <3>2. QED
      BY <3>1, ReplayStranded
  <2>3. QED
    BY <2>1, <2>2
<1>3. ASSUME NEW n \in Shards, NEW m \in pending[n], BufferRelease(n, m)
      PROVE  NeverStranded'
  <2>1. CASE ~TokenFree(n)
    <3>1. /\ UNCHANGED <<cleans, purge, others>> /\ waiting'[n] = TRUE
          /\ \A k \in Shards \ {n} : bufRel'[k] = bufRel[k] /\ waiting'[k] = waiting[k]
      BY <1>3, <2>1 DEF BufferRelease, Types, BufferInv, MemoryInv
    <3>2. Active(n) \/ others[n]
      BY <2>1 DEF TokenFree
    <3>3. QED
      BY <3>1, <3>2 DEF NeverStranded, Active
  <2>2. CASE TokenFree(n) /\ (Active(n) \/ ~UpToDate(n, m.e - 1))
    <3>1. /\ UNCHANGED <<cleans, waiting, others>>
          /\ \A k \in Shards \ {n} : bufRel'[k] = bufRel[k] /\ purge'[k] = purge[k]
          /\ purge'[n] = IF Active(n) THEN purge[n]
                         ELSE NewPurge(n, m.e - 1, m.e - 1, TRUE)
      BY <1>3, <2>2 DEF BufferRelease, Types, BufferInv, PurgeInv
    <3>2. purge'[n].st # "idle"
      BY <3>1 DEF Active, NewPurge
    <3>3. QED
      BY <3>1, <3>2 DEF NeverStranded, Active
  <2>3. CASE TokenFree(n) /\ ~Active(n) /\ UpToDate(n, m.e - 1)
    <3>1. /\ Replay(n, cleans[n], Max({bufRel[n], m.e})) /\ UNCHANGED others
          /\ cleans[n] \in SUBSET CleanMsgs
      BY <1>3, <2>3 DEF BufferRelease, Types, BufferInv
    <3>2. QED
      BY <3>1, ReplayStranded
  <2>4. QED
    BY <2>1, <2>2, <2>3
<1>4. ASSUME NEW n \in Shards, OtherPurgeStarts(n) PROVE NeverStranded'
  BY <1>4 DEF OtherPurgeStarts, NeverStranded, Active, Types, MemoryInv, coordinator
<1>5. ASSUME NEW n \in Shards, OtherPurgeEnds(n) PROVE NeverStranded'
  <2>1. /\ UNCHANGED purge
        /\ \A k \in Shards \ {n} : /\ waiting'[k] = waiting[k] /\ others'[k] = others[k]
                                   /\ cleans'[k] = cleans[k] /\ bufRel'[k] = bufRel[k]
        /\ Active(n) \/ (cleans'[n] = {} /\ bufRel'[n] = 0)
           \/ (~waiting[n] /\ cleans'[n] = cleans[n] /\ bufRel'[n] = bufRel[n])
    BY <1>5 DEF OtherPurgeEnds, Types, MemoryInv, BufferInv
  <2>2. QED
    BY <2>1 DEF NeverStranded, Active
<1>6. ASSUME NEW n \in Shards, NEW q, purge' = [purge EXCEPT ![n] = q],
             PurgeType(q), q.st # "idle", UNCHANGED <<cleans, bufRel, waiting, others>>
      PROVE  NeverStranded'
  <2>1. purge'[n] = q /\ \A k \in Shards \ {n} : purge'[k] = purge[k]
    BY <1>6, NewPurgeInv
  <2>2. QED
    BY <1>6, <2>1 DEF NeverStranded, Active
<1>7. ASSUME NEW n \in Shards, PurgeSeal(n) PROVE NeverStranded'
  BY <1>6, <1>7, PurgeSealEffect DEF PurgeSeal, scheduler
<1>8. ASSUME NEW n \in Shards, NEW m \in Shards, AskErm(n, m) PROVE NeverStranded'
  <2>1. \E q : purge' = [purge EXCEPT ![n] = q] /\ PurgeType(q) /\ q.st # "idle"
    BY <1>8, AskErmEffect
  <2>2. QED
    BY <1>6, <1>8, <2>1 DEF AskErm, scheduler
<1>9. ASSUME NEW n \in Shards, NEW e \in Epochs, PurgeRecords(n, e) PROVE NeverStranded'
  <2>1. \E q : purge' = [purge EXCEPT ![n] = q] /\ PurgeType(q) /\ q.st # "idle"
    BY <1>9, PurgeRecordsEffect
  <2>2. QED
    BY <1>6, <1>9, <2>1 DEF PurgeRecords, scheduler
<1>10. ASSUME NEW n \in Shards, NEW e \in Epochs, PurgeWriteErm(n, e) PROVE NeverStranded'
  <2>1. \E q : purge' = [purge EXCEPT ![n] = q] /\ PurgeType(q) /\ q.st # "idle"
    BY <1>10, PurgeWriteErmEffect
  <2>2. QED
    BY <1>6, <1>10, <2>1 DEF PurgeWriteErm, scheduler
<1>11. ASSUME NEW n \in Shards, WriteLastClean(n) PROVE NeverStranded'
  BY <1>6, <1>11, WriteLastCleanEffect DEF WriteLastClean, scheduler
<1>12. ASSUME NEW n \in Shards, LastCleanDone(n) \/ TaskFails(n) PROVE NeverStranded'
  <2>1. cleans[n] \in SUBSET CleanMsgs
    BY DEF Types, BufferInv
  <2>2. QED
    BY <1>12, <2>1, ReplayStranded DEF LastCleanDone, TaskFails
<1>13. ASSUME NEW n \in Shards, Crash(n) PROVE NeverStranded'
  <2>1. /\ cleans'[n] = {} /\ bufRel'[n] = 0
        /\ \A k \in Shards \ {n} : /\ waiting'[k] = waiting[k] /\ others'[k] = others[k]
                                   /\ cleans'[k] = cleans[k] /\ bufRel'[k] = bufRel[k]
                                   /\ purge'[k] = purge[k]
    BY <1>13 DEF Crash, Types, MemoryInv, BufferInv, PurgeInv
  <2>2. QED
    BY <2>1 DEF NeverStranded, Active
<1>14. ASSUME NEW n \in Shards,
              \/ \E m \in inbox[n] : AnswerClean(n, m) \/ DoRelease(n, m) \/ MustPurge(n, m)
              \/ \E r \in replies[n] : WriteCleaned(n, r)
       PROVE  NeverStranded'
  BY <1>1, <1>14 DEF AnswerClean, DoRelease, MustPurge, WriteCleaned, scheduler
<1>15. ASSUME NEW s \in Seqs, RecoveryNext(s) PROVE NeverStranded'
  BY <1>1, <1>15 DEF RecoveryNext, StartRecovery, SealShard, SendClean, SendRelease,
        Receive, SettleAndClean, AdvanceLCE, coordinator, scheduler
<1>16. ASSUME NEW n \in Shards, ShardNext(n) PROVE NeverStranded'
  BY <1>2, <1>3, <1>4, <1>5, <1>7, <1>8, <1>9, <1>10, <1>11, <1>12, <1>13, <1>14, <1>16
     DEF ShardNext
<1>17. CASE UNCHANGED vars
  BY <1>1, <1>17 DEF vars, coordinator, scheduler
<1>18. QED
  BY <1>15, <1>16, <1>17 DEF Next

\* A CLEAN or RELEASE that PurgeCoordinator has buffered is never left behind:
\* a purge of the log runs and will replay it, or the log waits in the
\* PurgeScheduler's queue for the purge of another log to end.
THEOREM BuffersAreReplayed == Spec => []NeverStranded
<1>1. Init => NeverStranded
  BY DEF Init, NeverStranded
<1>2. Types /\ NeverStranded /\ [Next]_vars => NeverStranded'
  BY StrandedStep
<1>3. QED
  BY <1>1, <1>2, TypesInvariant, PTL DEF Spec

-----------------------------------------------------------------------------
(* One recovery.  The sequencer s is the only one that recovers the log,   *)
(* as long as no later one is activated.                                   *)

\* Shard n keeps what epoch e holds: e is clean there, or its recovery has
\* made n a participant and not ended yet.
Keeper(n, e, s) == lceDisk[n] >= e \/ (e = glce + 1 /\ n \in part[s])

\* Epochs are settled one after the other; those before the one that is
\* being recovered are clean in the epoch store.
ProgressInv(s) ==
    /\ phase[s] = "idle" => glce = 0
    /\ phase[s] # "idle" => glce = at[s] - 1
    /\ glce < s
    /\ phase[s] = "done" => glce = s - 1
    /\ \A e \in Epochs : settled[e] # -1 <=>
          (e =< glce \/ (e = at[s] /\ phase[s] \in {"clean", "stopped"}))

\* The metadata that the CLEANs carry, and with it all metadata on disk, is
\* what was settled.
OutInv(s) ==
    \A e \in Epochs : settled[e] # -1 =>
        /\ out[s][e].seq = s
        /\ out[s][e].last = settled[e]
        /\ out[s][e].lng =< settled[e]

ErmInv(s) ==
    \A n \in Shards, e \in Epochs : erm[n][e] # NoErm =>
        settled[e] > 0 /\ erm[n][e] = out[s][e]

\* A participant that has answered has the epoch clean and its metadata.
CleanedInv(s) ==
    phase[s] = "clean" =>
        /\ FMajority(part[s])
        /\ \A n \in cleaned[s] :
            /\ lceDisk[n] >= at[s]
            /\ settled[at[s]] > 0 => erm[n][at[s]] # NoErm

\* A CLEAN reaches participants only, a RELEASE comes when all is recovered.
Expected(m, n, s) ==
    IF m.type = "CLEAN" THEN settled[m.e] # -1 /\ Keeper(n, m.e, s)
    ELSE glce = s - 1

MsgInv(n, s) ==
    /\ \A m \in inbox[n] \cup pending[n] \cup cleans[n] : Expected(m, n, s)
    /\ bufRel[n] # 0 => glce = s - 1
    /\ \A r \in replies[n] : settled[r.e] # -1 /\ lceDisk[n] >= r.e

\* Epochs that are clean on a shard are settled.
SettledInv(n) == \A e \in Epochs : e =< lceDisk[n] => settled[e] # -1

\* A purge deletes nothing of an epoch that is being recovered.
TargetInv(n, s) ==
    Active(n) => /\ purge[n].to =< glce
                 /\ \/ purge[n].to = purge[n].new
                    \/ settled[purge[n].new] # -1 /\ Keeper(n, purge[n].new, s)

\* The metadata that a purge has heard of is what was settled.
AnswerInv(n, s) ==
    purge[n].st \in {"erm", "run"} => \A e \in Unclean(purge[n]) :
        purge[n].ans[e].st = "OK" =>
            settled[e] > 0 /\ purge[n].ans[e].erm = out[s][e]

WorkInv(n, s) ==
    /\ SettledInv(n) /\ TargetInv(n, s) /\ AnswerInv(n, s)
    /\ sealDisk[n] < s
    /\ released[n] # 0 => glce = s - 1 /\ released[n] =< lceDisk[n] + 1

ShardInv(s) == \A n \in Shards : MsgInv(n, s) /\ WorkInv(n, s)

OneInv(s) ==
    /\ ProgressInv(s) /\ OutInv(s) /\ ErmInv(s) /\ CleanedInv(s)
    /\ GlobalCleanHasErm /\ ShardInv(s)

\* What no step takes back.
Forward(s) ==
    /\ glce' >= glce
    /\ \A n \in Shards : lceDisk'[n] >= lceDisk[n]
    /\ \A e \in Epochs : settled[e] # -1 =>
            settled'[e] = settled[e] /\ out'[s][e] = out[s][e]
    /\ \A n \in Shards, e \in Epochs :
            settled[e] # -1 /\ Keeper(n, e, s) => Keeper(n, e, s)'
    /\ \A n \in Shards, e \in Epochs : erm[n][e] # NoErm => erm'[n][e] = erm[n][e]

\* What the metadata of epoch r.e becomes when a CLEAN is answered.
LEMMA WriteCleanedErm ==
    ASSUME Types, NEW s \in Seqs, Seqs = {s}, OneInv(s), NEW n \in Shards,
           NEW r \in replies[n], WriteCleaned(n, r)
    PROVE  /\ r.s = s /\ r.e \in Epochs /\ settled[r.e] # -1 /\ lceDisk[n] >= r.e
           /\ erm'[n][r.e] = IF settled[r.e] > 0 THEN out[s][r.e] ELSE NoErm
           /\ \A k \in Shards, f \in Epochs :
                 k # n \/ f # r.e => erm'[k][f] = erm[k][f]
           /\ erm[n][r.e] # NoErm => erm[n][r.e] = out[s][r.e] /\ settled[r.e] > 0
<1>1. r.e \in Epochs /\ r.s = s
  BY DEF Types, BufferInv
<1>2. settled[r.e] # -1 /\ lceDisk[n] >= r.e
  BY DEF OneInv, ShardInv, MsgInv
<1>3. /\ out[s][r.e].seq = s /\ out[s][r.e].last = settled[r.e]
      /\ settled[r.e] \in (-1)..2
  BY <1>1, <1>2 DEF OneInv, OutInv, Types, RecoveryTypes
<1>4. sealDisk[n] < s /\ sealDisk[n] \in Int /\ s \in Int /\ 2 =< s
  BY SeqsRange DEF OneInv, ShardInv, WorkInv, Types, DiskInv
<1>5. erm[n][r.e] # NoErm => erm[n][r.e] = out[s][r.e] /\ settled[r.e] > 0
  BY <1>1 DEF OneInv, ErmInv
<1> DEFINE new == out[s][r.e]
           old == erm[n][r.e]
           stored == IF ~(new.seq > old.seq) \/ (old = NoErm /\ sealDisk[n] >= s) THEN old
                     ELSE IF new.last = 0 THEN NoErm ELSE new
<1>6. erm' = [erm EXCEPT ![n][r.e] = stored]
  BY <1>1 DEF WriteCleaned
<1>7. stored = IF settled[r.e] > 0 THEN new ELSE NoErm
  <2>1. CASE old = NoErm
    BY <1>2, <1>3, <1>4, <2>1 DEF NoErm
  <2>2. CASE old # NoErm
    BY <1>3, <1>4, <1>5, <2>2
  <2>3. QED
    BY <2>1, <2>2
<1> HIDE DEF stored
<1>8. /\ erm'[n][r.e] = stored
      /\ \A k \in Shards, f \in Epochs : k # n \/ f # r.e => erm'[k][f] = erm[k][f]
  <2>1. PICK x : x = r.e
    OBVIOUS
  <2>2. erm \in [Shards -> [Epochs -> Erms]] /\ x \in Epochs
    BY <1>1, <2>1 DEF Types, DiskInv
  <2>3. erm' = [erm EXCEPT ![n][x] = stored]
    BY <1>6, <2>1
  <2>4. QED
    BY <2>1, <2>2, <2>3
<1>9. QED
  BY <1>1, <1>2, <1>5, <1>7, <1>8

\* And when a purge writes it.
LEMMA PurgeWriteErmErm ==
    ASSUME Types, NEW s \in Seqs, Seqs = {s}, OneInv(s), NEW n \in Shards,
           NEW e \in Epochs, PurgeWriteErm(n, e)
    PROVE  /\ settled[e] > 0
           /\ erm'[n][e] = out[s][e]
           /\ \A k \in Shards, f \in Epochs : k # n \/ f # e => erm'[k][f] = erm[k][f]
           /\ erm[n][e] # NoErm => erm[n][e] = out[s][e]
<1>1. /\ purge[n].st = "run" /\ e \in Unclean(purge[n]) /\ purge[n].ans[e].st = "OK"
  BY PurgeWriteErmEffect
<1>2. settled[e] > 0 /\ purge[n].ans[e].erm = out[s][e]
  BY <1>1 DEF OneInv, ShardInv, WorkInv, AnswerInv
<1>3. erm[n][e] # NoErm => erm[n][e] = out[s][e]
  BY DEF OneInv, ErmInv
<1>4. out[s][e].seq = s /\ s \in Int /\ 2 =< s
  BY <1>2, SeqsRange DEF OneInv, OutInv, Types, RecoveryTypes
<1>5. (IF out[s][e].seq > erm[n][e].seq THEN out[s][e] ELSE erm[n][e]) = out[s][e]
  BY <1>3, <1>4 DEF NoErm
<1>6. erm' = [erm EXCEPT ![n][e] = out[s][e]]
  BY <1>2, <1>5 DEF PurgeWriteErm
<1>7. PICK new : new = out[s][e]
  OBVIOUS
<1>8. /\ erm'[n][e] = new
      /\ \A k \in Shards, f \in Epochs : k # n \/ f # e => erm'[k][f] = erm[k][f]
  <2>1. erm \in [Shards -> [Epochs -> Erms]]
    BY DEF Types, DiskInv
  <2>2. erm' = [erm EXCEPT ![n][e] = new]
    BY <1>6, <1>7
  <2>3. QED
    BY <2>1, <2>2
<1>9. QED
  BY <1>2, <1>3, <1>7, <1>8

LEMMA ForwardStep ==
    ASSUME Types, LceInv, NEW s \in Seqs, Seqs = {s}, OneInv(s), [Next]_vars
    PROVE  Forward(s)
<1> USE DEF Keeper
<1>0. /\ glce \in Int /\ \A n \in Shards : lceDisk[n] \in Int
      /\ \A e \in Epochs : e \in Int
  BY DEF Types, RecoveryTypes, DiskInv, Epochs
<1>1. CASE UNCHANGED <<glce, part, lceDisk, settled, out, erm>>
  BY <1>0, <1>1 DEF Forward
<1>2. ASSUME NEW n \in Shards, NEW r \in replies[n], WriteCleaned(n, r) PROVE Forward(s)
  <2>1. UNCHANGED <<glce, part, lceDisk, settled, out>>
    BY <1>2 DEF WriteCleaned
  <2>2. \A k \in Shards, e \in Epochs : erm[k][e] # NoErm => erm'[k][e] = erm[k][e]
    BY <1>2, WriteCleanedErm
  <2>3. QED
    BY <1>0, <2>1, <2>2 DEF Forward
<1>3. ASSUME NEW n \in Shards, NEW e \in Epochs, PurgeWriteErm(n, e) PROVE Forward(s)
  <2>1. UNCHANGED <<glce, part, lceDisk, settled, out>>
    BY <1>3 DEF PurgeWriteErm, recovery
  <2>2. \A k \in Shards, f \in Epochs : erm[k][f] # NoErm => erm'[k][f] = erm[k][f]
    BY <1>3, PurgeWriteErmErm
  <2>3. QED
    BY <1>0, <2>1, <2>2 DEF Forward
<1>4. ASSUME NEW n \in Shards, WriteLastClean(n) PROVE Forward(s)
  <2>1. /\ UNCHANGED <<glce, part, settled, out, erm>> /\ purge[n].st = "lce"
        /\ lceDisk' = [lceDisk EXCEPT ![n] = purge[n].new]
    BY <1>4 DEF WriteLastClean, recovery
  <2>2. /\ lceDisk[n] = purge[n].from /\ purge[n].from < purge[n].new
        /\ purge[n].new \in Int
    BY <2>1, PurgeCases DEF LceInv, Active
  <2>3. \A k \in Shards : lceDisk'[k] >= lceDisk[k] /\ lceDisk'[k] \in Int
    BY <1>0, <2>1, <2>2 DEF Types, DiskInv
  <2>4. QED
    BY <1>0, <2>1, <2>3 DEF Forward
<1>5. ASSUME NEW P \in SUBSET Shards, SettleAndClean(s, P) PROVE Forward(s)
  <2>1. /\ UNCHANGED <<glce, lceDisk, erm>> /\ phase[s] = "recover"
        /\ \E last : settled' = [settled EXCEPT ![at[s]] = last]
        /\ \E o : out' = [out EXCEPT ![s][at[s]] = o]
    BY <1>5 DEF SettleAndClean
  <2>2. at[s] \in Epochs /\ at[s] = glce + 1 /\ settled[at[s]] = -1
    BY <1>0, <2>1 DEF Types, RecoveryTypes, OneInv, ProgressInv
  <2>3. \A e \in Epochs : settled[e] # -1 =>
            e # at[s] /\ settled'[e] = settled[e] /\ out'[s][e] = out[s][e]
    BY <2>1, <2>2 DEF Types, RecoveryTypes
  <2>4. QED
    BY <1>0, <2>1, <2>2, <2>3 DEF Forward
<1>6. ASSUME AdvanceLCE(s) PROVE Forward(s)
  <2>1. /\ UNCHANGED <<lceDisk, erm, settled, out, part>> /\ phase[s] = "clean"
        /\ part[s] \subseteq cleaned[s]
        /\ glce' = Max({glce, at[s]})
    BY <1>6 DEF AdvanceLCE, disk
  <2>2. at[s] \in Int /\ at[s] = glce + 1
    BY <1>0, <2>1 DEF Types, RecoveryTypes, OneInv, ProgressInv, Epochs
  <2>3. glce' = at[s]
    BY <1>0, <2>1, <2>2, MaxOfTwo
  <2>4. \A n \in part[s] : lceDisk[n] >= at[s]
    BY <2>1 DEF OneInv, CleanedInv
  <2>5. \A n \in Shards, e \in Epochs : Keeper(n, e, s) => Keeper(n, e, s)'
    BY <1>0, <2>1, <2>2, <2>3, <2>4
  <2>6. QED
    BY <1>0, <2>1, <2>2, <2>3, <2>5 DEF Forward
<1>7. ASSUME NEW n \in Shards, ShardNext(n) PROVE Forward(s)
  <2>1. ASSUME NEW m \in inbox[n], AnswerClean(n, m) \/ DoRelease(n, m) \/ MustPurge(n, m)
        PROVE  Forward(s)
    BY <1>1, <2>1 DEF AnswerClean, DoRelease, MustPurge, disk, recovery
  <2>2. ASSUME NEW m \in pending[n], BufferClean(n, m) \/ BufferRelease(n, m)
        PROVE  Forward(s)
    BY <1>1, <2>2 DEF BufferClean, BufferRelease, disk, recovery
  <2>3. ASSUME OtherPurgeStarts(n) \/ OtherPurgeEnds(n) \/ PurgeSeal(n) PROVE Forward(s)
    BY <1>1, <2>3 DEF OtherPurgeStarts, OtherPurgeEnds, PurgeSeal, disk, recovery
  <2>4. ASSUME NEW m \in Shards, AskErm(n, m) PROVE Forward(s)
    BY <1>1, <2>4 DEF AskErm, disk, recovery
  <2>5. ASSUME NEW e \in Epochs, PurgeRecords(n, e) PROVE Forward(s)
    BY <1>1, <2>5 DEF PurgeRecords, recovery
  <2>6. ASSUME LastCleanDone(n) \/ TaskFails(n) \/ Crash(n) PROVE Forward(s)
    BY <1>1, <2>6 DEF LastCleanDone, TaskFails, Crash, disk, recovery
  <2>7. QED
    BY <1>2, <1>3, <1>4, <1>7, <2>1, <2>2, <2>3, <2>4, <2>5, <2>6 DEF ShardNext
<1>8. ASSUME StartRecovery(s) PROVE Forward(s)
  BY <1>1, <1>8 DEF StartRecovery, disk
<1>9. ASSUME NEW n \in Shards, SealShard(s, n) \/ SendClean(s, n) \/ SendRelease(s, n)
      PROVE  Forward(s)
  BY <1>1, <1>9 DEF SealShard, SendClean, SendRelease, Receive, disk, recovery
<1>10. ASSUME RecoveryNext(s) PROVE Forward(s)
  BY <1>5, <1>6, <1>8, <1>9, <1>10 DEF RecoveryNext
<1>11. CASE UNCHANGED vars
  BY <1>1, <1>11 DEF vars, disk, recovery
<1>12. QED
  BY <1>7, <1>10, <1>11 DEF Next

LEMMA KeepsRegistered ==
    ASSUME NEW s \in Seqs, GlobalCleanHasErm, Forward(s), UNCHANGED <<glce, settled>>
    PROVE  GlobalCleanHasErm'
<1>1. SUFFICES ASSUME NEW e \in Epochs, e =< glce, settled[e] > 0, NEW c \in CopySets
               PROVE  c \cap {n \in Shards : erm'[n][e] # NoErm} # {}
  BY DEF GlobalCleanHasErm, FMajority
<1>2. c \cap {n \in Shards : erm[n][e] # NoErm} # {}
  BY <1>1 DEF GlobalCleanHasErm, FMajority
<1>3. QED
  BY <1>2 DEF Forward

LEMMA KeepsCleaned ==
    ASSUME Types, Types', NEW s \in Seqs, CleanedInv(s), Forward(s),
           UNCHANGED <<phase, at, part, cleaned, settled>>
    PROVE  CleanedInv(s)'
<1>1. SUFFICES ASSUME phase[s] = "clean", NEW n \in cleaned[s]
               PROVE  /\ lceDisk'[n] >= at[s]
                      /\ settled[at[s]] > 0 => erm'[n][at[s]] # NoErm
  BY DEF CleanedInv
<1>2. at[s] \in Epochs /\ n \in Shards
  BY <1>1 DEF Types, RecoveryTypes
<1>3. lceDisk[n] >= at[s] /\ (settled[at[s]] > 0 => erm[n][at[s]] # NoErm)
  BY <1>1 DEF CleanedInv
<1>4. lceDisk'[n] >= lceDisk[n] /\ (erm[n][at[s]] # NoErm => erm'[n][at[s]] = erm[n][at[s]])
  BY <1>2 DEF Forward
<1>5. lceDisk[n] \in Int /\ lceDisk'[n] \in Int /\ at[s] \in Int
  BY <1>2 DEF Types, DiskInv, Epochs
<1>6. QED
  BY <1>3, <1>4, <1>5

LEMMA GlobalStep ==
    ASSUME Types, Types', NEW s \in Seqs, Seqs = {s}, OneInv(s), Forward(s), [Next]_vars
    PROVE  /\ ProgressInv(s)' /\ OutInv(s)' /\ ErmInv(s)' /\ CleanedInv(s)'
           /\ GlobalCleanHasErm'
<1> DEFINE Goal == /\ ProgressInv(s)' /\ OutInv(s)' /\ ErmInv(s)' /\ CleanedInv(s)'
                   /\ GlobalCleanHasErm'
<1>0. /\ glce \in Int /\ s \in Int /\ 2 =< s /\ \A e \in Epochs : e \in Int /\ e >= 1
  BY SeqsRange DEF Types, RecoveryTypes, Epochs
<1>1. CASE UNCHANGED <<erm, recovery>>
  <2>1. UNCHANGED <<phase, at, part, cleaned, out, settled, glce, erm>>
    BY <1>1 DEF recovery
  <2>2. ProgressInv(s)' /\ OutInv(s)' /\ ErmInv(s)'
    BY <2>1 DEF OneInv, ProgressInv, OutInv, ErmInv
  <2>3. QED
    BY <2>1, <2>2, KeepsRegistered, KeepsCleaned DEF OneInv
<1>2. ASSUME NEW n \in Shards, NEW m \in inbox[n], AnswerClean(n, m) PROVE Goal
  <2>1. /\ UNCHANGED <<at, part, cleaned, out, settled, glce, erm>>
        /\ phase'[s] = phase[s] \/ (phase[s] = "clean" /\ phase'[s] = "stopped")
    BY <1>2 DEF AnswerClean, CleanMsgs, Types, RecoveryTypes, disk
  <2>2. ProgressInv(s)' /\ OutInv(s)' /\ ErmInv(s)'
    BY <2>1 DEF OneInv, ProgressInv, OutInv, ErmInv
  <2>3. CleanedInv(s)'
    BY <2>1, <1>2 DEF OneInv, CleanedInv, AnswerClean, disk
  <2>4. QED
    BY <2>1, <2>2, <2>3, KeepsRegistered DEF OneInv
<1>3. ASSUME NEW n \in Shards, NEW r \in replies[n], WriteCleaned(n, r) PROVE Goal
  <2>1. UNCHANGED <<phase, at, part, out, settled, glce, lceDisk>>
    BY <1>3 DEF WriteCleaned
  <2>2. /\ r.s = s /\ r.e \in Epochs /\ settled[r.e] # -1 /\ lceDisk[n] >= r.e
        /\ erm'[n][r.e] = IF settled[r.e] > 0 THEN out[s][r.e] ELSE NoErm
        /\ \A k \in Shards, f \in Epochs : k # n \/ f # r.e => erm'[k][f] = erm[k][f]
    BY <1>3, WriteCleanedErm
  <2>3. ProgressInv(s)' /\ OutInv(s)'
    BY <2>1 DEF OneInv, ProgressInv, OutInv
  <2>4. ErmInv(s)'
    BY <2>1, <2>2 DEF OneInv, ErmInv
  <2>5. CleanedInv(s)'
    <3>1. SUFFICES ASSUME phase[s] = "clean", NEW k \in cleaned'[s]
                   PROVE  /\ lceDisk[k] >= at[s]
                          /\ settled[at[s]] > 0 => erm'[k][at[s]] # NoErm
      BY <2>1 DEF CleanedInv, OneInv
    <3>2. CASE k = n /\ at[s] = r.e
      <4>1. settled[r.e] > 0 => out[s][r.e] # NoErm
        BY <2>2, <1>0 DEF OneInv, OutInv, NoErm
      <4>2. QED
        BY <2>2, <3>2, <4>1
    <3>3. CASE k \in cleaned[s]
      <4>1. k \in Shards /\ at[s] \in Epochs
        BY <3>1, <3>3 DEF Types, RecoveryTypes
      <4>2. lceDisk[k] >= at[s] /\ (settled[at[s]] > 0 => erm[k][at[s]] # NoErm)
        BY <3>1, <3>3 DEF OneInv, CleanedInv
      <4>3. QED
        BY <4>1, <4>2 DEF Forward
    <3>4. QED
      BY <1>3, <2>2, <3>1, <3>2, <3>3 DEF WriteCleaned, Types, RecoveryTypes
  <2>6. QED
    BY <2>1, <2>3, <2>4, <2>5, KeepsRegistered DEF OneInv
<1>4. ASSUME NEW n \in Shards, NEW e \in Epochs, PurgeWriteErm(n, e) PROVE Goal
  <2>1. UNCHANGED <<phase, at, part, cleaned, out, settled, glce>>
    BY <1>4 DEF PurgeWriteErm, recovery
  <2>2. /\ settled[e] > 0 /\ erm'[n][e] = out[s][e]
        /\ \A k \in Shards, f \in Epochs : k # n \/ f # e => erm'[k][f] = erm[k][f]
    BY <1>4, PurgeWriteErmErm
  <2>3. ProgressInv(s)' /\ OutInv(s)'
    BY <2>1 DEF OneInv, ProgressInv, OutInv
  <2>4. ErmInv(s)'
    BY <2>1, <2>2 DEF OneInv, ErmInv
  <2>5. QED
    BY <2>1, <2>3, <2>4, KeepsCleaned, KeepsRegistered DEF OneInv
<1>5. ASSUME StartRecovery(s) PROVE Goal
  <2>1. /\ UNCHANGED <<part, cleaned, out, settled, glce, erm>> /\ phase[s] = "idle"
        /\ phase'[s] = (IF glce + 1 < s THEN "recover" ELSE "done")
        /\ at'[s] = glce + 1
    BY <1>5 DEF StartRecovery, Types, RecoveryTypes, disk
  <2>2. glce = 0 /\ \A e \in Epochs : settled[e] = -1
    <3>1. glce = 0 /\ \A e \in Epochs : settled[e] # -1 => e =< glce
      BY <2>1 DEF OneInv, ProgressInv
    <3>2. QED
      BY <1>0, <3>1
  <2>3. phase'[s] = "recover"
    BY <1>0, <2>1, <2>2
  <2>4. ProgressInv(s)'
    BY <1>0, <2>1, <2>2, <2>3 DEF ProgressInv
  <2>5. OutInv(s)' /\ ErmInv(s)' /\ CleanedInv(s)'
    BY <2>1, <2>3 DEF OneInv, OutInv, ErmInv, CleanedInv
  <2>6. QED
    BY <2>1, <2>4, <2>5, KeepsRegistered DEF OneInv
<1>6. ASSUME NEW P \in SUBSET Shards, SettleAndClean(s, P) PROVE Goal
  <2> DEFINE e == at[s]
             good == Max({lng[n][e] : n \in P})
             seen == Last(UNION {rec[n][e] : n \in P})
             last == IF settled[e] # -1 THEN settled[e] ELSE Max({good, seen})
  <2>1. e \in Epochs /\ good \in 0..2 /\ seen \in 0..2
    BY <1>6, SettleTypes
  <2>2. /\ settled' = [settled EXCEPT ![e] = last]
        /\ out' = [out EXCEPT ![s][e] =
                    [seq |-> s, lng |-> good, last |-> last]]
        /\ part' = [part EXCEPT ![s] = P]
        /\ cleaned' = [cleaned EXCEPT ![s] = {}]
        /\ phase' = [phase EXCEPT ![s] = "clean"]
        /\ phase[s] = "recover" /\ FMajority(P)
        /\ UNCHANGED <<erm, at, glce>>
    BY <1>6 DEF SettleAndClean
  <2>3. settled[e] = -1 /\ e = glce + 1
    BY <1>0, <2>1, <2>2 DEF OneInv, ProgressInv
  <2>4. last = Max({good, seen}) /\ last >= good /\ last \in Int /\ good \in Int
    <3> HIDE DEF good, seen
    <3>1. good \in Int /\ seen \in Int
      BY <2>1
    <3>2. QED
      BY <2>3, <3>1, MaxOfTwo
  <2> HIDE DEF e, good, seen, last
  <2>5. /\ settled'[e] = last /\ \A f \in Epochs \ {e} : settled'[f] = settled[f]
        /\ out'[s][e] = [seq |-> s, lng |-> good, last |-> last]
        /\ \A f \in Epochs \ {e} : out'[s][f] = out[s][f]
        /\ phase'[s] = "clean" /\ part'[s] = P /\ cleaned'[s] = {}
    BY <2>1, <2>2 DEF Types, RecoveryTypes
  <2>6. last # -1
    BY <2>1, <2>4
  <2>7. ProgressInv(s)'
    BY <1>0, <2>2, <2>3, <2>5, <2>6 DEF OneInv, ProgressInv, e
  <2>8. OutInv(s)'
    <3>1. SUFFICES ASSUME NEW f \in Epochs, settled'[f] # -1
                   PROVE  /\ out'[s][f].seq = s
                          /\ out'[s][f].last = settled'[f]
                          /\ out'[s][f].lng =< settled'[f]
      BY DEF OutInv
    <3>2. CASE f = e
      <4>1. PICK o : o = out'[s][f]
        OBVIOUS
      <4>2. o = [seq |-> s, lng |-> good, last |-> last] /\ settled'[f] = last
        BY <2>5, <3>2, <4>1
      <4>3. o.seq = s /\ o.last = last /\ o.lng = good
        BY <4>2
      <4>4. QED
        BY <2>4, <4>1, <4>2, <4>3
    <3>3. CASE f # e
      BY <2>5, <3>1, <3>3 DEF OneInv, OutInv
    <3>4. QED
      BY <3>2, <3>3
  <2>9. ErmInv(s)'
    BY <2>2, <2>3, <2>5 DEF OneInv, ErmInv
  <2>10. CleanedInv(s)'
    BY <2>2, <2>5 DEF CleanedInv
  <2>11. GlobalCleanHasErm'
    BY <1>0, <2>2, <2>3, <2>5 DEF OneInv, GlobalCleanHasErm
  <2>12. QED
    BY <2>7, <2>8, <2>9, <2>10, <2>11
<1>7. ASSUME AdvanceLCE(s) PROVE Goal
  <2>1. /\ UNCHANGED <<erm, settled, out, part, cleaned>> /\ phase[s] = "clean"
        /\ part[s] \subseteq cleaned[s]
        /\ glce' = Max({glce, at[s]})
        /\ at'[s] = at[s] + 1
        /\ phase'[s] = IF at[s] + 1 < s THEN "recover" ELSE "done"
    BY <1>7 DEF AdvanceLCE, disk, Types, RecoveryTypes
  <2>2. at[s] \in Int /\ at[s] = glce + 1 /\ at[s] < s /\ at[s] \in Epochs
    BY <1>0, <2>1 DEF Types, RecoveryTypes, OneInv, ProgressInv
  <2>3. glce' = at[s]
    BY <1>0, <2>1, <2>2, MaxOfTwo
  <2>4. ProgressInv(s)'
    <3>1. \A f \in Epochs : settled[f] # -1 <=> f =< at[s]
      BY <1>0, <2>1, <2>2 DEF OneInv, ProgressInv
    <3>2. /\ phase'[s] \in {"recover", "done"}
          /\ phase'[s] = "done" => at[s] = s - 1
      BY <1>0, <2>1, <2>2
    <3>3. glce' = at'[s] - 1 /\ glce' < s
      BY <1>0, <2>1, <2>2, <2>3
    <3>4. \A f \in Epochs : settled'[f] # -1 <=> f =< glce'
      BY <2>1, <2>3, <3>1
    <3>5. QED
      BY <2>3, <3>2, <3>3, <3>4 DEF ProgressInv
  <2>5. OutInv(s)' /\ ErmInv(s)' /\ CleanedInv(s)'
    BY <2>1 DEF OneInv, OutInv, ErmInv, CleanedInv
  <2>6. GlobalCleanHasErm'
    <3>1. SUFFICES ASSUME NEW f \in Epochs, f =< at[s], settled[f] > 0
                   PROVE  FMajority({n \in Shards : erm[n][f] # NoErm})
      BY <2>1, <2>3 DEF GlobalCleanHasErm, FMajority
    <3>2. CASE f = at[s]
      <4>1. FMajority(part[s]) /\ \A n \in part[s] : n \in Shards /\ erm[n][f] # NoErm
        BY <2>1, <3>1, <3>2 DEF OneInv, CleanedInv, Types, RecoveryTypes
      <4>2. QED
        BY <4>1 DEF FMajority
    <3>3. CASE f # at[s]
      BY <1>0, <2>2, <3>1, <3>3 DEF OneInv, GlobalCleanHasErm
    <3>4. QED
      BY <3>2, <3>3
  <2>7. QED
    BY <2>4, <2>5, <2>6
<1>8. ASSUME NEW n \in Shards, ShardNext(n) PROVE Goal
  <2>1. ASSUME NEW m \in inbox[n], DoRelease(n, m) \/ MustPurge(n, m) PROVE Goal
    BY <1>1, <2>1 DEF DoRelease, MustPurge, disk
  <2>2. ASSUME NEW m \in pending[n], BufferClean(n, m) \/ BufferRelease(n, m) PROVE Goal
    BY <1>1, <2>2 DEF BufferClean, BufferRelease, disk
  <2>3. ASSUME OtherPurgeStarts(n) \/ OtherPurgeEnds(n) \/ PurgeSeal(n) PROVE Goal
    BY <1>1, <2>3 DEF OtherPurgeStarts, OtherPurgeEnds, PurgeSeal, disk
  <2>4. ASSUME NEW m \in Shards, AskErm(n, m) PROVE Goal
    BY <1>1, <2>4 DEF AskErm, disk
  <2>5. ASSUME NEW e \in Epochs, PurgeRecords(n, e) PROVE Goal
    BY <1>1, <2>5 DEF PurgeRecords
  <2>6. ASSUME WriteLastClean(n) \/ LastCleanDone(n) \/ TaskFails(n) \/ Crash(n) PROVE Goal
    BY <1>1, <2>6 DEF WriteLastClean, LastCleanDone, TaskFails, Crash, disk
  <2>7. QED
    BY <1>2, <1>3, <1>4, <1>8, <2>1, <2>2, <2>3, <2>4, <2>5, <2>6 DEF ShardNext
<1>9. ASSUME NEW n \in Shards, SealShard(s, n) \/ SendClean(s, n) \/ SendRelease(s, n)
      PROVE  Goal
  <2>1. ASSUME SealShard(s, n) PROVE Goal
    <3>1. UNCHANGED <<phase, at, part, cleaned, out, settled, glce, erm>>
      BY <2>1 DEF SealShard
    <3>2. ProgressInv(s)' /\ OutInv(s)' /\ ErmInv(s)'
      BY <3>1 DEF OneInv, ProgressInv, OutInv, ErmInv
    <3>3. QED
      BY <3>1, <3>2, KeepsRegistered, KeepsCleaned DEF OneInv
  <2>2. QED
    BY <1>1, <1>9, <2>1 DEF SendClean, SendRelease, Receive, disk
<1>10. ASSUME RecoveryNext(s) PROVE Goal
  BY <1>5, <1>6, <1>7, <1>9, <1>10 DEF RecoveryNext
<1>11. CASE UNCHANGED vars
  BY <1>1, <1>11 DEF vars, disk
<1>12. QED
  BY <1>8, <1>10, <1>11 DEF Next

\* What was expected of a shard stays so.
LEMMA ExpectedLater ==
    ASSUME Types, Types', NEW s \in Seqs, ProgressInv(s)', Forward(s),
           NEW n \in Shards, NEW m \in Msgs, Expected(m, n, s)
    PROVE  Expected(m, n, s)'
<1>1. /\ glce \in Int /\ glce' \in Int /\ s \in Int
  BY SeqsRange DEF Types, RecoveryTypes
<1>2. CASE m.type = "CLEAN"
  <2>1. m.e \in Epochs
    BY <1>2 DEF Msgs, CleanMsgs, ReleaseMsgs
  <2>2. settled[m.e] # -1 /\ Keeper(n, m.e, s)
    BY <1>2 DEF Expected
  <2>3. settled'[m.e] # -1 /\ Keeper(n, m.e, s)'
    BY <2>1, <2>2 DEF Forward
  <2>4. QED
    BY <1>2, <2>3 DEF Expected
<1>3. CASE m.type # "CLEAN"
  BY <1>1, <1>3 DEF Expected, Forward, ProgressInv
<1>4. QED
  BY <1>2, <1>3

LEMMA MsgLater ==
    ASSUME Types, Types', NEW s \in Seqs, ProgressInv(s)', Forward(s),
           NEW n \in Shards, MsgInv(n, s),
           \A m \in inbox'[n] \cup pending'[n] \cup cleans'[n] :
              \/ m \in inbox[n] \cup pending[n] \cup cleans[n]
              \/ m \in Msgs /\ Expected(m, n, s),
           bufRel'[n] # 0 => bufRel[n] # 0 \/ glce = s - 1,
           \A r \in replies'[n] :
              r \in replies[n] \/ (settled[r.e] # -1 /\ lceDisk[n] >= r.e)
    PROVE  MsgInv(n, s)'
<1>1. /\ glce \in Int /\ glce' \in Int /\ s \in Int
      /\ lceDisk[n] \in Int /\ lceDisk'[n] \in Int
  BY SeqsRange DEF Types, RecoveryTypes, DiskInv
<1>2. \A m \in inbox'[n] \cup pending'[n] \cup cleans'[n] : Expected(m, n, s)'
  <2>1. SUFFICES ASSUME NEW m \in inbox'[n] \cup pending'[n] \cup cleans'[n]
                 PROVE  \E x \in Msgs : x = m /\ Expected(x, n, s)'
    OBVIOUS
  <2>2. PICK x \in Msgs : x = m
    BY DEF Types, BufferInv, Msgs
  <2>3. Expected(x, n, s)
    BY <2>1, <2>2 DEF MsgInv
  <2>4. Expected(x, n, s)'
    BY <2>3, ExpectedLater
  <2>5. QED
    BY <2>2, <2>4
<1>3. bufRel'[n] # 0 => glce' = s - 1
  BY <1>1 DEF MsgInv, Forward, ProgressInv
<1>4. \A r \in replies'[n] : settled'[r.e] # -1 /\ lceDisk'[n] >= r.e
  <2>1. TAKE r \in replies'[n]
  <2>2. settled[r.e] # -1 /\ lceDisk[n] >= r.e
    BY DEF MsgInv
  <2>3. r.e \in Epochs /\ r.e \in Int
    BY DEF Types, BufferInv, Epochs
  <2>4. QED
    BY <1>1, <2>2, <2>3 DEF Forward
<1>5. QED
  BY <1>2, <1>3, <1>4 DEF MsgInv

LEMMA TargetLater ==
    ASSUME Types, Types', NEW s \in Seqs, Forward(s), NEW n \in Shards, TargetInv(n, s),
           Active(n), Same(purge[n], purge'[n])
    PROVE  TargetInv(n, s)'
<1>1. /\ purge[n].to \in 0..MaxEpoch /\ purge[n].new \in 0..MaxEpoch
      /\ purge[n].from \in 0..MaxEpoch /\ purge[n].from < purge[n].new
  BY PurgeCases
<1>2. /\ purge[n].to \in Int /\ purge[n].new \in Epochs
      /\ glce \in Int /\ glce' \in Int
  BY <1>1, SeqsRange DEF Epochs, Types, RecoveryTypes
<1>3. purge[n].to =< glce /\ glce =< glce'
  BY DEF TargetInv, Forward
<1>4. PICK x \in Epochs : x = purge[n].new
  BY <1>2
<1>5. settled[x] # -1 /\ Keeper(n, x, s) => settled'[x] # -1 /\ Keeper(n, x, s)'
  BY DEF Forward
<1>6. purge[n].to = x \/ (settled[x] # -1 /\ Keeper(n, x, s))
  BY <1>4 DEF TargetInv
<1>7. purge[n].to = x \/ (settled'[x] # -1 /\ Keeper(n, x, s)')
  BY <1>5, <1>6
<1>8. purge'[n].to = purge[n].to /\ purge'[n].new = x /\ purge[n].to =< glce'
  BY <1>2, <1>3, <1>4 DEF Same
<1>9. QED
  BY <1>7, <1>8 DEF TargetInv, Keeper

LEMMA AnswerLater ==
    ASSUME Types, Types', NEW s \in Seqs, Forward(s), NEW n \in Shards, AnswerInv(n, s),
           purge'[n].st \in {"erm", "run"},
           purge[n].st \in {"erm", "run"} /\ Same(purge[n], purge'[n])
             /\ purge'[n].ans = purge[n].ans
    PROVE  AnswerInv(n, s)'
<1>1. Unclean(purge'[n]) = Unclean(purge[n]) /\ Unclean(purge[n]) \subseteq Epochs
  BY PurgeCases DEF Same, Unclean, Active
<1>2. \A e \in Epochs : settled[e] > 0 =>
        settled'[e] > 0 /\ out'[s][e] = out[s][e]
  BY DEF Forward, Types, RecoveryTypes
<1>3. QED
  BY <1>1, <1>2 DEF AnswerInv

LEMMA WorkLater ==
    ASSUME Types, Types', NEW s \in Seqs, ProgressInv(s)', Forward(s), NEW n \in Shards,
           WorkInv(n, s), purge'[n] = purge[n] \/ purge'[n] = Idle,
           lceDisk'[n] = lceDisk[n], sealDisk'[n] < s,
           released'[n] # 0 =>
                released'[n] = released[n] \/ (glce = s - 1 /\ released'[n] =< lceDisk[n] + 1)
    PROVE  WorkInv(n, s)'
<1>1. /\ glce \in Int /\ glce' \in Int /\ s \in Int
  BY SeqsRange DEF Types, RecoveryTypes
<1>2. SettledInv(n)'
  BY DEF WorkInv, SettledInv, Forward
<1>3. TargetInv(n, s)' /\ AnswerInv(n, s)'
  <2>1. CASE purge'[n] = Idle
    BY <2>1 DEF TargetInv, AnswerInv, Idle, Active
  <2>2. CASE purge'[n] = purge[n] /\ ~Active(n)
    BY <2>2 DEF TargetInv, AnswerInv, Active
  <2>3. CASE purge'[n] = purge[n] /\ Active(n)
    <3>1. TargetInv(n, s)'
      BY <2>3, TargetLater DEF WorkInv, Same
    <3>2. CASE purge[n].st \in {"erm", "run"}
      BY <2>3, <3>1, <3>2, AnswerLater DEF WorkInv, Same
    <3>3. CASE purge[n].st \notin {"erm", "run"}
      BY <2>3, <3>1, <3>3 DEF AnswerInv
    <3>4. QED
      BY <3>2, <3>3
  <2>4. QED
    BY <2>1, <2>2, <2>3
<1>4. released'[n] # 0 => glce' = s - 1 /\ released'[n] =< lceDisk'[n] + 1
  BY <1>1 DEF WorkInv, Forward, ProgressInv
<1>5. QED
  BY <1>2, <1>3, <1>4 DEF WorkInv

\* Nothing of shard k changes.
StandsBy(k) ==
    /\ inbox'[k] = inbox[k] /\ pending'[k] = pending[k] /\ cleans'[k] = cleans[k]
    /\ bufRel'[k] = bufRel[k] /\ replies'[k] = replies[k] /\ purge'[k] = purge[k]
    /\ lceDisk'[k] = lceDisk[k] /\ sealDisk'[k] = sealDisk[k]
    /\ released'[k] = released[k]

LEMMA StandsByStep ==
    ASSUME Types, NEW n \in Shards, ShardNext(n), NEW k \in Shards, k # n
    PROVE  StandsBy(k)
<1> USE DEF StandsBy, Types, DiskInv, MemoryInv, BufferInv, PurgeInv
<1>1. ASSUME NEW m \in inbox[n], AnswerClean(n, m) \/ DoRelease(n, m) \/ MustPurge(n, m)
      PROVE  StandsBy(k)
  BY <1>1 DEF AnswerClean, DoRelease, MustPurge, disk, memory
<1>2. ASSUME NEW m \in pending[n], BufferClean(n, m) \/ BufferRelease(n, m)
      PROVE  StandsBy(k)
  BY <1>2 DEF BufferClean, BufferRelease, Replay, disk, memory
<1>3. ASSUME NEW r \in replies[n], WriteCleaned(n, r) PROVE StandsBy(k)
  BY <1>3 DEF WriteCleaned, memory
<1>4. ASSUME OtherPurgeStarts(n) \/ OtherPurgeEnds(n) PROVE StandsBy(k)
  BY <1>4 DEF OtherPurgeStarts, OtherPurgeEnds, disk, memory, coordinator
<1>5. ASSUME PurgeSeal(n) PROVE StandsBy(k)
  BY <1>5 DEF PurgeSeal
<1>6. ASSUME NEW m \in Shards, AskErm(n, m) PROVE StandsBy(k)
  BY <1>6 DEF AskErm, disk, memory
<1>7. ASSUME NEW e \in Epochs, PurgeRecords(n, e) \/ PurgeWriteErm(n, e) PROVE StandsBy(k)
  BY <1>7 DEF PurgeRecords, PurgeWriteErm, memory
<1>8. ASSUME WriteLastClean(n) PROVE StandsBy(k)
  BY <1>8 DEF WriteLastClean, memory
<1>9. ASSUME LastCleanDone(n) \/ TaskFails(n) PROVE StandsBy(k)
  BY <1>9 DEF LastCleanDone, TaskFails, Replay, disk
<1>10. ASSUME Crash(n) PROVE StandsBy(k)
  BY <1>10 DEF Crash, disk
<1>11. QED
  BY <1>1, <1>2, <1>3, <1>4, <1>5, <1>6, <1>7, <1>8, <1>9, <1>10 DEF ShardNext

LEMMA StandsByInv ==
    ASSUME Types, Types', NEW s \in Seqs, ProgressInv(s)', Forward(s),
           NEW k \in Shards, StandsBy(k), MsgInv(k, s), WorkInv(k, s)
    PROVE  MsgInv(k, s)' /\ WorkInv(k, s)'
<1>1. MsgInv(k, s)'
  BY MsgLater DEF StandsBy
<1>2. sealDisk'[k] < s
  BY DEF StandsBy, WorkInv
<1>3. WorkInv(k, s)'
  BY <1>2, WorkLater DEF StandsBy
<1>4. QED
  BY <1>1, <1>3

\* A message that is replayed was expected.
LEMMA ReplayExpected ==
    ASSUME Types, NEW s \in Seqs, Seqs = {s}, NEW n \in Shards, MsgInv(n, s),
           NEW B \in SUBSET CleanMsgs, \A m \in B : Expected(m, n, s),
           NEW b, b # 0 => glce = s - 1, Replay(n, B, b), UNCHANGED replies,
           pending'[n] \subseteq pending[n]
    PROVE  /\ \A m \in inbox'[n] \cup pending'[n] \cup cleans'[n] :
                 \/ m \in inbox[n] \cup pending[n] \cup cleans[n]
                 \/ m \in Msgs /\ Expected(m, n, s)
           /\ bufRel'[n] = 0 /\ replies'[n] = replies[n] /\ purge'[n] = Idle
<1>1. /\ inbox'[n] = inbox[n] \cup B \cup {m \in ReleaseMsgs : m.e = b}
      /\ cleans'[n] = {} /\ bufRel'[n] = 0 /\ purge'[n] = Idle
  BY DEF Replay, Types, BufferInv, PurgeInv
<1>2. \A m \in ReleaseMsgs : m.e = b => m \in Msgs /\ Expected(m, n, s)
  <2>1. \A m \in ReleaseMsgs : m.type = "RELEASE" /\ m.e # 0
    BY SeqsRange DEF ReleaseMsgs
  <2>2. QED
    BY <2>1 DEF Expected, Msgs
<1>3. \A m \in B : m \in Msgs
  BY DEF Msgs
<1>4. QED
  BY <1>1, <1>2, <1>3

\* The epoch of an expected CLEAN follows clean ones.
LEMMA SettledNext ==
    ASSUME Types, NEW s \in Seqs, ProgressInv(s), NEW e \in Epochs, settled[e] # -1
    PROVE  e - 1 =< glce /\ e < s
<1>1. glce \in Int /\ s \in Int /\ e \in Int /\ at[s] \in Int
  BY SeqsRange DEF Types, RecoveryTypes, Epochs
<1>2. CASE e =< glce
  BY <1>1, <1>2 DEF ProgressInv
<1>3. CASE e = at[s] /\ phase[s] \in {"clean", "stopped"}
  BY <1>1, <1>3 DEF ProgressInv, Types, RecoveryTypes
<1>4. QED
  BY <1>2, <1>3 DEF ProgressInv

LEMMA LceOrder ==
    ASSUME Types, LceInv, NEW n \in Shards
    PROVE  lce[n] =< lceDisk[n] /\ lce[n] \in Int /\ lceDisk[n] \in Int
<1>1. lce[n] \in Int /\ lceDisk[n] \in Int
  BY DEF Types, MemoryInv, DiskInv
<1>2. CASE purge[n].st = "sync"
  <2>1. /\ lceDisk[n] = purge[n].new /\ purge[n].from = lce[n]
        /\ purge[n].from < purge[n].new
    BY <1>2, PurgeCases DEF LceInv, Active
  <2>2. QED
    BY <1>1, <2>1
<1>3. CASE purge[n].st # "sync"
  BY <1>1, <1>3 DEF LceInv
<1>4. QED
  BY <1>1, <1>2, <1>3

\* A new purge.
LEMMA StartWork ==
    ASSUME Types, Types', NEW s \in Seqs, ProgressInv(s)', Forward(s), NEW n \in Shards,
           WorkInv(n, s), purge'[n].st \in {"seal", "lce"},
           UNCHANGED <<glce, settled, lceDisk, sealDisk, released, part>>,
           purge'[n].to =< glce,
           \/ purge'[n].to = purge'[n].new
           \/ \E e \in Epochs : /\ e = purge'[n].new
                                /\ settled[e] # -1 /\ Keeper(n, e, s)
    PROVE  WorkInv(n, s)'
<1>1. TargetInv(n, s)'
  BY DEF TargetInv, Keeper
<1>2. AnswerInv(n, s)'
  BY DEF AnswerInv
<1>3. SettledInv(n)'
  BY DEF WorkInv, SettledInv
<1>4. QED
  BY <1>1, <1>2, <1>3 DEF WorkInv

\* What the step of a shard does to its own messages and purge.
LEMMA QuietOwn ==
    ASSUME Types, Types', LceInv, NEW s \in Seqs, Seqs = {s}, OneInv(s), ProgressInv(s)',
           Forward(s), NEW n \in Shards,
           \/ \E m \in inbox[n] : AnswerClean(n, m) \/ DoRelease(n, m) \/ MustPurge(n, m)
           \/ \E r \in replies[n] : WriteCleaned(n, r)
           \/ OtherPurgeStarts(n) \/ OtherPurgeEnds(n)
    PROVE  MsgInv(n, s)' /\ WorkInv(n, s)'
<1>0. MsgInv(n, s) /\ WorkInv(n, s) /\ sealDisk[n] < s
  BY DEF OneInv, ShardInv, WorkInv
<1>1. ASSUME NEW m \in inbox[n], AnswerClean(n, m) PROVE MsgInv(n, s)' /\ WorkInv(n, s)'
  <2>1. /\ inbox'[n] = inbox[n] \ {m} /\ replies'[n] \subseteq replies[n] \cup {[e |-> m.e, s |-> m.s]}
        /\ UNCHANGED <<pending, cleans, bufRel, purge, lceDisk, sealDisk, released>>
        /\ m \in CleanMsgs /\ m.e =< lce[n]
    BY <1>1 DEF AnswerClean, Types, BufferInv, disk, memory
  <2>2. settled[m.e] # -1 /\ m.e \in Int
    BY <1>0, <2>1 DEF MsgInv, Expected, CleanMsgs, Epochs
  <2>3. lceDisk[n] >= m.e
    BY <2>1, <2>2, LceOrder
  <2>4. \A r \in replies'[n] :
              r \in replies[n] \/ (settled[r.e] # -1 /\ lceDisk[n] >= r.e)
    BY <2>1, <2>2, <2>3
  <2>5. MsgInv(n, s)'
    BY <1>0, <2>1, <2>4, MsgLater
  <2>6. QED
    BY <1>0, <2>1, <2>5, WorkLater
<1>2. ASSUME NEW m \in inbox[n], DoRelease(n, m) PROVE MsgInv(n, s)' /\ WorkInv(n, s)'
  <2>1. /\ inbox'[n] = inbox[n] \ {m}
        /\ UNCHANGED <<pending, cleans, bufRel, purge, replies, lceDisk, sealDisk>>
        /\ m \in ReleaseMsgs /\ m.e =< lce[n] + 1
        /\ released'[n] = Max({released[n], m.e})
    BY <1>2 DEF DoRelease, ReleaseNow, Types, BufferInv, MemoryInv, disk
  <2>2. glce = s - 1
    BY <1>0, <2>1 DEF MsgInv, Expected, ReleaseMsgs
  <2>3. m.e \in Int /\ released[n] \in Int
    BY <2>1, SeqsRange DEF ReleaseMsgs, Types, MemoryInv
  <2>4. released'[n] = released[n] \/ released'[n] = m.e
    BY <2>1, <2>3, MaxOfTwo
  <2>5. m.e =< lceDisk[n] + 1
    BY <2>1, <2>3, LceOrder
  <2>6. MsgInv(n, s)'
    BY <1>0, <2>1, MsgLater
  <2>7. released'[n] # 0 =>
          released'[n] = released[n] \/ (glce = s - 1 /\ released'[n] =< lceDisk[n] + 1)
    BY <2>2, <2>4, <2>5
  <2>8. QED
    BY <1>0, <2>1, <2>6, <2>7, WorkLater
<1>3. ASSUME NEW m \in inbox[n], MustPurge(n, m) PROVE MsgInv(n, s)' /\ WorkInv(n, s)'
  <2>1. /\ inbox'[n] = inbox[n] \ {m} /\ pending'[n] \subseteq pending[n] \cup {m}
        /\ UNCHANGED <<cleans, bufRel, purge, replies, lceDisk, sealDisk, released>>
    BY <1>3 DEF MustPurge, Types, BufferInv, disk, memory
  <2>2. MsgInv(n, s)'
    BY <1>0, <1>3, <2>1, MsgLater
  <2>3. QED
    BY <1>0, <2>1, <2>2, WorkLater
<1>4. ASSUME NEW r \in replies[n], WriteCleaned(n, r) PROVE MsgInv(n, s)' /\ WorkInv(n, s)'
  <2>1. /\ replies'[n] \subseteq replies[n]
        /\ UNCHANGED <<inbox, pending, cleans, bufRel, purge, lceDisk, sealDisk, released>>
    BY <1>4 DEF WriteCleaned, Types, BufferInv, memory
  <2>2. MsgInv(n, s)'
    BY <1>0, <2>1, MsgLater
  <2>3. QED
    BY <1>0, <2>1, <2>2, WorkLater
<1>5. ASSUME OtherPurgeStarts(n) PROVE MsgInv(n, s)' /\ WorkInv(n, s)'
  <2>1. StandsBy(n)
    BY <1>5 DEF OtherPurgeStarts, StandsBy, disk, memory, coordinator
  <2>2. QED
    BY <1>0, <2>1, StandsByInv
<1>6. ASSUME OtherPurgeEnds(n) PROVE MsgInv(n, s)' /\ WorkInv(n, s)'
  <2>1. /\ UNCHANGED <<pending, purge, replies, lceDisk, sealDisk, released>>
        /\ \/ /\ inbox'[n] = inbox[n] \cup cleans[n] \cup
                               {m \in ReleaseMsgs : m.e = bufRel[n]}
              /\ cleans'[n] = {} /\ bufRel'[n] = 0
           \/ inbox' = inbox /\ cleans' = cleans /\ bufRel' = bufRel
    BY <1>6 DEF OtherPurgeEnds, Types, BufferInv, disk, memory
  <2>2. \A m \in ReleaseMsgs : m.e = bufRel[n] => m \in Msgs /\ Expected(m, n, s)
    <3>1. \A m \in ReleaseMsgs : m.type = "RELEASE" /\ m.e # 0
      BY SeqsRange DEF ReleaseMsgs
    <3>2. QED
      BY <1>0, <3>1 DEF MsgInv, Expected, Msgs
  <2>3. MsgInv(n, s)'
    BY <1>0, <2>1, <2>2, MsgLater
  <2>4. QED
    BY <1>0, <2>1, <2>3, WorkLater
<1>7. QED
  BY <1>1, <1>2, <1>3, <1>4, <1>5, <1>6

LEMMA BufferCleanOwn ==
    ASSUME Types, Types', LceInv, NEW s \in Seqs, Seqs = {s}, OneInv(s), ProgressInv(s)',
           Forward(s), NEW n \in Shards, NEW m \in pending[n], BufferClean(n, m)
    PROVE  MsgInv(n, s)' /\ WorkInv(n, s)'
<1>0. MsgInv(n, s) /\ WorkInv(n, s) /\ sealDisk[n] < s
  BY DEF OneInv, ShardInv, WorkInv
<1>1. /\ UNCHANGED <<replies, lceDisk, sealDisk, released, glce, settled, part>>
      /\ pending'[n] \subseteq pending[n] /\ m \in CleanMsgs /\ m.type = "CLEAN"
      /\ m.e \in Epochs
  BY DEF BufferClean, Types, BufferInv, disk, memory, recovery, CleanMsgs
<1>2. settled[m.e] # -1 /\ Keeper(n, m.e, s) /\ Expected(m, n, s)
  BY <1>0, <1>1 DEF MsgInv, Expected
<1>3. CASE Active(n) \/ ~UpToDate(n, m.e)
  <2>1. /\ UNCHANGED <<inbox, bufRel>> /\ cleans'[n] = cleans[n] \cup {m}
        /\ purge'[n] = IF Active(n) THEN purge[n] ELSE NewPurge(n, m.e - 1, m.e, FALSE)
    BY <1>3 DEF BufferClean, Types, BufferInv, PurgeInv
  <2>2. MsgInv(n, s)'
    BY <1>0, <1>1, <2>1, MsgLater
  <2>3. CASE Active(n)
    BY <1>0, <1>1, <2>1, <2>2, <2>3, WorkLater
  <2>4. CASE ~Active(n)
    <3>1. /\ purge'[n].st \in {"seal", "lce"}
          /\ purge'[n].to = m.e - 1 /\ purge'[n].new = m.e
      BY <2>1, <2>4 DEF NewPurge
    <3>2. m.e - 1 =< glce
      BY <1>1, <1>2, SettledNext DEF OneInv
    <3>3. WorkInv(n, s)'
      BY <1>0, <1>1, <1>2, <3>1, <3>2, StartWork
    <3>4. QED
      BY <2>2, <3>3
  <2>5. QED
    BY <2>3, <2>4
<1>4. CASE ~Active(n) /\ UpToDate(n, m.e)
  <2>1. /\ Replay(n, cleans[n] \cup {m}, bufRel[n])
        /\ cleans[n] \cup {m} \in SUBSET CleanMsgs
        /\ \A x \in cleans[n] \cup {m} : Expected(x, n, s)
        /\ bufRel[n] # 0 => glce = s - 1
    BY <1>0, <1>1, <1>2, <1>4 DEF BufferClean, MsgInv, Types, BufferInv
  <2>2. /\ \A x \in inbox'[n] \cup pending'[n] \cup cleans'[n] :
                 \/ x \in inbox[n] \cup pending[n] \cup cleans[n]
                 \/ x \in Msgs /\ Expected(x, n, s)
        /\ bufRel'[n] = 0 /\ replies'[n] = replies[n] /\ purge'[n] = Idle
    BY <1>0, <1>1, <2>1, ReplayExpected
  <2>3. MsgInv(n, s)'
    BY <1>0, <2>2, MsgLater
  <2>4. QED
    BY <1>0, <1>1, <2>2, <2>3, WorkLater
<1>5. QED
  BY <1>3, <1>4

LEMMA BufferReleaseOwn ==
    ASSUME Types, Types', LceInv, NEW s \in Seqs, Seqs = {s}, OneInv(s), ProgressInv(s)',
           Forward(s), NEW n \in Shards, NEW m \in pending[n], BufferRelease(n, m)
    PROVE  MsgInv(n, s)' /\ WorkInv(n, s)'
<1>0. MsgInv(n, s) /\ WorkInv(n, s) /\ sealDisk[n] < s
  BY DEF OneInv, ShardInv, WorkInv
<1>1. /\ UNCHANGED <<replies, lceDisk, sealDisk, released, glce, settled, part>>
      /\ pending'[n] \subseteq pending[n] /\ m.type = "RELEASE" /\ m.e = s
  BY DEF BufferRelease, Types, BufferInv, disk, memory, recovery, ReleaseMsgs
<1>2. glce = s - 1
  BY <1>0, <1>1 DEF MsgInv, Expected
<1>3. CASE UNCHANGED <<inbox, cleans>> /\ purge'[n] = purge[n]
  <2>1. MsgInv(n, s)'
    BY <1>0, <1>1, <1>2, <1>3, MsgLater
  <2>2. QED
    BY <1>0, <1>1, <1>3, <2>1, WorkLater
<1>4. CASE UNCHANGED <<inbox, cleans>> /\ purge'[n] = NewPurge(n, m.e - 1, m.e - 1, TRUE)
  <2>1. MsgInv(n, s)'
    BY <1>0, <1>1, <1>2, <1>4, MsgLater
  <2>2. /\ purge'[n].st \in {"seal", "lce"}
        /\ purge'[n].to = s - 1 /\ purge'[n].new = s - 1
    BY <1>1, <1>4 DEF NewPurge
  <2>3. glce =< glce /\ purge'[n].to =< glce
    BY <1>2, <2>2, SeqsRange
  <2>4. WorkInv(n, s)'
    BY <1>0, <1>1, <1>2, <2>2, <2>3, StartWork
  <2>5. QED
    BY <2>1, <2>4
<1>5. ASSUME NEW b, Replay(n, cleans[n], b) PROVE MsgInv(n, s)' /\ WorkInv(n, s)'
  <2>1. /\ cleans[n] \in SUBSET CleanMsgs
        /\ \A x \in cleans[n] : Expected(x, n, s)
    BY <1>0 DEF MsgInv, Types, BufferInv
  <2>2. /\ \A x \in inbox'[n] \cup pending'[n] \cup cleans'[n] :
                 \/ x \in inbox[n] \cup pending[n] \cup cleans[n]
                 \/ x \in Msgs /\ Expected(x, n, s)
        /\ bufRel'[n] = 0 /\ replies'[n] = replies[n] /\ purge'[n] = Idle
    BY <1>0, <1>1, <1>2, <1>5, <2>1, ReplayExpected
  <2>3. MsgInv(n, s)'
    BY <1>0, <2>2, MsgLater
  <2>4. QED
    BY <1>0, <1>1, <2>2, <2>3, WorkLater
<1>6. \/ UNCHANGED <<inbox, cleans>> /\ purge'[n] = purge[n]
      \/ UNCHANGED <<inbox, cleans>> /\ purge'[n] = NewPurge(n, m.e - 1, m.e - 1, TRUE)
      \/ \E b : Replay(n, cleans[n], b)
  BY DEF BufferRelease, Types, PurgeInv
<1>7. QED
  BY <1>3, <1>4, <1>5, <1>6

LEMMA PurgeOwn ==
    ASSUME Types, Types', LceInv, NEW s \in Seqs, Seqs = {s}, OneInv(s), ProgressInv(s)',
           Forward(s), NEW n \in Shards,
           \/ PurgeSeal(n)
           \/ \E m \in Shards : AskErm(n, m)
           \/ \E e \in Epochs : PurgeRecords(n, e) \/ PurgeWriteErm(n, e)
           \/ WriteLastClean(n)
    PROVE  MsgInv(n, s)' /\ WorkInv(n, s)'
<1>0. /\ MsgInv(n, s) /\ WorkInv(n, s) /\ sealDisk[n] < s
      /\ SettledInv(n) /\ TargetInv(n, s) /\ AnswerInv(n, s)
  BY DEF OneInv, ShardInv, WorkInv
<1>1. /\ UNCHANGED <<inbox, pending, cleans, bufRel, replies, released, glce, settled,
                     out, part>>
      /\ Active(n) /\ purge[n].st # "sync"
  BY DEF PurgeSeal, AskErm, PurgeRecords, PurgeWriteErm, WriteLastClean, memory, recovery,
         Active
<1>2. MsgInv(n, s)'
  BY <1>0, <1>1, MsgLater
<1>3. /\ purge[n].from \in 0..MaxEpoch /\ purge[n].new \in 0..MaxEpoch
      /\ purge[n].to \in 0..MaxEpoch /\ purge[n].from < purge[n].new
      /\ purge[n].to = purge[n].new \/ purge[n].to = purge[n].new - 1
      /\ Unclean(purge[n]) \subseteq Epochs
  BY <1>1, PurgeCases
<1>4. purge[n].new \in Epochs /\ lceDisk[n] = purge[n].from
  BY <1>1, <1>3, SeqsRange DEF LceInv, Epochs
<1>5. glce \in Int /\ s \in Int /\ glce < s
  BY SeqsRange DEF Types, RecoveryTypes, OneInv, ProgressInv
<1>6. ASSUME NEW q, purge' = [purge EXCEPT ![n] = q], PurgeType(q), Same(purge[n], q)
      PROVE  TargetInv(n, s)' /\ purge'[n] = q /\ Unclean(q) = Unclean(purge[n])
  <2>1. purge'[n] = q
    BY <1>6, NewPurgeInv
  <2>2. QED
    BY <1>0, <1>1, <1>6, <2>1, TargetLater DEF Unclean, Same
<1>7. ASSUME PurgeSeal(n) PROVE WorkInv(n, s)'
  <2>1. PICK q : /\ purge' = [purge EXCEPT ![n] = q]
                 /\ PurgeType(q) /\ q.st = "erm" /\ Same(purge[n], q)
                 /\ q.ans = [e \in Unclean(purge[n]) |-> None]
    BY <1>7, PurgeSealEffect
  <2>2. TargetInv(n, s)' /\ purge'[n] = q /\ Unclean(q) = Unclean(purge[n])
    BY <1>6, <2>1
  <2>3. AnswerInv(n, s)'
    BY <2>1, <2>2 DEF AnswerInv, None
  <2>4. purge[n].new < s
    <3>1. CASE purge[n].to = purge[n].new
      BY <1>0, <1>1, <1>3, <1>5, <3>1 DEF TargetInv
    <3>2. CASE settled[purge[n].new] # -1
      BY <1>4, <3>2, SettledNext DEF OneInv
    <3>3. QED
      BY <1>0, <1>1, <3>1, <3>2 DEF TargetInv
  <2>5. sealDisk'[n] < s
    <3>1. sealDisk[n] \in Int /\ purge[n].new \in Int
      BY <1>3 DEF Types, DiskInv
    <3>2. sealDisk'[n] = Max({sealDisk[n], purge[n].new})
      BY <1>7 DEF PurgeSeal, Types, DiskInv
    <3>3. QED
      BY <1>0, <2>4, <3>1, <3>2, MaxOfTwo
  <2>6. UNCHANGED lceDisk
    BY <1>7 DEF PurgeSeal
  <2>7. QED
    BY <1>0, <1>1, <2>2, <2>3, <2>5, <2>6 DEF WorkInv, SettledInv
<1>8. ASSUME NEW m \in Shards, AskErm(n, m) PROVE WorkInv(n, s)'
  <2>1. PICK q : /\ purge' = [purge EXCEPT ![n] = q]
                 /\ PurgeType(q) /\ Same(purge[n], q) /\ q.st \in {"erm", "run", "lce"}
                 /\ q.ans = Heard(purge[n], m)
    BY <1>8, AskErmEffect
  <2>2. TargetInv(n, s)' /\ purge'[n] = q /\ Unclean(q) = Unclean(purge[n])
    BY <1>6, <2>1
  <2>3. \A e \in Unclean(purge[n]) : q.ans[e].st = "OK" =>
            settled[e] > 0 /\ q.ans[e].erm = out[s][e]
    <3>1. SUFFICES ASSUME NEW e \in Unclean(purge[n]), q.ans[e].st = "OK"
                   PROVE  settled[e] > 0 /\ q.ans[e].erm = out[s][e]
      OBVIOUS
    <3>2. q.ans[e] = Merge(purge[n].ans[e], AnswerFor(m, e)) /\ e \in Epochs
      BY <1>3, <2>1 DEF Heard
    <3>3. CASE purge[n].ans[e].st = "OK"
      BY <1>0, <1>8, <3>2, <3>3 DEF Merge, AnswerInv, AskErm
    <3>4. CASE purge[n].ans[e].st # "OK"
      <4>1. q.ans[e] = AnswerFor(m, e)
        BY <3>1, <3>2, <3>4 DEF Merge
      <4>2. erm[m][e] # NoErm /\ q.ans[e].erm = erm[m][e]
        BY <3>1, <4>1 DEF AnswerFor, None
      <4>3. QED
        BY <3>2, <4>2 DEF OneInv, ErmInv
    <3>5. QED
      BY <3>3, <3>4
  <2>4. AnswerInv(n, s)'
    BY <1>1, <2>2, <2>3 DEF AnswerInv
  <2>5. UNCHANGED <<lceDisk, sealDisk>>
    BY <1>8 DEF AskErm, disk
  <2>6. QED
    BY <1>0, <1>1, <2>2, <2>4, <2>5 DEF WorkInv, SettledInv
<1>9. ASSUME NEW e \in Epochs, PurgeRecords(n, e) \/ PurgeWriteErm(n, e)
      PROVE  WorkInv(n, s)'
  <2>1. PICK q : /\ purge' = [purge EXCEPT ![n] = q]
                 /\ PurgeType(q) /\ Same(purge[n], q) /\ q.ans = purge[n].ans
    <3>1. CASE PurgeRecords(n, e)
      BY <3>1, PurgeRecordsEffect
    <3>2. CASE PurgeWriteErm(n, e)
      BY <3>2, PurgeWriteErmEffect
    <3>3. QED
      BY <1>9, <3>1, <3>2
  <2>2. TargetInv(n, s)' /\ purge'[n] = q /\ Unclean(q) = Unclean(purge[n])
    BY <1>6, <2>1
  <2>3. purge[n].st = "run" /\ UNCHANGED <<lceDisk, sealDisk>>
    BY <1>9 DEF PurgeRecords, PurgeWriteErm
  <2>4. AnswerInv(n, s)'
    BY <1>0, <1>1, <2>1, <2>2, <2>3 DEF AnswerInv
  <2>5. QED
    BY <1>0, <1>1, <2>2, <2>3, <2>4 DEF WorkInv, SettledInv
<1>10. ASSUME WriteLastClean(n) PROVE WorkInv(n, s)'
  <2>1. PICK q : /\ purge' = [purge EXCEPT ![n] = q]
                 /\ PurgeType(q) /\ Same(purge[n], q) /\ q.st = "sync"
    BY <1>10, WriteLastCleanEffect
  <2>2. TargetInv(n, s)' /\ purge'[n] = q
    BY <1>6, <2>1
  <2>3. AnswerInv(n, s)'
    BY <2>1, <2>2 DEF AnswerInv
  <2>4. lceDisk'[n] = purge[n].new /\ UNCHANGED sealDisk
    BY <1>10 DEF WriteLastClean, Types, DiskInv
  <2>5. \A e \in Epochs : e =< purge[n].new => settled[e] # -1
    <3>1. TAKE e \in Epochs
    <3>2. e \in Int
      BY DEF Epochs
    <3>3. e =< glce => settled[e] # -1
      BY DEF OneInv, ProgressInv
    <3>4. e =< purge[n].new => e =< purge[n].to \/ e = purge[n].new
      BY <1>3, <3>2
    <3>5. QED
      BY <1>0, <1>1, <1>3, <1>5, <3>2, <3>3, <3>4 DEF TargetInv
  <2>6. SettledInv(n)'
    BY <1>1, <2>4, <2>5 DEF SettledInv
  <2>7. released'[n] # 0 => glce' = s - 1 /\ released'[n] =< lceDisk'[n] + 1
    <3>1. released[n] # 0 => glce = s - 1 /\ released[n] =< lceDisk[n] + 1
      BY <1>0 DEF WorkInv
    <3>2. released[n] \in Int
      BY SeqsRange DEF Types, MemoryInv
    <3>3. QED
      BY <1>1, <1>3, <1>4, <2>4, <3>1, <3>2
  <2>8. QED
    BY <1>0, <2>2, <2>3, <2>4, <2>6, <2>7 DEF WorkInv
<1>11. QED
  BY <1>2, <1>7, <1>8, <1>9, <1>10

LEMMA EndOwn ==
    ASSUME Types, Types', NEW s \in Seqs, Seqs = {s}, OneInv(s), ProgressInv(s)',
           Forward(s), NEW n \in Shards, LastCleanDone(n) \/ TaskFails(n) \/ Crash(n)
    PROVE  MsgInv(n, s)' /\ WorkInv(n, s)'
<1>0. MsgInv(n, s) /\ WorkInv(n, s) /\ sealDisk[n] < s
  BY DEF OneInv, ShardInv, WorkInv
<1>1. UNCHANGED <<lceDisk, sealDisk>>
  BY DEF LastCleanDone, TaskFails, Crash, disk
<1>2. ASSUME LastCleanDone(n) \/ TaskFails(n) PROVE MsgInv(n, s)' /\ WorkInv(n, s)'
  <2>1. /\ Replay(n, cleans[n], bufRel[n])
        /\ UNCHANGED <<released, pending, replies>>
        /\ cleans[n] \in SUBSET CleanMsgs
        /\ \A x \in cleans[n] : Expected(x, n, s)
        /\ bufRel[n] # 0 => glce = s - 1
    BY <1>0, <1>2 DEF LastCleanDone, TaskFails, MsgInv, Types, BufferInv
  <2>2. /\ \A x \in inbox'[n] \cup pending'[n] \cup cleans'[n] :
                 \/ x \in inbox[n] \cup pending[n] \cup cleans[n]
                 \/ x \in Msgs /\ Expected(x, n, s)
        /\ bufRel'[n] = 0 /\ replies'[n] = replies[n] /\ purge'[n] = Idle
    BY <1>0, <2>1, ReplayExpected
  <2>3. MsgInv(n, s)'
    BY <1>0, <2>2, MsgLater
  <2>4. QED
    BY <1>0, <1>1, <2>1, <2>2, <2>3, WorkLater
<1>3. ASSUME Crash(n) PROVE MsgInv(n, s)' /\ WorkInv(n, s)'
  <2>1. /\ inbox'[n] = {} /\ pending'[n] = {} /\ cleans'[n] = {} /\ bufRel'[n] = 0
        /\ replies'[n] = {} /\ purge'[n] = Idle
        /\ released'[n] = 0 \/ released'[n] = released[n]
    BY <1>3 DEF Crash, Types, BufferInv, MemoryInv, PurgeInv
  <2>2. MsgInv(n, s)'
    BY <2>1 DEF MsgInv
  <2>3. QED
    BY <1>0, <1>1, <2>1, <2>2, WorkLater
<1>4. QED
  BY <1>2, <1>3

LEMMA ShardInvStep ==
    ASSUME Types, Types', LceInv, NEW s \in Seqs, Seqs = {s}, OneInv(s), ProgressInv(s)',
           Forward(s), [Next]_vars
    PROVE  ShardInv(s)'
<1>0. \A n \in Shards : MsgInv(n, s) /\ WorkInv(n, s) /\ sealDisk[n] < s
  BY DEF OneInv, ShardInv, WorkInv
<1>1. ASSUME NEW n \in Shards, ShardNext(n) PROVE ShardInv(s)'
  <2>1. MsgInv(n, s)' /\ WorkInv(n, s)'
    BY <1>1, QuietOwn, BufferCleanOwn, BufferReleaseOwn, PurgeOwn, EndOwn DEF ShardNext
  <2>2. ASSUME NEW k \in Shards, k # n PROVE MsgInv(k, s)' /\ WorkInv(k, s)'
    BY <1>0, <1>1, <2>2, StandsByStep, StandsByInv
  <2>3. QED
    BY <2>1, <2>2 DEF ShardInv
<1>2. CASE \A n \in Shards : StandsBy(n)
  BY <1>0, <1>2, StandsByInv DEF ShardInv
<1>3. ASSUME StartRecovery(s) \/ AdvanceLCE(s) \/ UNCHANGED vars PROVE ShardInv(s)'
  BY <1>2, <1>3 DEF StartRecovery, AdvanceLCE, StandsBy, vars, disk, memory, coordinator
<1>4. ASSUME NEW P \in SUBSET Shards, SettleAndClean(s, P) PROVE ShardInv(s)'
  BY <1>2, <1>4 DEF SettleAndClean, StandsBy, memory, coordinator
<1>5. ASSUME NEW n \in Shards, SealShard(s, n) PROVE ShardInv(s)'
  <2>1. \A k \in Shards \ {n} : StandsBy(k)
    BY <1>5 DEF SealShard, StandsBy, coordinator, Types, DiskInv
  <2>2. /\ UNCHANGED <<inbox, pending, cleans, bufRel, replies, purge, lceDisk, released>>
        /\ sealDisk'[n] = s - 1
    BY <1>5 DEF SealShard, coordinator, Types, DiskInv
  <2>3. sealDisk'[n] < s
    BY <2>2, SeqsRange
  <2>4. MsgInv(n, s)'
    BY <1>0, <2>2, MsgLater
  <2>5. WorkInv(n, s)'
    BY <1>0, <2>2, <2>3, WorkLater
  <2>6. QED
    BY <1>0, <2>1, <2>4, <2>5, StandsByInv DEF ShardInv
<1>6. ASSUME NEW n \in Shards, NEW m \in Msgs, Expected(m, n, s),
             inbox' = [inbox EXCEPT ![n] = @ \cup {m}],
             UNCHANGED <<disk, memory, pending, cleans, bufRel, purge, replies>>
      PROVE  ShardInv(s)'
  <2>1. \A k \in Shards \ {n} : StandsBy(k)
    BY <1>6 DEF StandsBy, disk, memory, Types, BufferInv
  <2>2. /\ UNCHANGED <<pending, cleans, bufRel, replies, purge, lceDisk, released, sealDisk>>
        /\ inbox'[n] = inbox[n] \cup {m}
    BY <1>6 DEF disk, memory, Types, BufferInv
  <2>3. MsgInv(n, s)'
    BY <1>0, <1>6, <2>2, MsgLater
  <2>4. WorkInv(n, s)'
    BY <1>0, <2>2, WorkLater
  <2>5. QED
    BY <1>0, <2>1, <2>3, <2>4, StandsByInv DEF ShardInv
<1>7. ASSUME NEW n \in Shards, SendClean(s, n) PROVE ShardInv(s)'
  <2> DEFINE m == [type |-> "CLEAN", e |-> at[s], s |-> s]
  <2>1. /\ phase[s] = "clean" /\ n \in part[s] /\ inbox' = [inbox EXCEPT ![n] = @ \cup {m}]
        /\ UNCHANGED <<disk, memory, pending, cleans, bufRel, purge, replies>>
    BY <1>7 DEF SendClean, Receive
  <2>2. at[s] \in Epochs /\ at[s] = glce + 1 /\ settled[at[s]] # -1
    BY <2>1 DEF Types, RecoveryTypes, OneInv, ProgressInv, Epochs
  <2>3. m \in Msgs /\ m.type = "CLEAN" /\ m.e = at[s]
    BY <2>2 DEF Msgs, CleanMsgs
  <2>4. Expected(m, n, s)
    BY <2>1, <2>2, <2>3 DEF Expected, Keeper
  <2> HIDE DEF m
  <2>5. QED
    BY <1>6, <2>1, <2>3, <2>4
<1>8. ASSUME NEW n \in Shards, SendRelease(s, n) PROVE ShardInv(s)'
  <2> DEFINE m == [type |-> "RELEASE", e |-> s]
  <2>1. /\ phase[s] = "done" /\ inbox' = [inbox EXCEPT ![n] = @ \cup {m}]
        /\ UNCHANGED <<disk, memory, pending, cleans, bufRel, purge, replies>>
    BY <1>8 DEF SendRelease, Receive
  <2>2. glce = s - 1
    BY <2>1 DEF OneInv, ProgressInv
  <2>3. m \in Msgs /\ m.type = "RELEASE"
    BY DEF Msgs, ReleaseMsgs
  <2>4. Expected(m, n, s)
    BY <2>2, <2>3 DEF Expected
  <2> HIDE DEF m
  <2>5. QED
    BY <1>6, <2>1, <2>3, <2>4
<1>9. ASSUME RecoveryNext(s) PROVE ShardInv(s)'
  BY <1>3, <1>4, <1>5, <1>7, <1>8, <1>9 DEF RecoveryNext
<1>10. QED
  BY <1>1, <1>3, <1>9 DEF Next

LEMMA OneInit ==
    ASSUME NEW s \in Seqs, Seqs = {s}, Init
    PROVE  OneInv(s)
<1>0. Types
  BY InitTypes
<1>1. /\ s \in Int /\ 2 =< s /\ \A e \in Epochs : e \in Int /\ e >= 1
  BY SeqsRange DEF Epochs
<1>2. ProgressInv(s)
  BY <1>1 DEF Init, ProgressInv
<1>3. OutInv(s) /\ CleanedInv(s)
  BY DEF Init, OutInv, CleanedInv
<1>4. ErmInv(s)
  BY DEF Init, ErmInv
<1>5. GlobalCleanHasErm
  BY DEF Init, GlobalCleanHasErm
<1>6. ASSUME NEW n \in Shards PROVE MsgInv(n, s) /\ WorkInv(n, s)
  <2>1. /\ inbox[n] = {} /\ pending[n] = {} /\ cleans[n] = {} /\ bufRel[n] = 0
        /\ replies[n] = {} /\ purge[n].st = "idle" /\ lceDisk[n] = 0
        /\ sealDisk[n] = 0 /\ released[n] = 0
    BY DEF Init, Idle
  <2>2. SettledInv(n)
    BY <1>1, <2>1 DEF SettledInv
  <2>3. QED
    BY <1>1, <2>1, <2>2 DEF MsgInv, WorkInv, TargetInv, AnswerInv, Active
<1>7. QED
  BY <1>2, <1>3, <1>4, <1>5, <1>6 DEF OneInv, ShardInv

LEMMA OneStep ==
    ASSUME Types, Types', LceInv, NEW s \in Seqs, Seqs = {s}, OneInv(s), [Next]_vars
    PROVE  OneInv(s)'
<1>1. Forward(s)
  BY ForwardStep
<1>2. /\ ProgressInv(s)' /\ OutInv(s)' /\ ErmInv(s)' /\ CleanedInv(s)'
      /\ GlobalCleanHasErm'
  BY <1>1, GlobalStep
<1>3. ShardInv(s)'
  BY <1>1, <1>2, ShardInvStep
<1>4. QED
  BY <1>2, <1>3 DEF OneInv

LEMMA OneInvariant ==
    ASSUME NEW s, Seqs = {s}
    PROVE  Spec => []OneInv(s)
<1>1. s \in Seqs
  OBVIOUS
<1>2. Init => OneInv(s)
  BY <1>1, OneInit
<1>3. Types /\ Types' /\ LceInv /\ OneInv(s) /\ [Next]_vars => OneInv(s)'
  BY <1>1, OneStep
<1>4. QED
  BY <1>2, <1>3, TypesInvariant, PTL DEF Spec

\* One sequencer recovers the log at a time.
SingleRecovery == \E s : Seqs = {s}

\* As long as one sequencer recovers the log, an epoch that is clean in the
\* epoch store has its EpochRecoveryMetadata on an f-majority, whatever fails:
\* recovery advances the last clean epoch after CLEANED from all participants,
\* which have stored it (CleanedResponseRequest).
THEOREM MetadataOnFMajority ==
    ASSUME SingleRecovery
    PROVE  Spec => []GlobalCleanHasErm
<1>1. PICK s : Seqs = {s}
  BY DEF SingleRecovery
<1>2. Spec => []OneInv(s)
  BY <1>1, OneInvariant
<1>3. OneInv(s) => GlobalCleanHasErm
  BY DEF OneInv
<1>4. QED
  BY <1>2, <1>3, PTL

-----------------------------------------------------------------------------
(* The content of the epochs, as long as every purge concludes for each of *)
(* its epochs: a GetEpochRecoveryMetadataRequest that has heard from every *)
(* shard without an answer for an epoch leaves that epoch as it is, and    *)
(* the purge goes on to hold it for clean.                                 *)

Concluded ==
    \A n \in Shards : purge[n].st \in {"run", "lce", "sync"} =>
        \A e \in Unclean(purge[n]) : purge[n].ans[e] # None

\* Shard n has no record of epoch e that was not settled on, and has the
\* metadata of e unless e is empty.
Shown(n, e) == rec[n][e] \subseteq 1..settled[e]
Known(n, e) == settled[e] > 0 => erm[n][e] # NoErm

\* Only participants hold the epoch that is being recovered for clean.
PartInv(s) ==
    \A n \in Shards, e \in Epochs : e = glce + 1 /\ lceDisk[n] >= e => n \in part[s]

KnownInv ==
    \A n \in Shards, e \in Epochs : e =< glce /\ e =< lceDisk[n] => Known(n, e)

ShownInv(s) ==
    \A n \in Shards, e \in Epochs : settled[e] # -1 /\ Keeper(n, e, s) => Shown(n, e)

\* Record x of epoch e is on a copyset of shards that no purge takes it from.
Kept(e, x, s) ==
    \E c \in CopySets : \A n \in c :
        /\ x \in rec[n][e]
        /\ settled[e] = -1 \/ x =< out[s][e].lng \/ Keeper(n, e, s)

KeptInv(s) ==
    \A e \in Epochs :
        /\ \A x \in 1..settled[e] : Kept(e, x, s)
        /\ settled[e] = -1 => \A n \in Shards : \A x \in 1..lng[n][e] : Kept(e, x, s)
        /\ settled[e] # -1 => \A n \in Shards : lng[n][e] =< settled[e]

\* What a purge has found on its shard n, heard and done, epoch by epoch.
Stock(n, e) ==
    LET p == purge[n]
    IN  /\ p.st = "erm" =>
             /\ rec[n][e] \subseteq 1..p.last[e]
             /\ p.lng[e] = lng[n][e]
             /\ p.ans[e].st = "EMPTY" => settled[e] = 0
        /\ p.st = "run" =>
             /\ p.ans[e].st = "EMPTY" => settled[e] = 0
             /\ e \in p.del => rec[n][e] \subseteq 1..p.last[e] /\ p.lng[e] = lng[n][e]
             /\ e \notin p.del => Shown(n, e)
             /\ e \notin p.del \cup p.write => Known(n, e)
        /\ p.st = "lce" => Shown(n, e) /\ Known(n, e)

StockInv == \A n \in Shards : Active(n) => \A e \in Unclean(purge[n]) : Stock(n, e)

ContentInv(s) == PartInv(s) /\ KnownInv /\ ShownInv(s) /\ KeptInv(s) /\ StockInv

\* The steps that matter for the content of the epochs.
LEMMA DiskSteps ==
    ASSUME NEW s \in Seqs, Seqs = {s}, [Next]_vars
    PROVE  /\ UNCHANGED lng
           /\ \/ UNCHANGED <<rec, lceDisk, glce, settled, out, part>>
              \/ \E n \in Shards, e \in Epochs : PurgeRecords(n, e)
              \/ \E n \in Shards : WriteLastClean(n)
              \/ \E P \in SUBSET Shards : SettleAndClean(s, P)
              \/ AdvanceLCE(s)
<1> DEFINE Still == UNCHANGED <<rec, lng, lceDisk, glce, settled, out, part>>
<1>1. ASSUME NEW n \in Shards, ShardNext(n)
      PROVE  \/ Still
             \/ UNCHANGED lng /\ \E e \in Epochs : PurgeRecords(n, e)
             \/ UNCHANGED lng /\ WriteLastClean(n)
  <2>1. ASSUME NEW m \in inbox[n], AnswerClean(n, m) \/ DoRelease(n, m) \/ MustPurge(n, m)
        PROVE  Still
    BY <2>1 DEF AnswerClean, DoRelease, MustPurge, disk, recovery
  <2>2. ASSUME NEW m \in pending[n], BufferClean(n, m) \/ BufferRelease(n, m)
        PROVE  Still
    BY <2>2 DEF BufferClean, BufferRelease, disk, recovery
  <2>3. ASSUME OtherPurgeStarts(n) \/ OtherPurgeEnds(n) \/ PurgeSeal(n) PROVE Still
    BY <2>3 DEF OtherPurgeStarts, OtherPurgeEnds, PurgeSeal, disk, recovery
  <2>4. ASSUME NEW m \in Shards, AskErm(n, m) PROVE Still
    BY <2>4 DEF AskErm, disk, recovery
  <2>5. ASSUME NEW e \in Epochs, PurgeWriteErm(n, e) PROVE Still
    BY <2>5 DEF PurgeWriteErm, recovery
  <2>6. ASSUME LastCleanDone(n) \/ TaskFails(n) \/ Crash(n) PROVE Still
    BY <2>6 DEF LastCleanDone, TaskFails, Crash, disk, recovery
  <2>7. ASSUME NEW r \in replies[n], WriteCleaned(n, r) PROVE Still
    BY <2>7 DEF WriteCleaned
  <2>8. ASSUME NEW e \in Epochs, PurgeRecords(n, e) PROVE UNCHANGED lng
    BY <2>8 DEF PurgeRecords
  <2>9. ASSUME WriteLastClean(n) PROVE UNCHANGED lng
    BY <2>9 DEF WriteLastClean
  <2> HIDE DEF Still
  <2>10. QED
    BY <1>1, <2>1, <2>2, <2>3, <2>4, <2>5, <2>6, <2>7, <2>8, <2>9 DEF ShardNext
<1>2. ASSUME RecoveryNext(s)
      PROVE  \/ Still
             \/ UNCHANGED lng /\ \E P \in SUBSET Shards : SettleAndClean(s, P)
             \/ UNCHANGED lng /\ AdvanceLCE(s)
  <2>1. ASSUME StartRecovery(s) PROVE Still
    BY <2>1 DEF StartRecovery, disk
  <2>2. ASSUME NEW n \in Shards, SealShard(s, n) \/ SendClean(s, n) \/ SendRelease(s, n)
        PROVE  Still
    BY <2>2 DEF SealShard, SendClean, SendRelease, Receive, disk, recovery
  <2>3. ASSUME NEW P \in SUBSET Shards, SettleAndClean(s, P) PROVE UNCHANGED lng
    BY <2>3 DEF SettleAndClean
  <2>4. ASSUME AdvanceLCE(s) PROVE UNCHANGED lng
    BY <2>4 DEF AdvanceLCE, disk
  <2> HIDE DEF Still
  <2>5. QED
    BY <1>2, <2>1, <2>2, <2>3, <2>4 DEF RecoveryNext
<1>3. CASE UNCHANGED vars
  BY <1>3 DEF vars, disk, recovery
<1>4. QED
  BY <1>1, <1>2, <1>3 DEF Next

\* The recovery settles an epoch once, and registers it after.
LEMMA SettleNow ==
    ASSUME Types, NEW s \in Seqs, OneInv(s), NEW P \in SUBSET Shards, SettleAndClean(s, P)
    PROVE  /\ at[s] \in Epochs /\ at[s] = glce + 1 /\ settled[at[s]] = -1
           /\ \A n \in Shards : lceDisk[n] < at[s]
           /\ part'[s] = P /\ UNCHANGED <<glce, lceDisk>>
           /\ \A n \in Shards, e \in Epochs : e # at[s] => rec'[n][e] = rec[n][e]
           /\ \A e \in Epochs : e # at[s] => settled'[e] = settled[e]
<1>1. phase[s] = "recover" /\ UNCHANGED <<glce, lceDisk>>
  BY DEF SettleAndClean
<1>2. at[s] \in Epochs /\ at[s] = glce + 1 /\ settled[at[s]] = -1
  BY <1>1 DEF Types, RecoveryTypes, OneInv, ProgressInv, Epochs
<1>3. \A n \in Shards : lceDisk[n] < at[s]
  BY <1>2 DEF OneInv, ShardInv, WorkInv, SettledInv, Types, DiskInv, Epochs
<1>4. part'[s] = P
  BY DEF SettleAndClean, Types, RecoveryTypes
<1>5. \A n \in Shards, e \in Epochs : e # at[s] => rec'[n][e] = rec[n][e]
  BY DEF SettleAndClean, Types, DiskInv
<1>6. \A e \in Epochs : e # at[s] => settled'[e] = settled[e]
  BY DEF SettleAndClean, Types, RecoveryTypes
<1>7. QED
  BY <1>1, <1>2, <1>3, <1>4, <1>5, <1>6

LEMMA AdvanceNow ==
    ASSUME Types, NEW s \in Seqs, OneInv(s), AdvanceLCE(s)
    PROVE  /\ phase[s] = "clean" /\ part[s] \subseteq cleaned[s]
           /\ at[s] = glce + 1 /\ glce' = glce + 1
           /\ UNCHANGED <<rec, lceDisk, settled, out, part, erm, purge>>
<1>1. /\ phase[s] = "clean" /\ part[s] \subseteq cleaned[s]
      /\ UNCHANGED <<rec, lceDisk, settled, out, part, erm, purge>>
      /\ glce' = Max({glce, at[s]})
  BY DEF AdvanceLCE, disk, coordinator
<1>2. at[s] = glce + 1 /\ at[s] \in Int /\ glce \in Int
  BY <1>1 DEF Types, RecoveryTypes, OneInv, ProgressInv, Epochs
<1>3. glce \in Int /\ at[s] \in Int
  BY <1>2
<1>4. Max({glce, at[s]}) = IF glce >= at[s] THEN glce ELSE at[s]
  BY <1>3, MaxOfTwo
<1>5. QED
  BY <1>1, <1>2, <1>4

\* A purge works on registered epochs that are not clean on its shard.
LEMMA PurgeWorksOn ==
    ASSUME Types, LceInv, NEW s \in Seqs, OneInv(s), NEW n \in Shards, Active(n),
           NEW e \in Unclean(purge[n])
    PROVE  /\ e \in Epochs /\ e \in Int /\ e =< glce /\ settled[e] # -1
           /\ purge[n].st # "sync" => lceDisk[n] < e /\ ~Keeper(n, e, s)
<1>1. /\ purge[n].from \in Int /\ purge[n].to \in Int /\ e \in Epochs
      /\ glce \in Int /\ lceDisk[n] \in Int
  BY PurgeCases DEF Types, RecoveryTypes, DiskInv
<1>2. e \in Int /\ purge[n].from < e /\ e =< purge[n].to
  BY <1>1 DEF Unclean
<1>3. purge[n].to =< glce
  BY DEF OneInv, ShardInv, WorkInv, TargetInv
<1>4. settled[e] # -1
  BY <1>1, <1>2, <1>3 DEF OneInv, ProgressInv
<1>5. purge[n].st # "sync" => lceDisk[n] = purge[n].from
  BY DEF LceInv
<1>6. QED
  BY <1>1, <1>2, <1>3, <1>4, <1>5 DEF Keeper

\* The content of a settled epoch only shrinks, and its metadata stays.
LEMMA Shrinks ==
    ASSUME Types, NEW s \in Seqs, Seqs = {s}, OneInv(s), Forward(s), [Next]_vars,
           NEW n \in Shards, NEW e \in Epochs, settled[e] # -1
    PROVE  /\ rec'[n][e] \subseteq rec[n][e]
           /\ settled'[e] = settled[e]
           /\ Shown(n, e) => Shown(n, e)'
           /\ Known(n, e) => Known(n, e)'
<1>1. rec'[n][e] \subseteq rec[n][e]
  <2>1. ASSUME NEW k \in Shards, NEW f \in Epochs, PurgeRecords(k, f)
        PROVE  rec'[n][e] \subseteq rec[n][e]
    <3>1. rec' = [rec EXCEPT ![k][f] = @ \ ToDelete(purge[k], f)]
      BY <2>1 DEF PurgeRecords
    <3>2. PICK D : D = ToDelete(purge[k], f)
      OBVIOUS
    <3>3. rec' = [rec EXCEPT ![k][f] = @ \ D]
      BY <3>1, <3>2
    <3>4. QED
      BY <3>3 DEF Types, DiskInv
  <2>2. ASSUME NEW k \in Shards, WriteLastClean(k) PROVE UNCHANGED rec
    BY <2>2 DEF WriteLastClean
  <2>3. ASSUME NEW P \in SUBSET Shards, SettleAndClean(s, P)
        PROVE  rec'[n][e] = rec[n][e]
    BY <2>3, SettleNow
  <2>4. ASSUME AdvanceLCE(s) PROVE UNCHANGED rec
    BY <2>4, AdvanceNow
  <2>5. QED
    BY <2>1, <2>2, <2>3, <2>4, DiskSteps
<1>2. settled'[e] = settled[e]
  BY DEF Forward
<1>3. erm[n][e] # NoErm => erm'[n][e] # NoErm
  BY DEF Forward
<1>4. QED
  BY <1>1, <1>2, <1>3 DEF Shown, Known

\* What settling an epoch makes of it.
Settles(s, P, e, good, last) ==
    /\ good =< last /\ settled'[e] = last /\ out'[s][e].lng = good
    /\ \E m \in P : good = lng[m][e]
    /\ \A n \in P : rec[n][e] \subseteq 1..last
    /\ \A n \in P : rec'[n][e] = (rec[n][e] \cap 1..good) \cup ((good + 1)..last)
    /\ \A n \in Shards \ P : rec'[n][e] = rec[n][e]

LEMMA SettleContent ==
    ASSUME Types, NEW s \in Seqs, NEW P \in SUBSET Shards, SettleAndClean(s, P),
           NEW e, e = at[s], settled[e] = -1
    PROVE  \E good \in 0..2, last \in 0..2 : Settles(s, P, e, good, last)
<1> DEFINE a == at[s]
           goods == {lng[n][a] : n \in P}
           good == Max(goods)
           seen == Last(UNION {rec[n][a] : n \in P})
           last == Max({good, seen})
<1>0. /\ a \in Epochs /\ good \in goods /\ good \in 0..2 /\ seen \in 0..2
      /\ \A n \in P : lng[n][a] =< good
      /\ \A n \in P : rec[n][a] \subseteq 1..seen
  BY SettleTypes
<1>2. \E m \in P : good = lng[m][e]
  BY <1>0
<1>3. /\ settled' = [settled EXCEPT ![a] = last]
      /\ rec' = [n \in Shards |-> IF n \notin P THEN rec[n] ELSE
                    [rec[n] EXCEPT ![a] = (@ \cap 1..good) \cup ((good + 1)..last)]]
      /\ out' = [out EXCEPT ![s][a] = [seq |-> s, lng |-> good, last |-> last]]
  BY DEF SettleAndClean
<1> a = e
  OBVIOUS
<1> HIDE DEF a, goods, good, seen
<1>1. /\ e \in Epochs /\ good \in 0..2 /\ seen \in 0..2
      /\ \A n \in P : lng[n][e] =< good
      /\ \A n \in P : rec[n][e] \subseteq 1..seen
  BY <1>0
<1>4. good \in Int /\ seen \in Int
  BY <1>1
<1>5. last = IF good >= seen THEN good ELSE seen
  BY <1>4, MaxOfTwo
<1> HIDE DEF last
<1>6. last \in 0..2 /\ good =< last /\ seen =< last
  BY <1>1, <1>5
<1>7. \A n \in P : rec[n][e] \subseteq 1..last
  BY <1>1, <1>6
<1>8. settled'[e] = last /\ out'[s][e].lng = good
  <2>1. settled'[e] = last
    BY <1>1, <1>3 DEF Types, RecoveryTypes
  <2>2. PICK o : o = [seq |-> s, lng |-> good, last |-> last]
    OBVIOUS
  <2>3. out'[s][e] = o
    BY <1>1, <1>3, <2>2 DEF Types, RecoveryTypes
  <2>4. QED
    BY <2>1, <2>2, <2>3
<1>9. /\ \A n \in P : rec'[n][e] = (rec[n][e] \cap 1..good) \cup ((good + 1)..last)
      /\ \A n \in Shards \ P : rec'[n][e] = rec[n][e]
  BY <1>1, <1>3 DEF Types, DiskInv
<1>10. QED
  BY <1>1, <1>2, <1>6, <1>7, <1>8, <1>9 DEF Settles

\* A purge that ends makes clean what it has purged, and its own epoch when a
\* CLEAN has started it.
LEMMA EndsWith ==
    ASSUME Types, LceInv, NEW s \in Seqs, OneInv(s), NEW n \in Shards, WriteLastClean(n),
           NEW e \in Epochs, lceDisk[n] < e, e =< lceDisk'[n]
    PROVE  /\ purge[n].st = "lce" /\ Active(n)
           /\ \/ e \in Unclean(purge[n])
              \/ e = glce + 1 /\ n \in part[s]
<1>1. purge[n].st = "lce" /\ Active(n) /\ lceDisk'[n] = purge[n].new
  BY DEF WriteLastClean, Active, Types, DiskInv
<1>2. /\ purge[n].from \in Int /\ purge[n].to \in Int /\ purge[n].new \in Int /\ e \in Int
      /\ purge[n].to = purge[n].new \/ purge[n].to = purge[n].new - 1
      /\ glce \in Int
  BY <1>1, PurgeCases DEF Epochs, Types, RecoveryTypes
<1>3. lceDisk[n] = purge[n].from
  BY <1>1 DEF LceInv
<1>4. CASE e =< purge[n].to
  BY <1>1, <1>2, <1>3, <1>4 DEF Unclean
<1>5. CASE e > purge[n].to
  <2>1. e = purge[n].new /\ purge[n].to # purge[n].new
    BY <1>1, <1>2, <1>5
  <2>2. Keeper(n, e, s)
    BY <1>1, <2>1 DEF OneInv, ShardInv, WorkInv, TargetInv
  <2>3. QED
    BY <1>1, <1>2, <1>3, <2>2 DEF Keeper, Types, DiskInv
<1>6. QED
  BY <1>1, <1>2, <1>4, <1>5

LEMMA PartStep ==
    ASSUME Types, LceInv, NEW s \in Seqs, Seqs = {s}, OneInv(s), PartInv(s), [Next]_vars
    PROVE  PartInv(s)'
<1>0. glce \in Int /\ \A n \in Shards : lceDisk[n] \in Int
  BY DEF Types, RecoveryTypes, DiskInv
<1>1. SUFFICES ASSUME NEW n \in Shards, NEW e \in Epochs, e = glce' + 1, lceDisk'[n] >= e
               PROVE  n \in part'[s]
  BY DEF PartInv
<1>2. e \in Int
  BY DEF Epochs
<1>3. CASE UNCHANGED <<rec, lceDisk, glce, settled, out, part>>
  BY <1>1, <1>3 DEF PartInv
<1>4. ASSUME NEW k \in Shards, NEW f \in Epochs, PurgeRecords(k, f) PROVE n \in part'[s]
  BY <1>1, <1>4 DEF PurgeRecords, recovery, PartInv
<1>5. ASSUME NEW k \in Shards, WriteLastClean(k) PROVE n \in part'[s]
  <2>1. UNCHANGED <<glce, part>> /\ lceDisk' = [lceDisk EXCEPT ![k] = purge[k].new]
    BY <1>5 DEF WriteLastClean, recovery
  <2>2. CASE lceDisk[n] >= e
    BY <1>1, <2>1, <2>2 DEF PartInv
  <2>3. CASE lceDisk[n] < e
    <3>1. n = k
      BY <1>0, <1>1, <1>2, <2>1, <2>3 DEF Types, DiskInv
    <3>2. e =< lceDisk'[n]
      BY <1>0, <1>1, <1>2, <2>1, <3>1
    <3>3. e \in Unclean(purge[n]) \/ n \in part[s]
      BY <1>5, <2>3, <3>1, <3>2, EndsWith
    <3>4. e \in Unclean(purge[n]) => e =< glce
      BY <1>5, <3>1, PurgeWorksOn DEF WriteLastClean, Active
    <3>5. QED
      BY <1>0, <1>1, <1>2, <2>1, <3>3, <3>4
  <2>4. QED
    BY <1>0, <1>2, <2>2, <2>3
<1>6. ASSUME NEW P \in SUBSET Shards, SettleAndClean(s, P) PROVE n \in part'[s]
  <2>1. at[s] = glce + 1 /\ lceDisk[n] < at[s] /\ UNCHANGED <<glce, lceDisk>>
    BY <1>6, SettleNow
  <2>2. QED
    BY <1>0, <1>1, <1>2, <2>1
<1>7. ASSUME AdvanceLCE(s) PROVE n \in part'[s]
  <2>1. glce' = glce + 1 /\ UNCHANGED lceDisk
    BY <1>7, AdvanceNow
  <2>2. settled[e] # -1
    BY <1>0, <1>1, <1>2, <2>1 DEF OneInv, ShardInv, WorkInv, SettledInv
  <2>3. e - 1 =< glce
    BY <2>2, SettledNext DEF OneInv
  <2>4. QED
    BY <1>0, <1>1, <1>2, <2>1, <2>3
<1>8. QED
  BY <1>3, <1>4, <1>5, <1>6, <1>7, DiskSteps

LEMMA KnownStep ==
    ASSUME Types, Types', LceInv, NEW s \in Seqs, Seqs = {s}, OneInv(s), Forward(s),
           PartInv(s), KnownInv, StockInv, [Next]_vars
    PROVE  KnownInv'
<1>0. glce \in Int /\ \A n \in Shards : lceDisk[n] \in Int /\ lceDisk'[n] \in Int
  BY DEF Types, RecoveryTypes, DiskInv
<1>1. SUFFICES ASSUME NEW n \in Shards, NEW e \in Epochs, e =< glce', e =< lceDisk'[n]
               PROVE  Known(n, e)'
  BY DEF KnownInv
<1>2. e \in Int
  BY DEF Epochs
<1>3. CASE e =< glce /\ e =< lceDisk[n]
  <2>1. settled[e] # -1 /\ Known(n, e)
    BY <1>3 DEF KnownInv, OneInv, ProgressInv
  <2>2. QED
    BY <2>1, Shrinks
<1>4. CASE ~(e =< lceDisk[n])
  <2>1. ~(lceDisk'[n] = lceDisk[n])
    BY <1>1, <1>4
  <2>2. WriteLastClean(n) /\ UNCHANGED glce
    <3>1. \A k \in Shards, f \in Epochs : ~PurgeRecords(k, f)
      BY <2>1 DEF PurgeRecords
    <3>2. ~AdvanceLCE(s)
      BY <2>1, AdvanceNow
    <3>3. \A P \in SUBSET Shards : ~SettleAndClean(s, P)
      BY <2>1, SettleNow
    <3>4. PICK k \in Shards : WriteLastClean(k)
      BY <2>1, <3>1, <3>2, <3>3, DiskSteps
    <3>5. lceDisk' = [lceDisk EXCEPT ![k] = purge[k].new] /\ UNCHANGED glce
      BY <3>4 DEF WriteLastClean, recovery
    <3>6. n = k
      BY <2>1, <3>5 DEF Types, DiskInv
    <3>7. QED
      BY <3>4, <3>5, <3>6
  <2>3. lceDisk[n] < e
    BY <1>0, <1>2, <1>4
  <2>4. /\ purge[n].st = "lce" /\ Active(n)
        /\ e \in Unclean(purge[n]) \/ e = glce + 1
    BY <1>1, <2>2, <2>3, EndsWith
  <2>5. e \in Unclean(purge[n])
    BY <1>0, <1>1, <1>2, <2>2, <2>4
  <2>6. Known(n, e) /\ settled[e] # -1
    BY <2>4, <2>5, PurgeWorksOn DEF StockInv, Stock
  <2>7. QED
    BY <2>6, Shrinks
<1>5. CASE ~(e =< glce) /\ e =< lceDisk[n]
  <2>1. ~(glce' = glce)
    BY <1>1, <1>5
  <2>2. AdvanceLCE(s)
    <3>1. \A k \in Shards, f \in Epochs : ~PurgeRecords(k, f)
      BY <2>1 DEF PurgeRecords, recovery
    <3>2. \A k \in Shards : ~WriteLastClean(k)
      BY <2>1 DEF WriteLastClean, recovery
    <3>3. \A P \in SUBSET Shards : ~SettleAndClean(s, P)
      BY <2>1, SettleNow
    <3>4. QED
      BY <2>1, <3>1, <3>2, <3>3, DiskSteps
  <2>3. /\ phase[s] = "clean" /\ part[s] \subseteq cleaned[s] /\ at[s] = glce + 1
        /\ glce' = glce + 1 /\ UNCHANGED <<erm, settled>>
    BY <2>2, AdvanceNow
  <2>4. e = glce + 1 /\ lceDisk[n] >= e
    BY <1>0, <1>1, <1>2, <1>5, <2>3
  <2>5. n \in cleaned[s]
    BY <2>3, <2>4 DEF PartInv
  <2>6. settled[e] > 0 => erm[n][e] # NoErm
    BY <2>3, <2>4, <2>5 DEF OneInv, CleanedInv
  <2>7. QED
    BY <2>3, <2>6 DEF Known
<1>6. QED
  BY <1>3, <1>4, <1>5

LEMMA ShownStep ==
    ASSUME Types, Types', LceInv, NEW s \in Seqs, Seqs = {s}, OneInv(s), Forward(s),
           ShownInv(s), StockInv, [Next]_vars
    PROVE  ShownInv(s)'
<1>0. glce \in Int /\ \A n \in Shards : lceDisk[n] \in Int /\ lceDisk'[n] \in Int
  BY DEF Types, RecoveryTypes, DiskInv
<1>1. SUFFICES ASSUME NEW n \in Shards, NEW e \in Epochs, settled'[e] # -1, Keeper(n, e, s)'
               PROVE  Shown(n, e)'
  BY DEF ShownInv
<1>2. e \in Int
  BY DEF Epochs
<1>3. CASE settled[e] # -1 /\ Keeper(n, e, s)
  BY <1>3, Shrinks DEF ShownInv
<1>4. CASE settled[e] # -1 /\ ~Keeper(n, e, s)
  <2>1. ~UNCHANGED <<lceDisk, glce, part>>
    BY <1>1, <1>4 DEF Keeper
  <2>2. ASSUME NEW P \in SUBSET Shards, SettleAndClean(s, P) PROVE FALSE
    <3>1. /\ at[s] = glce + 1 /\ settled[at[s]] = -1 /\ UNCHANGED <<glce, lceDisk>>
      BY <2>2, SettleNow
    <3>2. QED
      BY <1>1, <1>4, <3>1 DEF Keeper
  <2>3. ASSUME AdvanceLCE(s) PROVE FALSE
    <3>1. glce' = glce + 1 /\ UNCHANGED <<lceDisk, part>>
      BY <2>3, AdvanceNow
    <3>2. e - 1 =< glce
      BY <1>4, SettledNext DEF OneInv
    <3>3. QED
      BY <1>0, <1>1, <1>2, <1>4, <3>1, <3>2 DEF Keeper
  <2>4. PICK k \in Shards : WriteLastClean(k)
    <3>1. \A k \in Shards, f \in Epochs : ~PurgeRecords(k, f)
      BY <2>1 DEF PurgeRecords, recovery
    <3>2. QED
      BY <2>1, <2>2, <2>3, <3>1, DiskSteps
  <2>5. lceDisk' = [lceDisk EXCEPT ![k] = purge[k].new] /\ UNCHANGED <<glce, part>>
    BY <2>4 DEF WriteLastClean, recovery
  <2>6. lceDisk'[n] >= e /\ ~(lceDisk[n] >= e)
    BY <1>1, <1>4, <2>5 DEF Keeper
  <2>7. n = k
    BY <2>5, <2>6 DEF Types, DiskInv
  <2>8. lceDisk[n] < e /\ e =< lceDisk'[n]
    BY <1>0, <1>2, <2>6
  <2>9. /\ purge[n].st = "lce" /\ Active(n)
        /\ e \in Unclean(purge[n]) \/ (e = glce + 1 /\ n \in part[s])
    BY <2>4, <2>7, <2>8, EndsWith
  <2>10. e \in Unclean(purge[n])
    BY <1>4, <2>9 DEF Keeper
  <2>11. Shown(n, e)
    BY <2>9, <2>10 DEF StockInv, Stock
  <2>12. QED
    BY <1>4, <2>11, Shrinks
<1>5. CASE settled[e] = -1
  <2>1. PICK P \in SUBSET Shards : SettleAndClean(s, P)
    <3>1. ~UNCHANGED settled
      BY <1>1, <1>5
    <3>2. \A k \in Shards, f \in Epochs : ~PurgeRecords(k, f)
      BY <3>1 DEF PurgeRecords, recovery
    <3>3. \A k \in Shards : ~WriteLastClean(k)
      BY <3>1 DEF WriteLastClean, recovery
    <3>4. ~AdvanceLCE(s)
      BY <3>1, AdvanceNow
    <3>5. QED
      BY <3>1, <3>2, <3>3, <3>4, DiskSteps
  <2>2. /\ e = at[s] /\ n \in P
    <3>1. /\ \A f \in Epochs : f # at[s] => settled'[f] = settled[f]
          /\ at[s] = glce + 1 /\ \A k \in Shards : lceDisk[k] < at[s]
          /\ part'[s] = P /\ UNCHANGED <<glce, lceDisk>>
      BY <2>1, SettleNow
    <3>2. e = at[s]
      BY <1>1, <1>5, <3>1
    <3>3. QED
      BY <1>0, <1>1, <1>2, <3>1, <3>2 DEF Keeper
  <2>3. PICK good \in 0..2, last \in 0..2 : Settles(s, P, e, good, last)
    BY <1>5, <2>1, <2>2, SettleContent
  <2>4. QED
    BY <2>2, <2>3 DEF Shown, Settles
<1>6. QED
  BY <1>3, <1>4, <1>5

\* What a purge deletes of an epoch lies above its last known good ESN, and
\* nothing that was settled goes from an epoch that is empty.
LEMMA Deletes ==
    ASSUME Types, LceInv, NEW s \in Seqs, Seqs = {s}, OneInv(s), StockInv, Concluded,
           NEW n \in Shards, NEW e \in Epochs, PurgeRecords(n, e)
    PROVE  /\ e \in Unclean(purge[n]) /\ Active(n) /\ ~Keeper(n, e, s) /\ settled[e] # -1
           /\ \A k \in Shards, f \in Epochs : k # n \/ f # e => rec'[k][f] = rec[k][f]
           /\ \/ /\ purge[n].ans[e].st = "OK"
                 /\ rec'[n][e] = {x \in rec[n][e] : x =< out[s][e].lng}
              \/ /\ purge[n].ans[e].st = "EMPTY" /\ settled[e] = 0
                 /\ rec'[n][e] = rec[n][e] \ ToDelete(purge[n], e)
<1>1. /\ purge[n].st = "run" /\ Active(n) /\ e \in purge[n].del /\ e \in Unclean(purge[n])
  BY PurgeRecordsEffect DEF Active
<1>2. ~Keeper(n, e, s) /\ settled[e] # -1
  BY <1>1, PurgeWorksOn
<1>3. PICK D : D = ToDelete(purge[n], e)
  OBVIOUS
<1>4. /\ rec'[n][e] = rec[n][e] \ D
      /\ \A k \in Shards, f \in Epochs : k # n \/ f # e => rec'[k][f] = rec[k][f]
  <2>1. rec' = [rec EXCEPT ![n][e] = @ \ D]
    BY <1>3 DEF PurgeRecords
  <2>2. QED
    BY <2>1 DEF Types, DiskInv
<1>5. purge[n].ans[e] \in Answers /\ purge[n].ans[e] # None
  BY <1>1, PurgeCases DEF WorkType, StockType, Concluded
<1>6. CASE purge[n].ans[e].st = "OK"
  <2>1. purge[n].ans[e].erm = out[s][e]
    BY <1>1, <1>6 DEF OneInv, ShardInv, WorkInv, AnswerInv
  <2>2. D = (out[s][e].lng + 1)..purge[n].last[e]
    BY <1>3, <1>6, <2>1 DEF ToDelete
  <2>3. rec[n][e] \subseteq 1..purge[n].last[e]
    BY <1>1 DEF StockInv, Stock
  <2>4. out[s][e].lng \in 0..2 /\ purge[n].last[e] \in 0..2
    <3>1. out[s][e] \in Erms
      BY DEF Types, RecoveryTypes
    <3>2. QED
      BY <1>1, <3>1, PurgeCases DEF Erms, Esns, WorkType, StockType
  <2>5. rec'[n][e] = {x \in rec[n][e] : x =< out[s][e].lng}
    BY <1>4, <2>2, <2>3, <2>4
  <2>6. QED
    BY <1>1, <1>2, <1>4, <1>6, <2>5
<1>7. CASE purge[n].ans[e].st = "EMPTY"
  <2>1. settled[e] = 0
    BY <1>1, <1>7 DEF StockInv, Stock
  <2>2. QED
    BY <1>1, <1>2, <1>3, <1>4, <1>7, <2>1
<1>8. QED
  BY <1>5, <1>6, <1>7 DEF Answers

\* A record that is kept stays so.
LEMMA KeptStays ==
    ASSUME Types, LceInv, NEW s \in Seqs, Seqs = {s}, OneInv(s), Forward(s), StockInv,
           Concluded, [Next]_vars, NEW e \in Epochs, NEW x, Kept(e, x, s),
           \/ settled[e] # -1 /\ x \in 1..settled[e]
           \/ settled[e] = -1 /\ settled'[e] = -1
    PROVE  Kept(e, x, s)'
<1>1. PICK c \in CopySets : \A n \in c :
        /\ x \in rec[n][e]
        /\ settled[e] = -1 \/ x =< out[s][e].lng \/ Keeper(n, e, s)
  BY DEF Kept
<1>2. c \subseteq Shards
  BY PurgingAssumption
<1>3. SUFFICES ASSUME NEW n \in c
               PROVE  /\ x \in rec'[n][e]
                      /\ settled'[e] = -1 \/ x =< out'[s][e].lng \/ Keeper(n, e, s)'
  BY DEF Kept
<1>4. n \in Shards
  BY <1>2
<1>5. settled'[e] = -1 \/ x =< out'[s][e].lng \/ Keeper(n, e, s)'
  BY <1>1, <1>4 DEF Forward
<1>6. ASSUME NEW k \in Shards, NEW f \in Epochs, PurgeRecords(k, f) PROVE x \in rec'[n][e]
  <2>1. CASE k # n \/ f # e
    BY <1>1, <1>4, <1>6, <2>1, Deletes
  <2>2. CASE k = n /\ f = e
    <3>1. /\ ~Keeper(n, e, s) /\ settled[e] # -1
          /\ \/ rec'[n][e] = {y \in rec[n][e] : y =< out[s][e].lng}
             \/ settled[e] = 0
      BY <1>6, <2>2, Deletes
    <3>2. x =< out[s][e].lng /\ x \in 1..settled[e]
      BY <1>1, <3>1
    <3>3. QED
      BY <1>1, <3>1, <3>2
  <2>3. QED
    BY <2>1, <2>2
<1>7. ASSUME NEW P \in SUBSET Shards, SettleAndClean(s, P) PROVE x \in rec'[n][e]
  <2>1. /\ settled[at[s]] = -1 /\ at[s] \in Epochs
        /\ \A k \in Shards, f \in Epochs : f # at[s] => rec'[k][f] = rec[k][f]
    BY <1>7, SettleNow
  <2>2. e # at[s]
    <3>1. SUFFICES ASSUME e = at[s] PROVE FALSE
      OBVIOUS
    <3>2. \E good \in 0..2, last \in 0..2 : settled'[e] = last
      BY <1>7, <2>1, <3>1, SettleContent DEF Settles
    <3>3. settled[e] = -1 /\ settled'[e] = -1
      BY <2>1, <3>1
    <3>4. QED
      BY <3>2, <3>3
  <2>3. QED
    BY <1>1, <1>4, <2>1, <2>2
<1>8. ASSUME UNCHANGED rec PROVE x \in rec'[n][e]
  BY <1>1, <1>8
<1>9. x \in rec'[n][e]
  BY <1>6, <1>7, <1>8, DiskSteps, AdvanceNow DEF WriteLastClean
<1>10. QED
  BY <1>5, <1>9

\* Settling an epoch keeps its good records, and stores the others on all
\* participants.
LEMMA KeptBySettling ==
    ASSUME Types, NEW s \in Seqs, Seqs = {s}, OneInv(s), KeptInv(s),
           NEW P \in SUBSET Shards, SettleAndClean(s, P), NEW e \in Epochs, e = at[s]
    PROVE  /\ \A x \in 1..settled'[e] : Kept(e, x, s)'
           /\ \A n \in Shards : lng[n][e] =< settled'[e]
           /\ settled'[e] # -1
<1>1. /\ settled[e] = -1 /\ e = glce + 1 /\ part'[s] = P /\ UNCHANGED glce
  BY SettleNow
<1>2. PICK good \in 0..2, last \in 0..2 : Settles(s, P, e, good, last)
  BY <1>1, SettleContent
<1> USE <1>2 DEF Settles
<1>3. PICK m \in P : good = lng[m][e]
  OBVIOUS
<1>4. /\ \A x \in 1..good : \E c \in CopySets : \A n \in c : x \in rec[n][e]
      /\ \A n \in Shards : \A x \in 1..lng[n][e] :
            \E c \in CopySets : \A k \in c : x \in rec[k][e]
  BY <1>1, <1>3 DEF KeptInv, Kept
<1>5. ASSUME NEW x \in 1..last PROVE Kept(e, x, s)'
  <2>1. CASE x =< good
    <3>1. x \in 1..good
      BY <1>2, <2>1
    <3>2. PICK c \in CopySets : \A n \in c : x \in rec[n][e]
      BY <1>4, <3>1
    <3>3. \A n \in c : x \in rec'[n][e]
      BY <1>2, <3>1, <3>2, PurgingAssumption
    <3>4. QED
      BY <1>2, <2>1, <3>3 DEF Kept
  <2>2. CASE ~(x =< good)
    <3>1. PICK c \in CopySets : c \subseteq P
      BY DEF SettleAndClean
    <3>2. x \in (good + 1)..last
      BY <1>2, <2>2
    <3>3. \A n \in c : x \in rec'[n][e] /\ Keeper(n, e, s)'
      BY <1>1, <1>2, <3>1, <3>2 DEF Keeper
    <3>4. QED
      BY <3>3 DEF Kept
  <2>3. QED
    BY <2>1, <2>2
<1>6. ASSUME NEW n \in Shards PROVE lng[n][e] =< last
  <2>1. lng[n][e] \in 0..2
    BY DEF Types, DiskInv
  <2>2. CASE lng[n][e] = 0
    BY <1>2, <2>2
  <2>3. CASE lng[n][e] # 0
    <3>1. lng[n][e] \in 1..lng[n][e]
      BY <2>1, <2>3
    <3>2. PICK c \in CopySets : \A k \in c : lng[n][e] \in rec[k][e]
      BY <1>4, <3>1
    <3>3. PICK k \in P : k \in c
      BY DEF SettleAndClean, FMajority
    <3>4. lng[n][e] \in 1..last
      BY <1>2, <3>2, <3>3
    <3>5. QED
      BY <1>2, <3>4
  <2>4. QED
    BY <2>2, <2>3
<1>7. QED
  BY <1>2, <1>5, <1>6

LEMMA KeptStep ==
    ASSUME Types, LceInv, NEW s \in Seqs, Seqs = {s}, OneInv(s), Forward(s), StockInv,
           Concluded, KeptInv(s), [Next]_vars
    PROVE  KeptInv(s)'
<1>0. UNCHANGED lng
  BY DiskSteps
<1>1. SUFFICES ASSUME NEW e \in Epochs
               PROVE  /\ \A x \in 1..settled'[e] : Kept(e, x, s)'
                      /\ settled'[e] = -1 => \A n \in Shards : \A x \in 1..lng[n][e] :
                            Kept(e, x, s)'
                      /\ settled'[e] # -1 => \A n \in Shards : lng[n][e] =< settled'[e]
  BY <1>0 DEF KeptInv
<1>2. /\ \A x \in 1..settled[e] : Kept(e, x, s)
      /\ settled[e] = -1 => \A n \in Shards : \A x \in 1..lng[n][e] : Kept(e, x, s)
      /\ settled[e] # -1 => \A n \in Shards : lng[n][e] =< settled[e]
  BY DEF KeptInv
<1>3. CASE settled[e] # -1
  <2>1. settled'[e] = settled[e]
    BY <1>3 DEF Forward
  <2>2. \A x \in 1..settled[e] : Kept(e, x, s)'
    BY <1>2, <1>3, KeptStays
  <2>3. QED
    BY <1>2, <1>3, <2>1, <2>2
<1>4. CASE settled[e] = -1 /\ settled'[e] = -1
  <2>1. \A n \in Shards : \A x \in 1..lng[n][e] : Kept(e, x, s)'
    BY <1>2, <1>4, KeptStays
  <2>2. QED
    BY <1>4, <2>1
<1>5. CASE settled[e] = -1 /\ settled'[e] # -1
  <2>1. PICK P \in SUBSET Shards : SettleAndClean(s, P)
    <3>1. ~UNCHANGED settled
      BY <1>5
    <3>2. \A k \in Shards, f \in Epochs : ~PurgeRecords(k, f)
      BY <3>1 DEF PurgeRecords, recovery
    <3>3. \A k \in Shards : ~WriteLastClean(k)
      BY <3>1 DEF WriteLastClean, recovery
    <3>4. ~AdvanceLCE(s)
      BY <3>1, AdvanceNow
    <3>5. QED
      BY <3>1, <3>2, <3>3, <3>4, DiskSteps
  <2>2. e = at[s]
    BY <1>5, <2>1, SettleNow
  <2>3. QED
    BY <1>5, <2>1, <2>2, KeptBySettling
<1>6. QED
  BY <1>3, <1>4, <1>5

\* The steps by which the purge of a shard gets on; any other leaves it, ends
\* it, or starts one that has nothing to purge or is yet to seal.
LEMMA PurgeSteps ==
    ASSUME Types, NEW s \in Seqs, Seqs = {s}, [Next]_vars, NEW n \in Shards
    PROVE  \/ purge'[n] = purge[n]
           \/ purge'[n].st \in {"idle", "seal", "sync"}
           \/ purge'[n].st = "lce" /\ Unclean(purge'[n]) = {}
           \/ PurgeSeal(n)
           \/ \E m \in Shards : AskErm(n, m)
           \/ \E e \in Epochs : PurgeRecords(n, e) \/ PurgeWriteErm(n, e)
<1> DEFINE Calm == \/ purge'[n] = purge[n]
                   \/ purge'[n].st \in {"idle", "seal", "sync"}
                   \/ purge'[n].st = "lce" /\ Unclean(purge'[n]) = {}
<1>1. ASSUME NEW to \in 0..MaxEpoch, NEW new, NEW token,
             purge' = [purge EXCEPT ![n] = NewPurge(n, to, new, token)]
      PROVE  Calm
  <2>1. purge'[n] = NewPurge(n, to, new, token)
    BY <1>1 DEF Types, PurgeInv
  <2>2. /\ purge'[n].st = IF lce[n] >= to THEN "lce" ELSE "seal"
        /\ purge'[n].from = lce[n] /\ purge'[n].to = to
    BY <2>1 DEF NewPurge
  <2>3. lce[n] \in Int
    BY DEF Types, MemoryInv
  <2>4. lce[n] >= to => Unclean(purge'[n]) = {}
    BY <2>2, <2>3 DEF Unclean
  <2>5. QED
    BY <2>2, <2>4
<1>2. ASSUME purge' = [purge EXCEPT ![n] = Idle] PROVE Calm
  BY <1>2 DEF Types, PurgeInv, Idle
<1>3. ASSUME UNCHANGED purge PROVE Calm
  BY <1>3
<1>4. ASSUME NEW m \in pending[n], BufferClean(n, m) PROVE Calm
  <2>1. m.e - 1 \in 0..MaxEpoch
    BY <1>4, SeqsRange DEF BufferClean, CleanMsgs, Epochs
  <2>2. PICK to \in 0..MaxEpoch : to = m.e - 1
    BY <2>1
  <2>3. \/ UNCHANGED purge
        \/ purge' = [purge EXCEPT ![n] = Idle]
        \/ purge' = [purge EXCEPT ![n] = NewPurge(n, to, m.e, FALSE)]
    BY <1>4, <2>2 DEF BufferClean, Replay, Types, PurgeInv
  <2> HIDE DEF Calm
  <2>4. PICK new, token : new = m.e /\ token = FALSE
    OBVIOUS
  <2>5. purge' = [purge EXCEPT ![n] = NewPurge(n, to, new, token)] => Calm
    BY <1>1
  <2>6. QED
    BY <1>2, <1>3, <2>3, <2>4, <2>5
<1>5. ASSUME NEW m \in pending[n], BufferRelease(n, m) PROVE Calm
  <2>1. m.e - 1 \in 0..MaxEpoch
    BY <1>5, SeqsRange DEF BufferRelease, ReleaseMsgs
  <2>2. PICK to \in 0..MaxEpoch : to = m.e - 1
    BY <2>1
  <2>3. \/ UNCHANGED purge
        \/ purge' = [purge EXCEPT ![n] = Idle]
        \/ purge' = [purge EXCEPT ![n] = NewPurge(n, to, to, TRUE)]
    BY <1>5, <2>2 DEF BufferRelease, Replay, Types, PurgeInv
  <2> HIDE DEF Calm
  <2>4. PICK token : token = TRUE
    OBVIOUS
  <2>5. purge' = [purge EXCEPT ![n] = NewPurge(n, to, to, token)] => Calm
    BY <1>1
  <2>6. QED
    BY <1>2, <1>3, <2>3, <2>4, <2>5
<1>6. ASSUME WriteLastClean(n) PROVE Calm
  <2>1. PICK q : purge' = [purge EXCEPT ![n] = q] /\ PurgeType(q) /\ q.st = "sync"
    BY <1>6, WriteLastCleanEffect
  <2>2. QED
    BY <2>1, NewPurgeInv
<1>7. ASSUME LastCleanDone(n) \/ TaskFails(n) \/ Crash(n) PROVE Calm
  BY <1>2, <1>7 DEF LastCleanDone, TaskFails, Crash, Replay
<1>8. ASSUME \/ \E m \in inbox[n] : AnswerClean(n, m) \/ DoRelease(n, m) \/ MustPurge(n, m)
             \/ \E r \in replies[n] : WriteCleaned(n, r)
             \/ OtherPurgeStarts(n) \/ OtherPurgeEnds(n)
      PROVE  Calm
  BY <1>3, <1>8 DEF AnswerClean, DoRelease, MustPurge, WriteCleaned, OtherPurgeStarts,
                    OtherPurgeEnds, coordinator
<1>9. ASSUME RecoveryNext(s) \/ UNCHANGED vars PROVE Calm
  BY <1>3, <1>9 DEF RecoveryNext, StartRecovery, SealShard, SendClean, SendRelease,
        Receive, SettleAndClean, AdvanceLCE, vars, coordinator
<1>10. ASSUME NEW k \in Shards, k # n, ShardNext(k) PROVE Calm
  BY <1>10, StandsByStep DEF StandsBy
<1> HIDE DEF Calm
<1>11. \/ Calm
       \/ PurgeSeal(n)
       \/ \E m \in Shards : AskErm(n, m)
       \/ \E e \in Epochs : PurgeRecords(n, e) \/ PurgeWriteErm(n, e)
  BY <1>4, <1>5, <1>6, <1>7, <1>8, <1>9, <1>10 DEF Next, ShardNext
<1>12. QED
  BY <1>11 DEF Calm

\* A shard that holds an epoch for clean and has no metadata of it knows that
\* the epoch is empty.
LEMMA EmptyIsEmpty ==
    ASSUME Types, LceInv, NEW s \in Seqs, OneInv(s), KnownInv, NEW m \in Shards,
           NEW e \in Epochs, e =< glce, AnswerFor(m, e).st = "EMPTY"
    PROVE  settled[e] = 0
<1>1. ~(lce[m] < e) /\ erm[m][e] = NoErm
  BY DEF AnswerFor, None
<1>2. e =< lceDisk[m]
  BY <1>1, LceOrder DEF Epochs
<1>3. ~(settled[e] > 0) /\ settled[e] # -1
  BY <1>1, <1>2 DEF KnownInv, Known, OneInv, ProgressInv
<1>4. QED
  BY <1>3 DEF Types, RecoveryTypes

LEMMA AskErmStock ==
    ASSUME Types, Types', LceInv, NEW s \in Seqs, Seqs = {s}, OneInv(s), KnownInv, StockInv,
           Concluded', NEW n \in Shards, NEW m \in Shards, AskErm(n, m),
           NEW e \in Unclean(purge'[n])
    PROVE  Stock(n, e)'
<1>1. PICK q : /\ purge' = [purge EXCEPT ![n] = q]
               /\ PurgeType(q) /\ Same(purge[n], q)
               /\ q.st \in {"erm", "run", "lce"}
               /\ q.last = purge[n].last /\ q.lng = purge[n].lng
               /\ q.ans = Heard(purge[n], m)
               /\ q.st # "erm" =>
                      /\ q.del = ToPurge(purge[n], q.ans) /\ q.write = {}
                      /\ q.st = "lce" <=> q.del = {}
  BY AskErmEffect
<1>2. /\ purge[n].st = "erm" /\ Active(n) /\ UNCHANGED <<rec, lng, erm, settled>>
  BY AskErmEffect DEF AskErm, Active, disk, recovery
<1>3. purge'[n] = q
  BY <1>1, NewPurgeInv
<1>4. e \in Unclean(purge[n])
  BY <1>1, <1>3 DEF Same, Unclean
<1>5. /\ rec[n][e] \subseteq 1..purge[n].last[e]
      /\ purge[n].lng[e] = lng[n][e]
      /\ purge[n].ans[e].st = "EMPTY" => settled[e] = 0
  BY <1>2, <1>4 DEF StockInv, Stock
<1>6. e \in Epochs /\ e =< glce /\ settled[e] # -1
  BY <1>2, <1>4, PurgeWorksOn
<1>7. q.ans[e].st = "EMPTY" => settled[e] = 0
  <2>1. q.ans[e] = Merge(purge[n].ans[e], AnswerFor(m, e))
    BY <1>1, <1>4 DEF Heard
  <2>2. q.ans[e] = purge[n].ans[e] \/ q.ans[e] = AnswerFor(m, e)
    BY <2>1 DEF Merge
  <2>3. AnswerFor(m, e).st = "EMPTY" => settled[e] = 0
    BY <1>6, EmptyIsEmpty
  <2>4. QED
    BY <1>5, <2>2, <2>3
<1>8. q.st # "erm" /\ e \notin q.del => Shown(n, e) /\ Known(n, e)
  <2>1. SUFFICES ASSUME q.st # "erm", e \notin q.del PROVE Shown(n, e) /\ Known(n, e)
    OBVIOUS
  <2>2. q.ans[e] # None
    <3>1. purge'[n].ans[e] # None
      BY <1>1, <1>3, <2>1 DEF Concluded
    <3>2. QED
      BY <1>3, <3>1
  <2>3. q.ans[e] \in Answers
    <3>1. WorkType(q)
      BY <1>1, <1>3, <1>4, <2>1 DEF PurgeType, Idle
    <3>2. QED
      BY <1>3, <3>1 DEF WorkType, StockType
  <2>4. ~(q.ans[e].st = "OK" \/ (q.ans[e].st = "EMPTY" /\ purge[n].last[e] > 0))
    BY <1>1, <1>4, <2>1 DEF ToPurge
  <2>5. q.ans[e].st = "EMPTY" /\ ~(purge[n].last[e] > 0)
    BY <2>2, <2>3, <2>4 DEF Answers
  <2>6. purge[n].last[e] = 0
    <3>1. purge[n].last[e] \in 0..2
      BY <1>2, <1>4, PurgeCases DEF StockType
    <3>2. QED
      BY <2>5, <3>1
  <2>7. rec[n][e] = {} /\ settled[e] = 0
    BY <1>5, <1>7, <2>5, <2>6
  <2>8. QED
    BY <2>7 DEF Shown, Known
<1>9. /\ q.st = "erm" => /\ rec[n][e] \subseteq 1..q.last[e]
                         /\ q.lng[e] = lng[n][e]
      /\ q.st = "run" => (e \in q.del => /\ rec[n][e] \subseteq 1..q.last[e]
                                         /\ q.lng[e] = lng[n][e])
      /\ q.st = "lce" => e \notin q.del
  BY <1>1, <1>5
<1>10. Shown(n, e)' = Shown(n, e) /\ Known(n, e)' = Known(n, e)
  BY <1>2 DEF Shown, Known
<1>11. QED
  BY <1>2, <1>3, <1>7, <1>8, <1>9, <1>10 DEF Stock

LEMMA PurgeRecordsStock ==
    ASSUME Types, Types', LceInv, NEW s \in Seqs, Seqs = {s}, OneInv(s), Forward(s),
           KeptInv(s), StockInv, Concluded, [Next]_vars, NEW n \in Shards, NEW f \in Epochs,
           PurgeRecords(n, f), NEW e \in Unclean(purge'[n])
    PROVE  Stock(n, e)'
<1>1. PICK q : /\ purge' = [purge EXCEPT ![n] = q]
               /\ PurgeType(q) /\ Same(purge[n], q)
               /\ q.last = purge[n].last /\ q.lng = purge[n].lng
               /\ q.ans = purge[n].ans /\ q.del = purge[n].del \ {f}
               /\ q.write = IF purge[n].ans[f].st = "OK"
                            THEN purge[n].write \cup {f} ELSE purge[n].write
               /\ q.st = IF q.del \cup q.write = {} THEN "lce" ELSE "run"
  BY PurgeRecordsEffect
<1>2. /\ purge[n].st = "run" /\ Active(n) /\ f \in purge[n].del
      /\ UNCHANGED <<lng, erm, settled>>
  BY PurgeRecordsEffect DEF PurgeRecords, Active, recovery
<1>3. purge'[n] = q
  BY <1>1, NewPurgeInv
<1>4. e \in Unclean(purge[n])
  BY <1>1, <1>3 DEF Same, Unclean
<1>5. e \in Epochs /\ settled[e] # -1
  BY <1>2, <1>4, PurgeWorksOn
<1>6. Stock(n, e)
  BY <1>2, <1>4 DEF StockInv
<1>7. CASE e # f
  <2>1. /\ rec'[n][e] = rec[n][e]
    BY <1>5, <1>7, Deletes
  <2>2. Shown(n, e)' = Shown(n, e) /\ Known(n, e)' = Known(n, e)
    BY <1>2, <2>1 DEF Shown, Known
  <2>3. /\ e \in q.del <=> e \in purge[n].del
        /\ e \in q.write <=> e \in purge[n].write
    BY <1>1, <1>7
  <2>4. q.st = "run" \/ (q.st = "lce" /\ e \notin q.del \cup q.write)
    BY <1>1
  <2>5. QED
    BY <1>1, <1>2, <1>3, <1>6, <2>1, <2>2, <2>3, <2>4 DEF Stock
<1>8. CASE e = f
  <2>1. \/ /\ purge[n].ans[e].st = "OK"
           /\ rec'[n][e] = {x \in rec[n][e] : x =< out[s][e].lng}
        \/ /\ purge[n].ans[e].st = "EMPTY" /\ settled[e] = 0
           /\ rec'[n][e] = rec[n][e] \ ToDelete(purge[n], e)
    BY <1>8, Deletes
  <2>2. /\ rec[n][e] \subseteq 1..purge[n].last[e] /\ purge[n].lng[e] = lng[n][e]
        /\ rec[n][e] \subseteq Esns /\ lng[n][e] \in 0..2 /\ settled[e] \in (-1)..2
    BY <1>2, <1>5, <1>6, <1>8 DEF Stock, Types, DiskInv, RecoveryTypes
  <2>3. Shown(n, e)'
    <3>1. CASE purge[n].ans[e].st = "OK"
      <4>1. out[s][e].lng =< settled[e] /\ out[s][e] \in Erms
        BY <1>5 DEF OneInv, OutInv, Types, RecoveryTypes
      <4>2. out[s][e].lng \in 0..2
        BY <4>1 DEF Erms, Esns
      <4>3. \A x \in rec'[n][e] : x \in Esns /\ x =< out[s][e].lng
        BY <2>1, <2>2, <3>1
      <4>4. rec'[n][e] \subseteq 1..settled[e]
        BY <2>2, <4>1, <4>2, <4>3 DEF Esns
      <4>5. QED
        BY <1>2, <4>4 DEF Shown
    <3>2. CASE purge[n].ans[e].st # "OK"
      <4>1. /\ settled[e] = 0 /\ rec'[n][e] = rec[n][e] \ ToDelete(purge[n], e)
        BY <2>1, <3>2
      <4>2. lng[n][e] =< settled[e]
        BY <1>5 DEF KeptInv
      <4>3. purge[n].lng[e] = 0
        BY <2>2, <4>1, <4>2
      <4>4. ToDelete(purge[n], e) = 1..purge[n].last[e]
        BY <3>2, <4>3 DEF ToDelete
      <4>5. rec'[n][e] = {}
        BY <2>2, <4>1, <4>4
      <4>6. QED
        BY <4>5 DEF Shown
    <3>3. QED
      BY <3>1, <3>2
  <2>4. e \notin q.del /\ (e \notin q.write => settled[e] = 0)
    BY <1>1, <1>8, <2>1
  <2>5. purge[n].ans[e].st = "EMPTY" => settled[e] = 0
    BY <1>2, <1>6 DEF Stock
  <2>6. e \notin q.write => Known(n, e)'
    BY <1>2, <2>4 DEF Known
  <2>7. q.st = "run" \/ (q.st = "lce" /\ e \notin q.write)
    BY <1>1
  <2>8. QED
    BY <1>1, <1>2, <1>3, <2>3, <2>4, <2>5, <2>6, <2>7 DEF Stock
<1>9. QED
  BY <1>7, <1>8

LEMMA PurgeWriteErmStock ==
    ASSUME Types, Types', LceInv, NEW s \in Seqs, Seqs = {s}, OneInv(s), Forward(s),
           StockInv, NEW n \in Shards, NEW f \in Epochs, PurgeWriteErm(n, f),
           NEW e \in Unclean(purge'[n])
    PROVE  Stock(n, e)'
<1>1. PICK q : /\ purge' = [purge EXCEPT ![n] = q]
               /\ PurgeType(q) /\ Same(purge[n], q)
               /\ q.last = purge[n].last /\ q.lng = purge[n].lng
               /\ q.ans = purge[n].ans /\ q.del = purge[n].del
               /\ q.write = purge[n].write \ {f}
               /\ q.st = IF q.del \cup q.write = {} THEN "lce" ELSE "run"
  BY PurgeWriteErmEffect
<1>2. /\ purge[n].st = "run" /\ Active(n) /\ f \in purge[n].write
      /\ UNCHANGED <<rec, lng, settled>>
  BY PurgeWriteErmEffect DEF PurgeWriteErm, Active, recovery
<1>3. purge'[n] = q
  BY <1>1, NewPurgeInv
<1>4. e \in Unclean(purge[n])
  BY <1>1, <1>3 DEF Same, Unclean
<1>5. e \in Epochs /\ settled[e] # -1
  BY <1>2, <1>4, PurgeWorksOn
<1>6. Stock(n, e)
  BY <1>2, <1>4 DEF StockInv
<1>7. Shown(n, e)' = Shown(n, e) /\ (Known(n, e) => Known(n, e)')
  BY <1>2, <1>5 DEF Shown, Known, Forward
<1>8. e = f => Known(n, e)'
  <2>1. SUFFICES ASSUME e = f PROVE Known(n, e)'
    OBVIOUS
  <2>2. settled[e] > 0 /\ erm'[n][e] = out[s][e]
    BY <2>1, PurgeWriteErmErm
  <2>3. out[s][e].seq = s
    BY <1>5 DEF OneInv, OutInv
  <2>4. erm'[n][e] # NoErm
    BY <2>2, <2>3, SeqsRange DEF NoErm
  <2>5. QED
    BY <2>4 DEF Known
<1>9. /\ e \in q.del <=> e \in purge[n].del
      /\ e # f => (e \in q.write <=> e \in purge[n].write)
      /\ q.st = "run" \/ (q.st = "lce" /\ e \notin q.del \cup q.write)
  BY <1>1
<1>10. QED
  BY <1>1, <1>2, <1>3, <1>6, <1>7, <1>8, <1>9 DEF Stock

LEMMA StockStep ==
    ASSUME Types, Types', LceInv, NEW s \in Seqs, Seqs = {s}, OneInv(s), Forward(s),
           ContentInv(s), Concluded, Concluded', [Next]_vars
    PROVE  StockInv'
<1> USE DEF ContentInv
<1>1. SUFFICES ASSUME NEW n \in Shards, Active(n)', NEW e \in Unclean(purge'[n])
               PROVE  Stock(n, e)'
  BY DEF StockInv
<1>2. CASE purge'[n] = purge[n]
  <2>1. Active(n) /\ e \in Unclean(purge[n]) /\ Stock(n, e)
    BY <1>1, <1>2 DEF StockInv, Active
  <2>2. e \in Epochs /\ settled[e] # -1
    BY <2>1, PurgeWorksOn
  <2>3. /\ rec'[n][e] \subseteq rec[n][e] /\ settled'[e] = settled[e]
        /\ Shown(n, e) => Shown(n, e)'
        /\ Known(n, e) => Known(n, e)'
    BY <2>2, Shrinks
  <2>4. UNCHANGED lng
    BY DiskSteps
  <2>5. QED
    BY <1>2, <2>1, <2>3, <2>4 DEF Stock
<1>3. CASE purge'[n].st \in {"idle", "seal", "sync"}
  BY <1>3 DEF Stock
<1>4. ASSUME PurgeSeal(n) PROVE Stock(n, e)'
  <2>1. PICK q : /\ purge' = [purge EXCEPT ![n] = q]
                 /\ PurgeType(q) /\ q.st = "erm" /\ Same(purge[n], q)
                 /\ q.last = [d \in Unclean(purge[n]) |-> Last(rec[n][d])]
                 /\ q.lng = [d \in Unclean(purge[n]) |-> lng[n][d]]
                 /\ q.ans = [d \in Unclean(purge[n]) |-> None]
    BY <1>4, PurgeSealEffect
  <2>2. purge'[n] = q
    BY <2>1, NewPurgeInv
  <2>3. e \in Unclean(purge[n]) /\ Active(n) /\ UNCHANGED <<rec, lng>>
    BY <1>1, <1>4, <2>1, <2>2 DEF Same, Unclean, PurgeSeal, Active
  <2>4. e \in Epochs
    BY <2>3, PurgeCases
  <2>5. rec[n][e] \subseteq 1..Last(rec[n][e])
    <3>1. PICK S : S = rec[n][e]
      OBVIOUS
    <3>2. S \subseteq Esns
      BY <2>4, <3>1 DEF Types, DiskInv
    <3>3. S \subseteq 1..Last(S)
      BY <3>2, LastOf
    <3>4. QED
      BY <3>1, <3>3
  <2>6. /\ q.last[e] = Last(rec[n][e]) /\ q.lng[e] = lng[n][e] /\ q.ans[e].st # "EMPTY"
    BY <2>1, <2>3 DEF None
  <2>7. QED
    BY <2>1, <2>2, <2>3, <2>5, <2>6 DEF Stock
<1>5. ASSUME NEW m \in Shards, AskErm(n, m) PROVE Stock(n, e)'
  BY <1>5, AskErmStock
<1>6. ASSUME NEW f \in Epochs, PurgeRecords(n, f) PROVE Stock(n, e)'
  BY <1>6, PurgeRecordsStock
<1>7. ASSUME NEW f \in Epochs, PurgeWriteErm(n, f) PROVE Stock(n, e)'
  BY <1>7, PurgeWriteErmStock
<1>8. QED
  BY <1>1, <1>2, <1>3, <1>4, <1>5, <1>6, <1>7, PurgeSteps

LEMMA ContentInit ==
    ASSUME NEW s \in Seqs, Init
    PROVE  ContentInv(s)
<1>1. \A e \in Epochs : e \in Int /\ e >= 1
  BY SeqsRange DEF Epochs
<1>2. /\ glce = 0 /\ \A n \in Shards : lceDisk[n] = 0 /\ ~Active(n)
      /\ \A e \in Epochs : settled[e] = -1
  BY DEF Init, Active, Idle
<1>3. PartInv(s) /\ KnownInv /\ ShownInv(s) /\ StockInv
  BY <1>1, <1>2 DEF PartInv, KnownInv, ShownInv, StockInv
<1>4. ASSUME NEW e \in Epochs, NEW n \in Shards, NEW x \in 1..lng[n][e]
      PROVE  Kept(e, x, s)
  <2>1. PICK one, two \in SUBSET Shards, good \in 0..1 :
        /\ one \in CopySets \/ (two = {} /\ \E c \in CopySets : one \subseteq c)
        /\ good = 1 => two # {}
        /\ \E c \in CopySets : two \subseteq c /\ two # c
        /\ rec = [m \in Shards |-> [f \in Epochs |->
                    IF f # 1 THEN {}
                    ELSE {y \in Esns : m \in IF y = 1 THEN one ELSE two}]]
        /\ lng = [m \in Shards |-> [f \in Epochs |->
                    IF f = 1 /\ m \in two THEN good ELSE 0]]
    BY Zenon DEF Init
  <2>2. lng[n][e] = IF e = 1 /\ n \in two THEN good ELSE 0
    BY <2>1
  <2>3. e = 1 /\ n \in two /\ good = 1 /\ x = 1
    BY <2>2
  <2>4. one \in CopySets
    BY <2>1, <2>3
  <2>5. \A k \in one : x \in rec[k][e]
    BY <2>1, <2>3 DEF Esns
  <2>6. QED
    BY <1>2, <2>4, <2>5 DEF Kept
<1>5. KeptInv(s)
  BY <1>2, <1>4 DEF KeptInv
<1>6. QED
  BY <1>3, <1>5 DEF ContentInv

LEMMA ContentStep ==
    ASSUME Types, Types', LceInv, NEW s \in Seqs, Seqs = {s}, OneInv(s), ContentInv(s),
           Concluded, Concluded', [Next]_vars
    PROVE  ContentInv(s)'
<1>1. Forward(s)
  BY ForwardStep
<1>2. PartInv(s)'
  BY PartStep DEF ContentInv
<1>3. KnownInv'
  BY <1>1, KnownStep DEF ContentInv
<1>4. ShownInv(s)'
  BY <1>1, ShownStep DEF ContentInv
<1>5. KeptInv(s)'
  BY <1>1, KeptStep DEF ContentInv
<1>6. StockInv'
  BY <1>1, StockStep
<1>7. QED
  BY <1>2, <1>3, <1>4, <1>5, <1>6 DEF ContentInv

LEMMA ContentInvariant ==
    ASSUME NEW s, Seqs = {s}
    PROVE  Spec /\ []Concluded => []ContentInv(s)
<1>1. s \in Seqs
  OBVIOUS
<1>2. Init => ContentInv(s)
  BY <1>1, ContentInit
<1>3. /\ Types /\ Types' /\ LceInv /\ OneInv(s) /\ ContentInv(s)
      /\ Concluded /\ Concluded' /\ [Next]_vars
      => ContentInv(s)'
  BY <1>1, ContentStep
<1>4. Spec => []OneInv(s)
  BY OneInvariant
<1>5. QED
  BY <1>2, <1>3, <1>4, TypesInvariant, PTL DEF Spec

\* As long as one sequencer recovers the log and every purge gets an answer
\* for each of its epochs, no purge takes a settled record from its copyset:
\* PurgeSingleEpoch deletes above the last known good ESN only, and on no shard
\* that took part in the recovery of the epoch.
THEOREM SettledStaysReplicated ==
    ASSUME SingleRecovery
    PROVE  Spec /\ []Concluded => []SettledReplicated
<1>1. PICK s : Seqs = {s}
  BY DEF SingleRecovery
<1>2. Spec /\ []Concluded => []ContentInv(s)
  BY <1>1, ContentInvariant
<1>3. ContentInv(s) => SettledReplicated
  BY DEF ContentInv, KeptInv, Kept, SettledReplicated
<1>4. QED
  BY <1>2, <1>3, PTL

\* Under the same conditions a shard that holds an epoch for clean has no
\* record of it that recovery did not settle on: PurgeUncleanEpochs writes the
\* last clean epoch after the deletions of all epochs up to it.
THEOREM CleanShowsOnlySettled ==
    ASSUME SingleRecovery
    PROVE  Spec /\ []Concluded => []CleanShowsSettled
<1>1. PICK s : Seqs = {s}
  BY DEF SingleRecovery
<1>2. Spec /\ []Concluded => []ContentInv(s)
  BY <1>1, ContentInvariant
<1>3. Spec => []OneInv(s)
  BY <1>1, OneInvariant
<1>4. ASSUME Types, LceInv, OneInv(s), ContentInv(s) PROVE CleanShowsSettled
  <2>1. SUFFICES ASSUME NEW n \in Shards, NEW e \in Epochs, e =< lce[n]
                 PROVE  rec[n][e] \subseteq 1..settled[e]
    BY DEF CleanShowsSettled
  <2>2. e =< lceDisk[n] /\ lceDisk[n] >= e
    BY <1>4, <2>1, LceOrder DEF Epochs
  <2>3. settled[e] # -1
    BY <1>4, <2>2 DEF OneInv, ShardInv, WorkInv, SettledInv
  <2>4. QED
    BY <1>4, <2>2, <2>3 DEF ContentInv, ShownInv, Keeper, Shown
<1>5. QED
  BY <1>2, <1>3, <1>4, TypesInvariant, PTL

\* Under the same conditions, what a RELEASE lets readers see of an earlier
\* epoch is what recovery settled on: PurgeCoordinator holds the RELEASE back
\* until the epochs before it are clean on the shard.
THEOREM ReleasedIsSettled ==
    ASSUME SingleRecovery
    PROVE  Spec /\ []Concluded => []ReleasedSettled
<1>1. PICK s : Seqs = {s}
  BY DEF SingleRecovery
<1>2. Spec /\ []Concluded => []ContentInv(s)
  BY <1>1, ContentInvariant
<1>3. Spec => []OneInv(s)
  BY <1>1, OneInvariant
<1>4. ASSUME Types, LceInv, OneInv(s), ContentInv(s) PROVE ReleasedSettled
  <2>1. SUFFICES ASSUME NEW n \in Shards, NEW e \in Epochs, e < released[n]
                 PROVE  e =< glce /\ rec[n][e] \subseteq 1..settled[e]
    BY DEF ReleasedSettled
  <2>2. /\ released[n] \in {0} \cup Seqs /\ lceDisk[n] \in Int /\ e \in Int /\ e >= 1
        /\ s \in Int /\ glce \in Int
    BY <1>1, <1>4, SeqsRange DEF Types, MemoryInv, DiskInv, RecoveryTypes, Epochs
  <2>3. released[n] = s
    BY <1>1, <2>1, <2>2
  <2>4. glce = s - 1 /\ released[n] =< lceDisk[n] + 1
    BY <1>4, <2>2, <2>3, <1>1, SeqsRange DEF OneInv, ShardInv, WorkInv
  <2>5. e =< glce /\ lceDisk[n] >= e
    BY <2>1, <2>2, <2>3, <2>4
  <2>6. settled[e] # -1
    BY <1>4, <2>5 DEF OneInv, ProgressInv
  <2>7. QED
    BY <1>4, <2>5, <2>6 DEF ContentInv, ShownInv, Keeper, Shown
<1>5. QED
  BY <1>2, <1>3, <1>4, TypesInvariant, PTL
=============================================================================
