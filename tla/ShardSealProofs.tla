--------------------------- MODULE ShardSealProofs ---------------------------
(***************************************************************************)
(* Proofs about ShardSeal, for any STOREs and SEALs, any number of faults  *)
(* and any loss of writes that were not synced.                            *)
(***************************************************************************)
EXTENDS ShardSeal, Extrema, SequenceTheorems

Epoch(y) == SealOf[y].epoch

\* A STORE that the worker thread has let through; the seals are known then.
Checked == {"soft", "softened", "queued", "admitted", "written"}

Logged == [kind : {"normal", "soft"}, value : Nat]
            \cup [kind : {"record"}, value : Stores]

Contents == [normal : Nat, soft : Nat, records : SUBSET Stores]

Held == durable \in Contents /\ wal \in Seq(Logged)

Layout ==
    /\ Held
    /\ store = [x \in Stores |-> store[x]]
    /\ task = [y \in Seals |-> task[y]]
    /\ msg \in Mixes
    /\ normal \in Int /\ soft \in Int /\ auth \in Int /\ head \in Nat

\* What a STORE under way has read, and written.
StoreShape ==
    \A x \in Stores :
       /\ store[x].st = "recovered" =>
             /\ store[x].normal \in Nat /\ store[x].normal =< Disk.normal
             /\ store[x].soft \in Nat /\ store[x].soft =< Disk.soft
       /\ store[x].st = "written" => x \in Disk.records

\* The seal a SEAL under way has found on disk.
TaskShape ==
    \A y \in Seals :
       /\ task[y].st \in {"stored", "sealed"} =>
             task[y].seal \in Nat /\ task[y].seal =< Disk.normal
       /\ task[y].st = "stored" =>
             task[y] = [st |-> "stored", ahead |-> task[y].ahead,
                        sync |-> task[y].sync, seal |-> task[y].seal]

AckedDone == \A x \in acked : x \in Stores /\ store[x].st = "done"

Shape == Layout /\ StoreShape /\ TaskShape /\ AckedDone

\* Memory does not run ahead of the disk.
MemoryInv ==
    /\ failSafe \in BOOLEAN
    /\ normal >= -1 /\ normal =< Disk.normal
    /\ soft >= -1 /\ soft =< Disk.soft
    /\ cache \subseteq Disk.records
    /\ acked \subseteq Disk.records

Covers(d) == \A x \in d.records : msg[x].epoch =< d.soft + 1

\* No loss of writes that were not synced uncovers a record.
AllCovered == \A n \in 0 .. Len(wal) : Covers(Applied(n))

SealsKnown ==
    normal = -1 \/ soft = -1 => \A x \in Stores : store[x].st \notin Checked

\* A STORE goes on once the soft seal covers it, or if it will fail anyway.
PathSoft ==
    \A x \in Stores :
       /\ store[x].st = "softened" => msg[x].epoch =< Disk.soft + 1
       /\ store[x].st \in {"queued", "admitted"} =>
             msg[x].epoch =< soft + 1 \/ failSafe = TRUE
       /\ store[x].st = "written" => msg[x].epoch =< soft + 1

AckedSoft == soft # -1 => \A x \in acked : msg[x].epoch =< soft + 1

\* A soft seal read and not yet published covers what was acknowledged.
RecoveredSoft ==
    \A x \in Stores : store[x].st = "recovered" /\ soft = -1 =>
       \A z \in acked : msg[z].epoch =< store[x].soft + 1

SoftInv == AllCovered /\ SealsKnown /\ PathSoft /\ AckedSoft /\ RecoveredSoft

\* A SEAL under way knows a soft seal past what was acknowledged before it.
AheadInv ==
    /\ \A y \in Seals : task[y].st \in {"started", "stored", "sealed", "stocked"}
          \/ y \in Answered => task[y].ahead \in Nat
    /\ \A y \in Seals : task[y].st \in {"started", "stored", "sealed"} =>
          soft # -1 /\ task[y].ahead =< soft + 1
    /\ \A y \in Seals : task[y].st = "stocked" \/ y \in Answered =>
          task[y].ahead =< Epoch(y) + 1

-----------------------------------------------------------------------------
(* The local log store.                                                    *)

\* m is the largest of a and of the values of the given kind in w[1 .. n].
LargestOf(m, a, w, n, kind) ==
    /\ m \in Nat /\ m >= a
    /\ \A i \in 1 .. n : w[i].kind = kind => m >= w[i].value
    /\ m = a \/ \E i \in 1 .. n : w[i].kind = kind /\ w[i].value = m

LEMMA LargestExists ==
    ASSUME NEW a \in Nat, NEW w \in Seq(Logged), NEW n \in 0 .. Len(w),
           NEW kind \in {"normal", "soft"}
    PROVE  LET S == {a} \cup
                    {w[i].value : i \in {j \in 1 .. n : w[j].kind = kind}}
           IN  LargestOf(Max(S), a, w, n, kind)
<1> DEFINE S == {a} \cup {w[i].value : i \in {j \in 1 .. n : w[j].kind = kind}}
<1>1. \A i \in 1 .. n : w[i] \in Logged
  OBVIOUS
<1>2. \A i \in 1 .. n : w[i].kind = kind => w[i].value \in Nat
  BY <1>1 DEF Logged
<1>3. S \subseteq Nat /\ S \subseteq Int /\ S # {}
  BY <1>2
<1>4. PICK k \in Nat : k = n + 1
  OBVIOUS
<1>5. PICK f : f = [i \in 1 .. k |-> IF i = k THEN a ELSE w[i].value]
  OBVIOUS
<1>6. Enumerates(f, k, S)
  BY <1>4, <1>5 DEF Enumerates
<1>7. IsMaximum(Max(S), S)
  <2> HIDE DEF S
  <2>1. QED
    BY <1>3, <1>6, MaxOfSequence
<1>8. Max(S) \in S /\ \A y \in S : Max(S) >= y
  BY <1>7 DEF IsMaximum
<1>9. QED
  BY <1>3, <1>8 DEF LargestOf

LEMMA LargestUnique ==
    ASSUME NEW a \in Nat, NEW w, NEW n, NEW kind, NEW m, NEW k,
           LargestOf(m, a, w, n, kind), LargestOf(k, a, w, n, kind)
    PROVE  m = k
BY DEF LargestOf

\* What the store holds after n writes.
LEMMA ReplayFacts ==
    ASSUME NEW d \in Contents, NEW w \in Seq(Logged), NEW n \in 0 .. Len(w)
    PROVE  /\ LargestOf(Replay(d, w, n).normal, d.normal, w, n, "normal")
           /\ LargestOf(Replay(d, w, n).soft, d.soft, w, n, "soft")
           /\ \A x : x \in Replay(d, w, n).records <=>
                  \/ x \in d.records
                  \/ \E i \in 1 .. n : w[i].kind = "record" /\ w[i].value = x
           /\ Replay(d, w, n) \in Contents
<1>1. d.normal \in Nat /\ d.soft \in Nat /\ d.records \subseteq Stores
  BY DEF Contents
<1>2. LargestOf(Replay(d, w, n).normal, d.normal, w, n, "normal")
  BY <1>1, LargestExists DEF Replay
<1>3. LargestOf(Replay(d, w, n).soft, d.soft, w, n, "soft")
  BY <1>1, LargestExists DEF Replay
<1>4. \A x : x \in Replay(d, w, n).records <=>
                  \/ x \in d.records
                  \/ \E i \in 1 .. n : w[i].kind = "record" /\ w[i].value = x
  BY DEF Replay
<1>5. \A i \in 1 .. n : w[i].kind = "record" => w[i].value \in Stores
  BY DEF Logged
<1>6. Replay(d, w, n).normal \in Nat /\ Replay(d, w, n).soft \in Nat
  BY <1>2, <1>3 DEF LargestOf
<1>7. Replay(d, w, n).records \subseteq Stores
  BY <1>1, <1>4, <1>5
<1>8. Replay(d, w, n) = [normal |-> Replay(d, w, n).normal,
                         soft |-> Replay(d, w, n).soft,
                         records |-> Replay(d, w, n).records]
  BY DEF Replay
<1>9. Replay(d, w, n) \in Contents
  BY <1>6, <1>7, <1>8 DEF Contents
<1>10. QED
  BY <1>2, <1>3, <1>4, <1>9

LEMMA ReplayNothing ==
    ASSUME NEW d \in Contents, NEW w \in Seq(Logged)
    PROVE  /\ Replay(d, w, 0).normal = d.normal
           /\ Replay(d, w, 0).soft = d.soft
           /\ Replay(d, w, 0).records = d.records
<1>1. 0 \in 0 .. Len(w) /\ 1 .. 0 = {}
  OBVIOUS
<1>2. /\ LargestOf(Replay(d, w, 0).normal, d.normal, w, 0, "normal")
      /\ LargestOf(Replay(d, w, 0).soft, d.soft, w, 0, "soft")
      /\ \A x : x \in Replay(d, w, 0).records <=>
            \/ x \in d.records
            \/ \E i \in 1 .. 0 : w[i].kind = "record" /\ w[i].value = x
  BY <1>1, ReplayFacts
<1>3. Replay(d, w, 0).normal = d.normal /\ Replay(d, w, 0).soft = d.soft
  BY <1>1, <1>2 DEF LargestOf
<1>4. \A x : x \in Replay(d, w, 0).records <=> x \in d.records
  BY <1>1, <1>2
<1>5. Replay(d, w, 0).records = d.records
  BY <1>4, Zenon
<1>6. QED
  BY <1>3, <1>5

\* A write does not change what was there before it.
LEMMA ReplayPrefix ==
    ASSUME NEW d \in Contents, NEW w \in Seq(Logged), NEW e \in Logged,
           NEW n \in 0 .. Len(w)
    PROVE  /\ Replay(d, Append(w, e), n).normal = Replay(d, w, n).normal
           /\ Replay(d, Append(w, e), n).soft = Replay(d, w, n).soft
           /\ Replay(d, Append(w, e), n).records = Replay(d, w, n).records
<1> DEFINE v == Append(w, e)
<1>1. v \in Seq(Logged) /\ n \in 0 .. Len(v) /\ \A i \in 1 .. n : v[i] = w[i]
  OBVIOUS
<1> HIDE DEF v
<1>2. d.normal \in Nat /\ d.soft \in Nat
  BY DEF Contents
<1>3. /\ LargestOf(Replay(d, v, n).normal, d.normal, w, n, "normal")
      /\ LargestOf(Replay(d, v, n).soft, d.soft, w, n, "soft")
  <2>1. /\ LargestOf(Replay(d, v, n).normal, d.normal, v, n, "normal")
        /\ LargestOf(Replay(d, v, n).soft, d.soft, v, n, "soft")
    BY <1>1, ReplayFacts
  <2>2. QED
    BY <1>1, <2>1 DEF LargestOf
<1>4. /\ Replay(d, v, n).normal = Replay(d, w, n).normal
      /\ Replay(d, v, n).soft = Replay(d, w, n).soft
  BY <1>2, <1>3, ReplayFacts, LargestUnique
<1>5. Replay(d, v, n).records = Replay(d, w, n).records
  <2>1. \A x : x \in Replay(d, v, n).records <=>
            \/ x \in d.records
            \/ \E i \in 1 .. n : v[i].kind = "record" /\ v[i].value = x
    BY <1>1, ReplayFacts
  <2>2. \A x : x \in Replay(d, w, n).records <=>
            \/ x \in d.records
            \/ \E i \in 1 .. n : w[i].kind = "record" /\ w[i].value = x
    BY ReplayFacts
  <2>3. \A x : x \in Replay(d, v, n).records <=> x \in Replay(d, w, n).records
    BY <1>1, <2>1, <2>2
  <2>4. QED
    BY <2>3, Zenon
<1>6. QED
  BY <1>4, <1>5 DEF v

\* What a write adds.
LEMMA ReplayAppend ==
    ASSUME NEW d \in Contents, NEW w \in Seq(Logged), NEW e \in Logged
    PROVE  LET old == Replay(d, w, Len(w))
               new == Replay(d, Append(w, e), Len(w) + 1)
           IN  /\ new.normal = IF e.kind = "normal" /\ e.value > old.normal
                               THEN e.value ELSE old.normal
               /\ new.soft = IF e.kind = "soft" /\ e.value > old.soft
                             THEN e.value ELSE old.soft
               /\ new.records = IF e.kind = "record"
                                THEN old.records \cup {e.value} ELSE old.records
<1> DEFINE v == Append(w, e)
           k == Len(w) + 1
           old == Replay(d, w, Len(w))
           new == Replay(d, v, k)
<1>1. /\ v \in Seq(Logged) /\ k \in 0 .. Len(v) /\ Len(w) \in 0 .. Len(w)
      /\ Len(w) \in Nat
      /\ \A i \in 1 .. k : v[i] = IF i = k THEN e ELSE w[i]
  OBVIOUS
<1>2. /\ d.normal \in Nat /\ d.soft \in Nat
      /\ e.kind \in {"normal", "soft"} => e.value \in Nat
  BY DEF Contents, Logged
<1>3. /\ LargestOf(old.normal, d.normal, w, Len(w), "normal")
      /\ LargestOf(old.soft, d.soft, w, Len(w), "soft")
      /\ \A x : x \in old.records <=>
            \/ x \in d.records
            \/ \E i \in 1 .. Len(w) : w[i].kind = "record" /\ w[i].value = x
  BY <1>1, ReplayFacts
<1>4. /\ LargestOf(new.normal, d.normal, v, k, "normal")
      /\ LargestOf(new.soft, d.soft, v, k, "soft")
      /\ \A x : x \in new.records <=>
            \/ x \in d.records
            \/ \E i \in 1 .. k : v[i].kind = "record" /\ v[i].value = x
  BY <1>1, ReplayFacts
<1> HIDE DEF v, k, old, new
<1>5. 1 .. k = (1 .. Len(w)) \cup {k} /\ k \notin 1 .. Len(w)
  BY <1>1 DEF k
<1>6. ASSUME NEW kind \in {"normal", "soft"}, NEW m \in Nat, NEW a \in Nat,
             LargestOf(m, a, w, Len(w), kind)
      PROVE  LargestOf(IF e.kind = kind /\ e.value > m THEN e.value ELSE m,
                       a, v, k, kind)
  <2>a. v[k] = e /\ \A i \in 1 .. Len(w) : v[i] = w[i]
    BY <1>1, <1>5
  <2>b. \A i \in 1 .. Len(w) : w[i].kind = kind => w[i].value \in Nat
    BY DEF Logged
  <2>c. /\ m >= a
        /\ \A i \in 1 .. Len(w) : w[i].kind = kind => m >= w[i].value
        /\ m = a \/ \E i \in 1 .. Len(w) : w[i].kind = kind /\ w[i].value = m
    BY <1>6 DEF LargestOf
  <2>1. CASE e.kind = kind /\ e.value > m
    <3>1. e.value \in Nat /\ e.value >= a
      BY <1>2, <2>c, <2>1
    <3>2. \A i \in 1 .. k : v[i].kind = kind => e.value >= v[i].value
      BY <1>5, <2>a, <2>b, <2>c, <2>1, <3>1
    <3>3. \E i \in 1 .. k : v[i].kind = kind /\ v[i].value = e.value
      BY <1>5, <2>a, <2>1
    <3>4. QED
      BY <2>1, <3>1, <3>2, <3>3 DEF LargestOf
  <2>2. CASE ~(e.kind = kind /\ e.value > m)
    <3>2. \A i \in 1 .. k : v[i].kind = kind => m >= v[i].value
      BY <1>2, <1>5, <2>a, <2>c, <2>2
    <3>3. m = a \/ \E i \in 1 .. k : v[i].kind = kind /\ v[i].value = m
      BY <1>5, <2>a, <2>c
    <3>4. QED
      BY <2>c, <2>2, <3>2, <3>3 DEF LargestOf
  <2>3. QED
    BY <2>1, <2>2
<1>7. old.normal \in Nat /\ old.soft \in Nat
  BY <1>3 DEF LargestOf
<1>8. new.normal = IF e.kind = "normal" /\ e.value > old.normal
                   THEN e.value ELSE old.normal
  BY <1>2, <1>3, <1>4, <1>6, <1>7, LargestUnique
<1>9. new.soft = IF e.kind = "soft" /\ e.value > old.soft
                 THEN e.value ELSE old.soft
  BY <1>2, <1>3, <1>4, <1>6, <1>7, LargestUnique
<1>10. new.records = IF e.kind = "record"
                     THEN old.records \cup {e.value} ELSE old.records
  <2>1. v[k] = e /\ \A i \in 1 .. Len(w) : v[i] = w[i]
    BY <1>1, <1>5
  <2>2. \A x : x \in new.records <=>
            x \in old.records \/ (e.kind = "record" /\ e.value = x)
    BY <1>3, <1>4, <1>5, <2>1
  <2>3. CASE e.kind = "record"
    <3>1. \A x : x \in new.records <=> x \in old.records \cup {e.value}
      BY <2>2, <2>3
    <3>2. new.records = old.records \cup {e.value}
      BY <3>1, Zenon
    <3>3. QED
      BY <2>3, <3>2
  <2>4. CASE e.kind # "record"
    <3>1. \A x : x \in new.records <=> x \in old.records
      BY <2>2, <2>4
    <3>2. new.records = old.records
      BY <3>1, Zenon
    <3>3. QED
      BY <2>4, <3>2
  <2>5. QED
    BY <2>3, <2>4
<1>11. QED
  BY <1>8, <1>9, <1>10 DEF v, k, old, new

LEMMA DiskFacts ==
    ASSUME Held
    PROVE  /\ Disk \in Contents /\ Len(wal) \in Nat
           /\ Disk.normal \in Nat /\ Disk.soft \in Nat
           /\ Disk.records \subseteq Stores
           /\ durable.normal \in Nat /\ durable.normal =< Disk.normal
           /\ \A n \in 0 .. Len(wal) : /\ Applied(n) \in Contents
                                       /\ Applied(n).normal \in Nat
                                       /\ Applied(n).soft \in Nat
                                       /\ Applied(n).records \subseteq Stores
                                       /\ durable.normal =< Applied(n).normal
<1>1. durable \in Contents /\ wal \in Seq(Logged)
  BY DEF Held
<1>2. Len(wal) \in Nat /\ Len(wal) \in 0 .. Len(wal)
  BY <1>1
<1>3. durable.normal \in Nat
  BY <1>1 DEF Contents
<1>4. ASSUME NEW n \in 0 .. Len(wal)
      PROVE  /\ Applied(n) \in Contents
             /\ Applied(n).normal \in Nat
             /\ Applied(n).soft \in Nat
             /\ Applied(n).records \subseteq Stores
             /\ durable.normal =< Applied(n).normal
  <2>1. /\ Applied(n) \in Contents
        /\ LargestOf(Applied(n).normal, durable.normal, wal, n, "normal")
    BY <1>1, ReplayFacts DEF Applied
  <2>2. QED
    BY <1>3, <2>1 DEF LargestOf, Contents
<1>5. QED
  BY <1>2, <1>3, <1>4 DEF Disk

LEMMA NoWrite ==
    ASSUME Held, UNCHANGED <<durable, wal>>
    PROVE  /\ Held' /\ Disk' = Disk
           /\ AllCovered /\ UNCHANGED msg => AllCovered'
BY DEF Held, Disk, Applied, AllCovered, Covers

LEMMA OneWrite ==
    ASSUME Held, NEW e \in Logged, durable' = durable, wal' = Append(wal, e)
    PROVE  /\ Held'
           /\ Disk'.normal = IF e.kind = "normal" /\ e.value > Disk.normal
                             THEN e.value ELSE Disk.normal
           /\ Disk'.soft = IF e.kind = "soft" /\ e.value > Disk.soft
                           THEN e.value ELSE Disk.soft
           /\ Disk'.records = IF e.kind = "record"
                              THEN Disk.records \cup {e.value} ELSE Disk.records
           /\ AllCovered /\ UNCHANGED msg /\ Covers(Disk)' => AllCovered'
<1>1. /\ durable \in Contents /\ wal \in Seq(Logged)
      /\ Append(wal, e) \in Seq(Logged) /\ Len(wal) \in Nat
      /\ Len(Append(wal, e)) = Len(wal) + 1
  BY DEF Held
<1>2. Held'
  BY <1>1 DEF Held
<1>3. Disk' = Replay(durable, Append(wal, e), Len(wal) + 1)
  BY <1>1 DEF Disk, Applied
<1>4. ASSUME AllCovered, UNCHANGED msg, Covers(Disk)'
      PROVE  AllCovered'
  <2>1. SUFFICES ASSUME NEW n \in 0 .. (Len(wal) + 1), n # Len(wal) + 1
                 PROVE  Covers(Applied(n))'
    BY <1>1, <1>4 DEF AllCovered, Disk
  <2>2. n \in 0 .. Len(wal)
    BY <1>1, <2>1
  <2>3. /\ Replay(durable, Append(wal, e), n).soft = Applied(n).soft
        /\ Replay(durable, Append(wal, e), n).records = Applied(n).records
    BY <1>1, <2>2, ReplayPrefix DEF Applied
  <2>4. Covers(Applied(n))
    BY <1>4, <2>2 DEF AllCovered
  <2>5. QED
    BY <1>4, <2>3, <2>4 DEF Covers, Applied
<1>5. QED
  BY <1>1, <1>2, <1>3, <1>4, ReplayAppend DEF Disk, Applied

LEMMA Settled ==
    ASSUME Held, NEW n \in 0 .. Len(wal), durable' = Applied(n), wal' = <<>>
    PROVE  /\ Held'
           /\ Disk'.normal = Applied(n).normal
           /\ Disk'.soft = Applied(n).soft
           /\ Disk'.records = Applied(n).records
           /\ AllCovered /\ UNCHANGED msg => AllCovered'
<1>1. Applied(n) \in Contents /\ <<>> \in Seq(Logged) /\ Len(<<>>) = 0
  BY DiskFacts
<1>2. Held'
  BY <1>1 DEF Held
<1>3. Disk' = Replay(Applied(n), <<>>, 0) /\ Applied(0)' = Disk'
  BY <1>1 DEF Disk, Applied
<1>4. /\ Disk'.normal = Applied(n).normal
      /\ Disk'.soft = Applied(n).soft
      /\ Disk'.records = Applied(n).records
  BY <1>1, <1>3, ReplayNothing
<1>5. ASSUME AllCovered, UNCHANGED msg
      PROVE  AllCovered'
  <2>1. Covers(Disk)'
    BY <1>4, <1>5 DEF Covers, AllCovered
  <2>2. QED
    BY <1>1, <1>3, <2>1 DEF AllCovered
<1>6. QED
  BY <1>2, <1>4, <1>5

-----------------------------------------------------------------------------
(* The invariant behind the soft seals.                                    *)

Inv == Shape /\ MemoryInv /\ SoftInv /\ AheadInv

LEMMA InvTyped == Inv => TypeOK
BY DEF Inv, Shape, Layout, Held, Logged, MemoryInv, TypeOK

LEMMA EpochType ==
    ASSUME Shape, NEW x \in Stores
    PROVE  msg[x].epoch \in Nat \ {0}
BY ShardSealAssumption DEF Shape, Layout

LEMMA LastAckedFacts ==
    ASSUME Shape, acked \subseteq Stores
    PROVE  /\ LastAcked \in Nat
           /\ LastAcked = 0 \/ \E x \in acked : msg[x].epoch = LastAcked
<1> DEFINE S == {0} \cup {msg[x].epoch : x \in {z \in acked : IsAppend(z)}}
           h == [x \in Stores |-> msg[x].epoch]
<1>1. S \subseteq Nat /\ S \subseteq Int /\ S # {}
  BY EpochType
<1>2. DrawnFrom(S, 0, h, Stores)
  BY DEF DrawnFrom
<1>3. IsMaximum(Max(S), S)
  <2> HIDE DEF S, h
  <2>1. QED
    BY <1>1, <1>2, MaxOfImage, ShardSealAssumption
<1>4. Max(S) \in S
  BY <1>3 DEF IsMaximum
<1>5. QED
  BY <1>1, <1>4 DEF LastAcked

LEMMA SealedUpToFacts ==
    ASSUME ShardSealAssumption
    PROVE  /\ SealedUpTo \in Nat
           /\ SealedUpTo = 0 \/ \E y \in Answered : Epoch(y) = SealedUpTo
<1> DEFINE S == {0} \cup {SealOf[y].epoch : y \in Answered}
           h == [y \in Seals |-> SealOf[y].epoch]
<1>0. Answered \subseteq Seals
  BY DEF Answered
<1>1. S \subseteq Nat /\ S \subseteq Int /\ S # {}
  BY <1>0, ShardSealAssumption
<1>2. DrawnFrom(S, 0, h, Seals)
  BY <1>0 DEF DrawnFrom
<1>3. IsMaximum(Max(S), S)
  <2> HIDE DEF S, h
  <2>1. QED
    BY <1>1, <1>2, MaxOfImage, ShardSealAssumption
<1>4. Max(S) \in S
  BY <1>3 DEF IsMaximum
<1>5. QED
  BY <1>1, <1>4 DEF SealedUpTo, Epoch

LEMMA Start == Init => Inv
<1>1. SUFFICES ASSUME Init PROVE Inv
  OBVIOUS
<1>2. Held
  BY <1>1 DEF Init, Held, Contents
<1>3. /\ Disk.normal = 0 /\ Disk.soft = 0 /\ Disk.records = {}
      /\ Applied(0) = Disk /\ Len(wal) = 0
  <2>1. wal \in Seq(Logged) /\ durable \in Contents /\ Len(wal) = 0
    BY <1>1, <1>2 DEF Init, Held
  <2>2. /\ Replay(durable, wal, 0).normal = durable.normal
        /\ Replay(durable, wal, 0).soft = durable.soft
        /\ Replay(durable, wal, 0).records = durable.records
    BY <2>1, ReplayNothing
  <2>3. durable.normal = 0 /\ durable.soft = 0 /\ durable.records = {}
    BY <1>1 DEF Init
  <2>4. Disk = Replay(durable, wal, 0) /\ Applied(0) = Disk
    BY <2>1 DEF Disk, Applied
  <2>5. QED
    BY <2>1, <2>2, <2>3, <2>4
<1>4. Shape
  BY <1>1, <1>2 DEF Init, Shape, Layout, StoreShape, TaskShape, AckedDone, At
<1>5. MemoryInv
  <2>1. normal = -1 /\ soft = -1 /\ cache = {} /\ acked = {} /\ failSafe = FALSE
    BY <1>1 DEF Init
  <2>2. /\ normal >= -1 /\ normal =< Disk.normal
        /\ soft >= -1 /\ soft =< Disk.soft
    BY <1>3, <2>1
  <2>3. QED
    BY <2>1, <2>2, Zenon DEF MemoryInv
<1>6. AllCovered
  BY <1>3 DEF AllCovered, Covers
<1>7. SoftInv
  BY <1>1, <1>6 DEF Init, SoftInv, SealsKnown, PathSoft, AckedSoft,
                    RecoveredSoft, Checked, At
<1>8. AheadInv
  BY <1>1 DEF Init, AheadInv, Answered, At
<1>9. QED
  BY <1>4, <1>5, <1>7, <1>8 DEF Inv

\* A step that leaves the local log store alone.
LEMMA QuietDisk ==
    ASSUME Inv, UNCHANGED <<durable, wal, msg>>
    PROVE  /\ Held' /\ Disk' = Disk /\ AllCovered'
           /\ Disk.normal \in Nat /\ Disk.soft \in Nat
           /\ Disk.records \subseteq Stores
           /\ Covers(Disk)
           /\ \A x \in Stores : msg[x].epoch \in Nat \ {0}
<1>1. Held /\ AllCovered
  BY DEF Inv, Shape, Layout, SoftInv
<1>2. Covers(Disk)
  BY <1>1, DiskFacts DEF AllCovered, Disk
<1>3. QED
  BY <1>1, <1>2, NoWrite, DiskFacts, EpochType DEF Inv

\* STORE x moves, and only x.
Moves(x) ==
    /\ \A z \in Stores \ {x} : store'[z] = store[z]
    /\ store' = [z \in Stores |-> store'[z]]

LEMMA MoveFacts ==
    ASSUME Inv, NEW x \in Stores, NEW v, store' = [store EXCEPT ![x] = v]
    PROVE  Moves(x) /\ store'[x] = v
BY DEF Inv, Shape, Layout, Moves

\* A move that neither reads seals nor writes a record.
LEMMA QuietMove ==
    ASSUME Inv, NEW x \in Stores, Moves(x), store[x].st # "done",
           UNCHANGED <<durable, wal, failSafe, memory, task, acked, msg>>,
           store'[x].st \in {"new", "recover", "done", "soft", "queued", "admitted"},
           store'[x].st \in Checked => normal # -1 /\ soft # -1,
           store'[x].st \in {"queued", "admitted"} =>
               msg[x].epoch =< soft + 1 \/ failSafe = TRUE
    PROVE  Inv'
<1>1. /\ Held' /\ Disk' = Disk /\ AllCovered'
      /\ \A z \in Stores : msg[z].epoch \in Nat \ {0}
  BY QuietDisk
<1>2. UNCHANGED <<failSafe, normal, soft, cache, head, auth, task, acked, msg>>
  BY DEF memory
<1>3. Layout'
  BY <1>1, <1>2 DEF Inv, Shape, Layout, Moves
<1>4. StoreShape'
  BY <1>1 DEF Inv, Shape, StoreShape, Moves
<1>5. TaskShape'
  BY <1>1, <1>2 DEF Inv, Shape, TaskShape
<1>6. AckedDone'
  BY <1>2 DEF Inv, Shape, AckedDone, Moves
<1>7. MemoryInv'
  BY <1>1, <1>2 DEF Inv, MemoryInv
<1>8. SealsKnown'
  BY <1>2 DEF Inv, SoftInv, SealsKnown, Moves
<1>9. PathSoft'
  BY <1>1, <1>2 DEF Inv, SoftInv, PathSoft, Moves
<1>10. AckedSoft'
  BY <1>2 DEF Inv, SoftInv, AckedSoft
<1>11. RecoveredSoft'
  BY <1>2 DEF Inv, SoftInv, RecoveredSoft, Moves
<1>12. AheadInv'
  BY <1>2 DEF Inv, AheadInv, Answered
<1>13. QED
  BY <1>1, <1>3, <1>4, <1>5, <1>6, <1>7, <1>8, <1>9, <1>10, <1>11, <1>12
     DEF Inv, Shape, SoftInv

LEMMA ArriveStep ==
    ASSUME Inv, NEW x \in Stores, Arrive(x)
    PROVE  Inv'
<1> DEFINE v == CASE failSafe -> Done("DISABLED")
                  [] ~failSafe /\ (normal = -1 \/ soft = -1) -> At("recover")
                  [] OTHER -> FirstCheck(x, normal, soft)
<1>1. /\ store' = [store EXCEPT ![x] = v]
      /\ UNCHANGED <<durable, wal, failSafe, memory, task, acked, msg>>
      /\ store[x].st # "done"
  BY DEF Arrive
<1>2. /\ soft \in Int /\ msg[x].epoch \in Nat
  BY EpochType DEF Inv, Shape, Layout
<1>3. /\ v.st \in {"recover", "done", "soft", "queued"}
      /\ v.st \in Checked => normal # -1 /\ soft # -1
      /\ v.st = "queued" => msg[x].epoch =< soft + 1
  BY <1>2 DEF Checked, Done, At, FirstCheck, NeedsSoftSeal
<1> HIDE DEF v
<1>4. Moves(x) /\ store'[x] = v
  BY <1>1, MoveFacts
<1>5. QED
  BY <1>1, <1>3, <1>4, QuietMove

LEMMA DroppedStep ==
    ASSUME Inv, NEW x \in Stores, Dropped(x)
    PROVE  Inv'
<1>1. Moves(x) /\ store'[x] = At("new")
  BY MoveFacts DEF Dropped
<1>2. store'[x].st = "new" /\ store[x].st # "done"
  BY <1>1 DEF At, Dropped
<1>3. QED
  BY <1>1, <1>2, QuietMove DEF Dropped, history, Checked

LEMMA AdmitStep ==
    ASSUME Inv, NEW x \in Stores, Admit(x)
    PROVE  Inv'
<1>1. /\ Moves(x)
      /\ store'[x] = IF IsPreempted(x) THEN Done("PREEMPTED") ELSE At("admitted")
  BY MoveFacts DEF Admit
<1>2. store'[x].st \in {"done", "admitted"} /\ store[x].st = "queued"
  BY <1>1 DEF At, Done, Admit
<1>3. /\ normal # -1 /\ soft # -1
      /\ msg[x].epoch =< soft + 1 \/ failSafe = TRUE
  BY <1>2 DEF Inv, SoftInv, SealsKnown, PathSoft, Checked
<1>4. QED
  BY <1>1, <1>2, <1>3, QuietMove DEF Admit, history

LEMMA ReadSealsStep ==
    ASSUME Inv, NEW x \in Stores, ReadSeals(x)
    PROVE  Inv'
<1>1. /\ Held' /\ Disk' = Disk /\ AllCovered'
      /\ Disk.normal \in Nat /\ Disk.soft \in Nat /\ Covers(Disk)
  BY QuietDisk DEF ReadSeals, history
<1>2. UNCHANGED <<failSafe, normal, soft, cache, head, auth, task, acked, msg>>
  BY DEF ReadSeals, memory, history
<1>3. /\ Moves(x)
      /\ store'[x] = [st |-> "recovered", normal |-> Disk.normal,
                      soft |-> Disk.soft]
  BY MoveFacts DEF ReadSeals
<1>4. /\ store'[x].st = "recovered" /\ store[x].st = "recover"
      /\ store'[x].normal = Disk.normal /\ store'[x].soft = Disk.soft
  BY <1>3 DEF ReadSeals
<1>5. Layout'
  BY <1>1, <1>2, <1>3 DEF Inv, Shape, Layout, Moves
<1>6. StoreShape'
  BY <1>1, <1>3, <1>4 DEF Inv, Shape, StoreShape, Moves
<1>7. TaskShape'
  BY <1>1, <1>2 DEF Inv, Shape, TaskShape
<1>8. AckedDone'
  BY <1>2, <1>3, <1>4 DEF Inv, Shape, AckedDone, Moves
<1>9. MemoryInv'
  BY <1>1, <1>2 DEF Inv, MemoryInv
<1>10. SealsKnown'
  BY <1>2, <1>3, <1>4 DEF Inv, SoftInv, SealsKnown, Moves, Checked
<1>11. PathSoft'
  BY <1>1, <1>2, <1>3, <1>4 DEF Inv, SoftInv, PathSoft, Moves
<1>12. AckedSoft'
  BY <1>2 DEF Inv, SoftInv, AckedSoft
<1>13. RecoveredSoft'
  BY <1>1, <1>2, <1>3, <1>4
     DEF Inv, SoftInv, RecoveredSoft, Moves, MemoryInv, Covers
<1>14. AheadInv'
  BY <1>2 DEF Inv, AheadInv, Answered
<1>15. QED
  BY <1>1, <1>5, <1>6, <1>7, <1>8, <1>9, <1>10, <1>11, <1>12, <1>13, <1>14
     DEF Inv, Shape, SoftInv

LEMMA SealsRecoveredStep ==
    ASSUME Inv, NEW x \in Stores, SealsRecovered(x)
    PROVE  Inv'
<1> DEFINE n == Max({normal, store[x].normal})
           s == Max({soft, store[x].soft})
<1>1. /\ Held' /\ Disk' = Disk /\ AllCovered'
      /\ Disk.normal \in Nat /\ Disk.soft \in Nat
      /\ \A z \in Stores : msg[z].epoch \in Nat \ {0}
  BY QuietDisk DEF SealsRecovered, history
<1>2. /\ n \in Nat /\ n >= normal /\ n =< Disk.normal
      /\ s \in Nat /\ s >= soft /\ s >= store[x].soft /\ s =< Disk.soft
  <2>1. /\ normal \in Int /\ soft \in Int
        /\ normal =< Disk.normal /\ soft =< Disk.soft
        /\ store[x].normal \in Nat /\ store[x].normal =< Disk.normal
        /\ store[x].soft \in Nat /\ store[x].soft =< Disk.soft
    BY DEF Inv, Shape, Layout, StoreShape, MemoryInv, SealsRecovered
  <2>2. store[x].normal \in Int /\ store[x].soft \in Int
    BY <2>1
  <2>3. n = IF normal >= store[x].normal THEN normal ELSE store[x].normal
    BY <2>1, <2>2, MaxOfTwo, Zenon
  <2>4. s = IF soft >= store[x].soft THEN soft ELSE store[x].soft
    BY <2>1, <2>2, MaxOfTwo, Zenon
  <2> HIDE DEF n, s
  <2>5. QED
    BY <1>1, <2>1, <2>3, <2>4
<1>3. /\ normal' = n /\ soft' = s /\ store[x].st = "recovered"
      /\ store' = [store EXCEPT ![x] = FirstCheck(x, n, s)]
      /\ auth' = Authoritative(soft)
      /\ UNCHANGED <<failSafe, cache, head, task, acked, msg>>
  BY DEF SealsRecovered, history
<1> HIDE DEF n, s
<1>4. Moves(x) /\ store'[x] = FirstCheck(x, n, s)
  BY <1>3, MoveFacts
<1>5. /\ store'[x].st \in {"done", "soft", "queued"}
      /\ store'[x].st = "queued" => msg[x].epoch =< s + 1
  BY <1>1, <1>2, <1>4 DEF FirstCheck, Done, At, NeedsSoftSeal
<1>6. Layout'
  BY <1>1, <1>2, <1>3, <1>4 DEF Inv, Shape, Layout, Moves, Authoritative
<1>7. StoreShape'
  BY <1>1, <1>4, <1>5 DEF Inv, Shape, StoreShape, Moves
<1>8. TaskShape'
  BY <1>1, <1>3 DEF Inv, Shape, TaskShape
<1>9. AckedDone'
  BY <1>3, <1>4, <1>5 DEF Inv, Shape, AckedDone, Moves
<1>10. MemoryInv'
  BY <1>1, <1>2, <1>3 DEF Inv, MemoryInv
<1>11. SealsKnown'
  BY <1>2, <1>3 DEF SealsKnown
<1>12. PathSoft'
  BY <1>1, <1>2, <1>3, <1>4, <1>5
     DEF Inv, Shape, Layout, SoftInv, PathSoft, Moves
<1>13. AckedSoft'
  <2>1. SUFFICES ASSUME NEW z \in acked PROVE msg[z].epoch =< s + 1
    BY <1>3 DEF AckedSoft
  <2>2. /\ soft \in Int /\ store[x].soft \in Nat /\ msg[z].epoch \in Nat
    BY <1>1, <1>3 DEF Inv, Shape, Layout, StoreShape, AckedDone
  <2>3. msg[z].epoch =< soft + 1 \/ msg[z].epoch =< store[x].soft + 1
    BY <1>3 DEF Inv, SoftInv, AckedSoft, RecoveredSoft
  <2>4. QED
    BY <1>2, <2>2, <2>3
<1>14. RecoveredSoft'
  BY <1>2, <1>3 DEF RecoveredSoft
<1>15. AheadInv'
  BY <1>2, <1>3 DEF Inv, Shape, Layout, AheadInv, Answered
<1>16. QED
  BY <1>1, <1>6, <1>7, <1>8, <1>9, <1>10, <1>11, <1>12, <1>13, <1>14, <1>15
     DEF Inv, Shape, SoftInv

LEMMA SoftSealedStep ==
    ASSUME Inv, NEW x \in Stores, SoftSealed(x)
    PROVE  Inv'
<1> DEFINE s == Max({soft, msg[x].epoch - 1})
<1>1. /\ Held' /\ Disk' = Disk /\ AllCovered' /\ Disk.soft \in Nat
      /\ \A z \in Stores : msg[z].epoch \in Nat \ {0}
  BY QuietDisk DEF SoftSealed, history
<1>2. /\ soft' = s /\ store[x].st = "softened" /\ auth' = Authoritative(s)
      /\ store' = [store EXCEPT ![x] = At("queued")]
      /\ UNCHANGED <<failSafe, normal, cache, head, task, acked, msg>>
  BY DEF SoftSealed, history
<1>3. soft # -1 /\ normal # -1
  BY <1>2 DEF Inv, SoftInv, SealsKnown, Checked
<1>4. /\ s \in Nat /\ s >= soft /\ msg[x].epoch =< s + 1 /\ s =< Disk.soft
  <2>1. /\ soft \in Int /\ soft =< Disk.soft /\ soft >= -1
        /\ msg[x].epoch \in Nat \ {0} /\ msg[x].epoch =< Disk.soft + 1
    BY <1>1, <1>2 DEF Inv, Shape, Layout, MemoryInv, SoftInv, PathSoft
  <2>2. PICK e \in Int : e = msg[x].epoch - 1
    BY <2>1
  <2>3. s = IF soft >= e THEN soft ELSE e
    <3>1. s = Max({soft, e})
      BY <2>2, Zenon
    <3> HIDE DEF s
    <3>2. QED
      BY <2>1, <3>1, MaxOfTwo, Zenon
  <2> HIDE DEF s
  <2>4. QED
    BY <1>1, <2>1, <2>2, <2>3
<1> HIDE DEF s
<1>5. Moves(x) /\ store'[x].st = "queued"
  <2>1. Moves(x) /\ store'[x] = At("queued")
    BY <1>2, MoveFacts
  <2>2. QED
    BY <2>1 DEF At
<1>6. Layout'
  BY <1>1, <1>2, <1>4, <1>5 DEF Inv, Shape, Layout, Moves, Authoritative
<1>7. StoreShape'
  BY <1>1, <1>5 DEF Inv, Shape, StoreShape, Moves
<1>8. TaskShape'
  BY <1>1, <1>2 DEF Inv, Shape, TaskShape
<1>9. AckedDone'
  BY <1>2, <1>5 DEF Inv, Shape, AckedDone, Moves
<1>10. MemoryInv'
  BY <1>1, <1>2, <1>4 DEF Inv, MemoryInv
<1>11. SealsKnown'
  BY <1>2, <1>3, <1>4 DEF SealsKnown
<1>12. PathSoft'
  BY <1>1, <1>2, <1>4, <1>5 DEF Inv, Shape, Layout, SoftInv, PathSoft, Moves
<1>13. AckedSoft'
  BY <1>1, <1>2, <1>3, <1>4
     DEF Inv, Shape, Layout, AckedDone, SoftInv, AckedSoft
<1>14. RecoveredSoft'
  BY <1>2, <1>4 DEF RecoveredSoft
<1>15. AheadInv'
  BY <1>2, <1>4 DEF Inv, Shape, Layout, AheadInv, Answered
<1>16. QED
  BY <1>1, <1>6, <1>7, <1>8, <1>9, <1>10, <1>11, <1>12, <1>13, <1>14, <1>15
     DEF Inv, Shape, SoftInv

LEMMA SealWrite ==
    ASSUME Inv, NEW kind \in {"normal", "soft"}, NEW e \in Nat,
           durable' = durable, wal' = Update(kind, e), UNCHANGED msg
    PROVE  /\ Held' /\ AllCovered'
           /\ Disk'.normal = IF kind = "normal" /\ e > Disk.normal
                             THEN e ELSE Disk.normal
           /\ Disk'.soft = IF kind = "soft" /\ e > Disk.soft THEN e ELSE Disk.soft
           /\ Disk'.records = Disk.records
           /\ Disk.normal \in Nat /\ Disk.soft \in Nat
           /\ Disk.records \subseteq Stores
           /\ \A x \in Stores : msg[x].epoch \in Nat \ {0}
<1>1. /\ Held /\ AllCovered /\ \A x \in Stores : msg[x].epoch \in Nat \ {0}
  BY EpochType DEF Inv, Shape, Layout, SoftInv
<1>2. /\ Disk.normal \in Nat /\ Disk.soft \in Nat /\ Disk.records \subseteq Stores
      /\ Len(wal) \in Nat
  BY <1>1, DiskFacts
<1>3. Disk[kind] = IF kind = "normal" THEN Disk.normal ELSE Disk.soft
  OBVIOUS
<1>4. CASE e > Disk[kind]
  <2>1. PICK r \in Logged : r = [kind |-> kind, value |-> e]
    BY DEF Logged
  <2>2. r.kind = kind /\ r.value = e
    BY <2>1
  <2>3. wal' = Append(wal, r)
    BY <1>4, <2>1 DEF Update
  <2>4. /\ Held'
        /\ Disk'.normal = IF r.kind = "normal" /\ r.value > Disk.normal
                          THEN r.value ELSE Disk.normal
        /\ Disk'.soft = IF r.kind = "soft" /\ r.value > Disk.soft
                        THEN r.value ELSE Disk.soft
        /\ Disk'.records = IF r.kind = "record"
                           THEN Disk.records \cup {r.value} ELSE Disk.records
        /\ AllCovered /\ UNCHANGED msg /\ Covers(Disk)' => AllCovered'
    BY <1>1, <2>3, OneWrite
  <2>5. Disk'.records = Disk.records /\ Disk'.soft >= Disk.soft /\ Disk'.soft \in Nat
    BY <1>2, <2>2, <2>4
  <2>6. Covers(Disk)
    BY <1>1, <1>2 DEF AllCovered, Disk
  <2>7. Covers(Disk)'
    BY <1>1, <1>2, <2>5, <2>6 DEF Covers
  <2>8. QED
    BY <1>1, <1>2, <1>3, <1>4, <2>2, <2>4, <2>5, <2>7
<1>5. CASE ~(e > Disk[kind])
  <2>1. wal' = wal
    BY <1>5 DEF Update
  <2>2. Held' /\ Disk' = Disk /\ AllCovered'
    BY <1>1, <2>1, NoWrite
  <2>3. QED
    BY <1>1, <1>2, <1>3, <1>5, <2>2
<1>6. QED
  BY <1>4, <1>5

LEMMA WriteSoftSealStep ==
    ASSUME Inv, NEW x \in Stores, WriteSoftSeal(x)
    PROVE  Inv'
<1>1. CASE failSafe
  <2>1. Moves(x) /\ store'[x] = At("queued")
    BY <1>1, MoveFacts DEF WriteSoftSeal
  <2>2. store'[x].st = "queued" /\ store[x].st = "soft" /\ failSafe = TRUE
    BY <1>1, <2>1 DEF At, WriteSoftSeal, Inv, MemoryInv
  <2>3. normal # -1 /\ soft # -1
    BY <2>2 DEF Inv, SoftInv, SealsKnown, Checked
  <2>4. UNCHANGED <<durable, wal, failSafe, memory, task, acked, msg>>
    BY <1>1 DEF WriteSoftSeal, history
  <2>5. QED
    BY <2>1, <2>2, <2>3, <2>4, QuietMove
<1>2. CASE ~failSafe
  <2>1. msg[x].epoch - 1 \in Nat
    BY EpochType DEF Inv
  <2>2. /\ durable' = durable /\ wal' = Update("soft", msg[x].epoch - 1)
        /\ UNCHANGED <<failSafe, normal, soft, cache, head, auth, task, acked, msg>>
        /\ store[x].st = "soft"
    BY <1>2 DEF WriteSoftSeal, memory, history
  <2>3. /\ Held' /\ AllCovered'
        /\ Disk'.normal = Disk.normal
        /\ Disk'.soft >= Disk.soft /\ msg[x].epoch =< Disk'.soft + 1
        /\ Disk'.records = Disk.records
        /\ Disk.normal \in Nat /\ Disk.soft \in Nat /\ Disk'.soft \in Nat
        /\ Disk.records \subseteq Stores
        /\ \A z \in Stores : msg[z].epoch \in Nat \ {0}
    <3>1. /\ Held' /\ AllCovered'
          /\ Disk'.normal = Disk.normal
          /\ Disk'.soft = IF msg[x].epoch - 1 > Disk.soft
                          THEN msg[x].epoch - 1 ELSE Disk.soft
          /\ Disk'.records = Disk.records
          /\ Disk.normal \in Nat /\ Disk.soft \in Nat
          /\ Disk.records \subseteq Stores
          /\ \A z \in Stores : msg[z].epoch \in Nat \ {0}
      BY <2>1, <2>2, SealWrite
    <3>2. QED
      BY <3>1
  <2>4. Moves(x) /\ store'[x].st = "softened"
    <3>1. Moves(x) /\ store'[x] = At("softened")
      BY <1>2, MoveFacts DEF WriteSoftSeal
    <3>2. QED
      BY <3>1 DEF At
  <2>5. Layout'
    BY <2>2, <2>3, <2>4 DEF Inv, Shape, Layout, Moves
  <2>6. StoreShape'
    BY <2>3, <2>4 DEF Inv, Shape, StoreShape, Moves
  <2>7. TaskShape'
    BY <2>2, <2>3 DEF Inv, Shape, TaskShape
  <2>8. AckedDone'
    BY <2>2, <2>4 DEF Inv, Shape, AckedDone, Moves
  <2>9. MemoryInv'
    BY <2>2, <2>3 DEF Inv, Shape, Layout, MemoryInv
  <2>10. SealsKnown'
    BY <2>2, <2>4 DEF Inv, SoftInv, SealsKnown, Moves, Checked
  <2>11. PathSoft'
    BY <2>2, <2>3, <2>4 DEF Inv, SoftInv, PathSoft, Moves
  <2>12. AckedSoft'
    BY <2>2 DEF Inv, SoftInv, AckedSoft
  <2>13. RecoveredSoft'
    BY <2>2, <2>4 DEF Inv, SoftInv, RecoveredSoft, Moves
  <2>14. AheadInv'
    BY <2>2 DEF Inv, AheadInv, Answered
  <2>15. QED
    BY <2>3, <2>5, <2>6, <2>7, <2>8, <2>9, <2>10, <2>11, <2>12, <2>13, <2>14
       DEF Inv, Shape, SoftInv
<1>3. QED
  BY <1>1, <1>2

LEMMA WriteStep ==
    ASSUME Inv, NEW x \in Stores, Write(x)
    PROVE  Inv'
<1>1. CASE failSafe
  <2>1. Moves(x) /\ store'[x] = Done("DISABLED")
    BY <1>1, MoveFacts DEF Write
  <2>2. store'[x].st = "done" /\ store[x].st = "admitted"
    BY <2>1 DEF Done, Write
  <2>3. UNCHANGED <<durable, wal, failSafe, memory, task, acked, msg>>
    BY <1>1 DEF Write, history
  <2>4. QED
    BY <2>1, <2>2, <2>3, QuietMove DEF Checked
<1>2. CASE ~failSafe
  <2>1. PICK r \in Logged : r = [kind |-> "record", value |-> x]
    BY DEF Logged
  <2>2. r.kind = "record" /\ r.value = x
    BY <2>1
  <2>3. /\ durable' = durable /\ wal' = Append(wal, r)
        /\ UNCHANGED <<failSafe, normal, soft, cache, head, auth, task, acked, msg>>
        /\ store[x].st = "admitted"
    BY <1>2, <2>1 DEF Write, memory, history
  <2>4. msg[x].epoch =< soft + 1
    BY <1>2, <2>3 DEF Inv, SoftInv, PathSoft
  <2>5. /\ Held /\ AllCovered
        /\ \A z \in Stores : msg[z].epoch \in Nat \ {0}
        /\ Disk.normal \in Nat /\ Disk.soft \in Nat
        /\ Disk.records \subseteq Stores /\ Covers(Disk)
    <3>1. Held /\ AllCovered /\ \A z \in Stores : msg[z].epoch \in Nat \ {0}
      BY EpochType DEF Inv, Shape, Layout, SoftInv
    <3>2. QED
      BY <3>1, DiskFacts DEF AllCovered, Disk
  <2>6. /\ Held'
        /\ Disk'.normal = Disk.normal /\ Disk'.soft = Disk.soft
        /\ Disk'.records = Disk.records \cup {x}
        /\ AllCovered /\ UNCHANGED msg /\ Covers(Disk)' => AllCovered'
    BY <2>2, <2>3, <2>5, OneWrite
  <2>7. AllCovered'
    <3>1. soft \in Int /\ soft =< Disk.soft
      BY DEF Inv, Shape, Layout, MemoryInv
    <3>2. Covers(Disk)'
      BY <2>3, <2>4, <2>5, <2>6, <3>1 DEF Covers
    <3>3. QED
      BY <2>3, <2>5, <2>6, <3>2
  <2>8. Moves(x) /\ store'[x].st = "written"
    <3>1. Moves(x) /\ store'[x] = At("written")
      BY <1>2, MoveFacts DEF Write
    <3>2. QED
      BY <3>1 DEF At
  <2>9. Layout'
    BY <2>3, <2>6, <2>8 DEF Inv, Shape, Layout, Moves
  <2>10. StoreShape'
    BY <2>6, <2>8 DEF Inv, Shape, StoreShape, Moves
  <2>11. TaskShape'
    BY <2>3, <2>6 DEF Inv, Shape, TaskShape
  <2>12. AckedDone'
    BY <2>3, <2>8 DEF Inv, Shape, AckedDone, Moves
  <2>13. MemoryInv'
    BY <2>3, <2>6 DEF Inv, MemoryInv
  <2>14. SealsKnown'
    BY <2>3, <2>8 DEF Inv, SoftInv, SealsKnown, Moves, Checked
  <2>15. PathSoft'
    BY <2>3, <2>4, <2>6, <2>8 DEF Inv, SoftInv, PathSoft, Moves
  <2>16. AckedSoft'
    BY <2>3 DEF Inv, SoftInv, AckedSoft
  <2>17. RecoveredSoft'
    BY <2>3, <2>8 DEF Inv, SoftInv, RecoveredSoft, Moves
  <2>18. AheadInv'
    BY <2>3 DEF Inv, AheadInv, Answered
  <2>19. QED
    BY <2>6, <2>7, <2>9, <2>10, <2>11, <2>12, <2>13, <2>14, <2>15, <2>16,
       <2>17, <2>18 DEF Inv, Shape, SoftInv
<1>3. QED
  BY <1>1, <1>2

LEMMA PutCacheStep ==
    ASSUME Inv, NEW x \in Stores, PutCache(x)
    PROVE  Inv'
<1>1. /\ Held' /\ Disk' = Disk /\ AllCovered'
      /\ \A z \in Stores : msg[z].epoch \in Nat \ {0}
  BY QuietDisk DEF PutCache, history
<1>2. /\ UNCHANGED <<failSafe, normal, soft, task, msg>>
      /\ acked' = acked \cup {x} /\ store[x].st = "written"
      /\ cache' = cache \/ cache' = cache \cup {x}
      /\ head' \in {head, msg[x].epoch}
      /\ auth' \in {auth, Authoritative(soft)}
  BY DEF PutCache, history
<1>3. Moves(x) /\ store'[x].st = "done"
  <2>1. Moves(x) /\ store'[x] = Done("OK")
    BY MoveFacts DEF PutCache
  <2>2. QED
    BY <2>1 DEF Done
<1>4. /\ soft # -1 /\ normal # -1 /\ msg[x].epoch =< soft + 1
      /\ x \in Disk.records
  BY <1>2 DEF Inv, Shape, StoreShape, SoftInv, SealsKnown, PathSoft, Checked
<1>5. Layout'
  BY <1>1, <1>2, <1>3 DEF Inv, Shape, Layout, Moves, Authoritative
<1>6. StoreShape'
  BY <1>1, <1>3 DEF Inv, Shape, StoreShape, Moves
<1>7. TaskShape'
  BY <1>1, <1>2 DEF Inv, Shape, TaskShape
<1>8. AckedDone'
  BY <1>2, <1>3 DEF Inv, Shape, AckedDone, Moves
<1>9. MemoryInv'
  BY <1>1, <1>2, <1>4 DEF Inv, MemoryInv
<1>10. SealsKnown'
  BY <1>2, <1>4 DEF SealsKnown
<1>11. PathSoft'
  BY <1>1, <1>2, <1>3 DEF Inv, SoftInv, PathSoft, Moves
<1>12. AckedSoft'
  BY <1>2, <1>4 DEF Inv, SoftInv, AckedSoft
<1>13. RecoveredSoft'
  BY <1>2, <1>4 DEF RecoveredSoft
<1>14. AheadInv'
  BY <1>2 DEF Inv, AheadInv, Answered
<1>15. QED
  BY <1>1, <1>5, <1>6, <1>7, <1>8, <1>9, <1>10, <1>11, <1>12, <1>13, <1>14
     DEF Inv, Shape, SoftInv

\* SEAL y moves, and only y.
TaskMoves(y) ==
    /\ \A z \in Seals \ {y} : task'[z] = task[z]
    /\ task' = [z \in Seals |-> task'[z]]

LEMMA TaskMoveFacts ==
    ASSUME Inv, NEW y \in Seals, NEW v, task' = [task EXCEPT ![y] = v]
    PROVE  TaskMoves(y) /\ task'[y] = v
BY DEF Inv, Shape, Layout, TaskMoves

\* A move of a SEAL that changes no seal and writes nothing.
LEMMA QuietTask ==
    ASSUME Inv, NEW y \in Seals, TaskMoves(y), Held', AllCovered',
           Disk'.normal = Disk.normal, Disk'.soft = Disk.soft,
           Disk'.records = Disk.records,
           UNCHANGED <<failSafe, memory, store, acked, msg>>,
           TaskShape', AheadInv'
    PROVE  Inv'
<1>2. UNCHANGED <<failSafe, normal, soft, cache, head, auth, store, acked, msg>>
  BY DEF memory
<1>3. Layout'
  BY <1>2 DEF Inv, Shape, Layout, TaskMoves
<1>4. StoreShape'
  BY <1>2 DEF Inv, Shape, StoreShape
<1>5. AckedDone'
  BY <1>2 DEF Inv, Shape, AckedDone
<1>6. MemoryInv'
  BY <1>2 DEF Inv, MemoryInv
<1>7. SealsKnown'
  BY <1>2 DEF Inv, SoftInv, SealsKnown
<1>8. PathSoft'
  BY <1>2 DEF Inv, SoftInv, PathSoft
<1>9. AckedSoft'
  BY <1>2 DEF Inv, SoftInv, AckedSoft
<1>10. RecoveredSoft'
  BY <1>2 DEF Inv, SoftInv, RecoveredSoft
<1>11. QED
  BY <1>3, <1>4, <1>5, <1>6, <1>7, <1>8, <1>9, <1>10 DEF Inv, Shape, SoftInv

LEMMA ReceiveSealStep ==
    ASSUME Inv, NEW y \in Seals, ReceiveSeal(y)
    PROVE  Inv'
<1>1. /\ Held' /\ Disk' = Disk /\ AllCovered'
      /\ Disk.soft \in Nat /\ Disk.normal \in Nat /\ Covers(Disk)
      /\ \A z \in Stores : msg[z].epoch \in Nat \ {0}
  BY QuietDisk DEF ReceiveSeal, history
<1>2. CASE normal > SealOf[y].epoch
  <2>1. TaskMoves(y) /\ task'[y] = Done("PREEMPTED")
    BY <1>2, TaskMoveFacts DEF ReceiveSeal
  <2>2. task'[y].st = "done" /\ task'[y].status = "PREEMPTED"
    BY <2>1 DEF Done
  <2>3. UNCHANGED <<failSafe, memory, store, acked, msg>>
    BY <1>2 DEF ReceiveSeal, memory, history
  <2>4. TaskShape'
    BY <1>1, <2>1, <2>2 DEF Inv, Shape, TaskShape, TaskMoves
  <2>5. AheadInv'
    BY <2>1, <2>2, <2>3 DEF Inv, AheadInv, TaskMoves, Answered, memory
  <2>6. QED
    BY <1>1, <2>1, <2>3, <2>4, <2>5, QuietTask
<1>3. CASE ~(normal > SealOf[y].epoch)
  <2>1. TaskMoves(y) /\ task'[y] = [st |-> "started", ahead |-> LastAcked]
    BY <1>3, TaskMoveFacts DEF ReceiveSeal
  <2>2. task'[y].st = "started" /\ task'[y].ahead = LastAcked
    BY <2>1
  <2>3. /\ UNCHANGED <<failSafe, normal, cache, head, store, acked, msg>>
        /\ soft' = IF soft = -1 THEN Disk.soft ELSE soft
        /\ auth' = Authoritative(soft')
    BY <1>3 DEF ReceiveSeal, history
  <2>4. soft \in Int /\ soft >= -1 /\ soft =< Disk.soft
    BY DEF Inv, Shape, Layout, MemoryInv
  <2>5. soft' \in Nat /\ soft' >= soft /\ soft' =< Disk.soft
    BY <1>1, <2>3, <2>4
  <2>6. \A z \in acked : z \in Stores /\ msg[z].epoch =< soft' + 1
    <3>1. acked \subseteq Disk.records /\ \A z \in acked : z \in Stores
      BY DEF Inv, Shape, AckedDone, MemoryInv
    <3>2. CASE soft = -1
      BY <1>1, <2>3, <3>1, <3>2 DEF Covers
    <3>3. CASE soft # -1
      BY <2>3, <3>1, <3>3 DEF Inv, SoftInv, AckedSoft
    <3>4. QED
      BY <3>2, <3>3
  <2>7. LastAcked \in Nat /\ LastAcked =< soft' + 1
    <3>1. acked \subseteq Stores
      BY <2>6
    <3>2. /\ LastAcked \in Nat
          /\ LastAcked = 0 \/ \E z \in acked : msg[z].epoch = LastAcked
      BY <3>1, LastAckedFacts DEF Inv
    <3>3. QED
      BY <2>5, <2>6, <3>2
  <2>8. Layout'
    BY <1>1, <2>1, <2>3, <2>5 DEF Inv, Shape, Layout, TaskMoves, Authoritative
  <2>9. StoreShape'
    BY <1>1, <2>3 DEF Inv, Shape, StoreShape
  <2>10. TaskShape'
    BY <1>1, <2>1, <2>2 DEF Inv, Shape, TaskShape, TaskMoves
  <2>11. AckedDone'
    BY <2>3 DEF Inv, Shape, AckedDone
  <2>12. MemoryInv'
    BY <1>1, <2>3, <2>4, <2>5 DEF Inv, MemoryInv
  <2>13. SealsKnown'
    BY <2>3, <2>5 DEF Inv, SoftInv, SealsKnown
  <2>14. PathSoft'
    BY <1>1, <2>3, <2>4, <2>5 DEF Inv, SoftInv, PathSoft
  <2>15. AckedSoft'
    BY <2>3, <2>6 DEF AckedSoft
  <2>16. RecoveredSoft'
    BY <2>5 DEF RecoveredSoft
  <2>17. AheadInv'
    BY <2>1, <2>2, <2>3, <2>4, <2>5, <2>7 DEF Inv, AheadInv, TaskMoves, Answered
  <2>18. QED
    BY <1>1, <2>8, <2>9, <2>10, <2>11, <2>12, <2>13, <2>14, <2>15, <2>16, <2>17
       DEF Inv, Shape, SoftInv
<1>4. QED
  BY <1>2, <1>3

LEMMA WriteSealStep ==
    ASSUME Inv, NEW y \in Seals, WriteSeal(y)
    PROVE  Inv'
<1>1. /\ task[y].st = "started" /\ durable' = durable
      /\ UNCHANGED <<failSafe, memory, store, acked, msg>>
      /\ SealOf[y].epoch \in Nat
  BY ShardSealAssumption DEF WriteSeal, history
<1>2. CASE failSafe
  <2>1. TaskMoves(y) /\ task'[y] = Done("FAILED") /\ wal' = wal
    BY <1>2, TaskMoveFacts DEF WriteSeal
  <2>2. task'[y].st = "done" /\ task'[y].status = "FAILED"
    BY <2>1 DEF Done
  <2>3. Held' /\ Disk' = Disk /\ AllCovered'
    BY <1>1, <2>1, QuietDisk
  <2>4. TaskShape'
    BY <2>1, <2>2, <2>3 DEF Inv, Shape, TaskShape, TaskMoves
  <2>5. AheadInv'
    BY <1>1, <2>1, <2>2 DEF Inv, AheadInv, TaskMoves, Answered, memory
  <2>6. QED
    BY <1>1, <2>1, <2>3, <2>4, <2>5, QuietTask
<1>3. CASE ~failSafe
  <2>1. /\ TaskMoves(y) /\ wal' = Update("normal", SealOf[y].epoch)
        /\ task'[y] = [st |-> "stored", ahead |-> task[y].ahead,
                       sync |-> SealOf[y].epoch > Disk.normal,
                       seal |-> Max({SealOf[y].epoch, Disk.normal})]
    BY <1>3, TaskMoveFacts DEF WriteSeal
  <2>2. /\ Held' /\ AllCovered'
        /\ Disk'.normal = IF SealOf[y].epoch > Disk.normal
                          THEN SealOf[y].epoch ELSE Disk.normal
        /\ Disk'.soft = Disk.soft
        /\ Disk'.records = Disk.records
        /\ Disk.normal \in Nat /\ Disk.soft \in Nat
        /\ Disk.records \subseteq Stores
    BY <1>1, <2>1, SealWrite
  <2>3. /\ task'[y].st = "stored" /\ task'[y].ahead = task[y].ahead
        /\ task'[y].seal \in Nat /\ task'[y].seal = Disk'.normal
        /\ task'[y] = [st |-> "stored", ahead |-> task'[y].ahead,
                       sync |-> task'[y].sync, seal |-> task'[y].seal]
    <3>1. /\ task'[y].st = "stored" /\ task'[y].ahead = task[y].ahead
          /\ task'[y].seal = Max({SealOf[y].epoch, Disk.normal})
          /\ task'[y] = [st |-> "stored", ahead |-> task'[y].ahead,
                         sync |-> task'[y].sync, seal |-> task'[y].seal]
      BY <2>1
    <3>2. SealOf[y].epoch \in Int /\ Disk.normal \in Int
      BY <1>1, <2>2
    <3>3. Max({SealOf[y].epoch, Disk.normal}) =
            IF SealOf[y].epoch >= Disk.normal THEN SealOf[y].epoch ELSE Disk.normal
      BY <3>2, MaxOfTwo, Zenon
    <3>4. QED
      BY <1>1, <2>2, <3>1, <3>3
  <2>4. UNCHANGED <<failSafe, normal, soft, cache, head, auth, store, acked, msg>>
    BY <1>1 DEF memory
  <2>5. Disk'.normal >= Disk.normal /\ Disk'.normal \in Nat
    BY <1>1, <2>2
  <2>6. Layout'
    BY <2>1, <2>2, <2>4 DEF Inv, Shape, Layout, TaskMoves
  <2>7. StoreShape'
    BY <2>2, <2>4, <2>5 DEF Inv, Shape, StoreShape
  <2>8. TaskShape'
    <3>1. SUFFICES ASSUME NEW z \in Seals
                   PROVE  /\ task'[z].st \in {"stored", "sealed"} =>
                               /\ task'[z].seal \in Nat
                               /\ task'[z].seal =< Disk'.normal
                          /\ task'[z].st = "stored" =>
                               task'[z] = [st |-> "stored", ahead |-> task'[z].ahead,
                                   sync |-> task'[z].sync, seal |-> task'[z].seal]
      BY DEF TaskShape
    <3>2. CASE z = y
      BY <2>3, <2>5, <3>2
    <3>3. CASE z # y
      <4>1. task'[z] = task[z]
        BY <2>1, <3>3 DEF TaskMoves
      <4>2. /\ task[z].st \in {"stored", "sealed"} =>
                 task[z].seal \in Nat /\ task[z].seal =< Disk.normal
            /\ task[z].st = "stored" =>
                 task[z] = [st |-> "stored", ahead |-> task[z].ahead,
                            sync |-> task[z].sync, seal |-> task[z].seal]
        BY DEF Inv, Shape, TaskShape
      <4>3. task[z].st \in {"stored", "sealed"} =>
                 task[z].seal \in Nat /\ task[z].seal =< Disk'.normal
        BY <2>2, <2>5, <4>2
      <4>4. QED
        BY <4>1, <4>2, <4>3, Zenon
    <3>4. QED
      BY <3>2, <3>3
  <2>9. AckedDone'
    BY <2>4 DEF Inv, Shape, AckedDone
  <2>10. MemoryInv'
    BY <2>2, <2>4, <2>5 DEF Inv, Shape, Layout, MemoryInv
  <2>11. SealsKnown'
    BY <2>4 DEF Inv, SoftInv, SealsKnown
  <2>12. PathSoft'
    BY <2>2, <2>4 DEF Inv, SoftInv, PathSoft
  <2>13. AckedSoft'
    BY <2>4 DEF Inv, SoftInv, AckedSoft
  <2>14. RecoveredSoft'
    BY <2>4 DEF Inv, SoftInv, RecoveredSoft
  <2>15. AheadInv'
    BY <1>1, <2>1, <2>3, <2>4 DEF Inv, AheadInv, TaskMoves, Answered
  <2>16. QED
    BY <2>2, <2>6, <2>7, <2>8, <2>9, <2>10, <2>11, <2>12, <2>13, <2>14, <2>15
       DEF Inv, Shape, SoftInv
<1>4. QED
  BY <1>2, <1>3

LEMMA PublishSealStep ==
    ASSUME Inv, NEW y \in Seals, PublishSeal(y)
    PROVE  Inv'
<1> DEFINE n == Max({normal, task[y].seal})
<1>1. /\ Held' /\ Disk' = Disk /\ AllCovered' /\ Disk.normal \in Nat
  BY QuietDisk DEF PublishSeal, history
<1>2. /\ normal' = n /\ task[y].st = "stored"
      /\ UNCHANGED <<failSafe, soft, cache, head, auth, store, acked, msg>>
      /\ task' = [task EXCEPT ![y].st = "sealed", ![y].seal = n]
  BY DEF PublishSeal, history
<1>3. n \in Nat /\ n >= normal /\ n =< Disk.normal
  <2>1. /\ normal \in Int /\ normal =< Disk.normal
        /\ task[y].seal \in Nat /\ task[y].seal =< Disk.normal
    BY <1>2 DEF Inv, Shape, Layout, TaskShape, MemoryInv
  <2>2. task[y].seal \in Int
    BY <2>1
  <2>3. n = IF normal >= task[y].seal THEN normal ELSE task[y].seal
    BY <2>1, <2>2, MaxOfTwo, Zenon
  <2> HIDE DEF n
  <2>4. QED
    BY <1>1, <2>1, <2>3
<1> HIDE DEF n
<1>4. /\ TaskMoves(y)
      /\ task'[y] = [task[y] EXCEPT !.st = "sealed", !.seal = n]
  BY <1>2 DEF Inv, Shape, Layout, TaskMoves
<1>5. /\ task'[y].st = "sealed" /\ task'[y].seal = n
      /\ task'[y].ahead = task[y].ahead
  <2>1. task[y] = [st |-> "stored", ahead |-> task[y].ahead,
                   sync |-> task[y].sync, seal |-> task[y].seal]
    BY <1>2 DEF Inv, Shape, TaskShape
  <2>2. QED
    BY <1>4, <2>1
<1>6. Layout'
  BY <1>1, <1>2, <1>3, <1>4 DEF Inv, Shape, Layout, TaskMoves
<1>7. StoreShape'
  BY <1>1, <1>2 DEF Inv, Shape, StoreShape
<1>8. TaskShape'
  BY <1>1, <1>3, <1>4, <1>5 DEF Inv, Shape, TaskShape, TaskMoves
<1>9. AckedDone'
  BY <1>2 DEF Inv, Shape, AckedDone
<1>10. MemoryInv'
  BY <1>1, <1>2, <1>3 DEF Inv, MemoryInv
<1>11. SealsKnown'
  BY <1>2, <1>3 DEF Inv, Shape, Layout, SoftInv, SealsKnown
<1>12. PathSoft'
  BY <1>1, <1>2 DEF Inv, SoftInv, PathSoft
<1>13. AckedSoft'
  BY <1>2 DEF Inv, SoftInv, AckedSoft
<1>14. RecoveredSoft'
  BY <1>2 DEF Inv, SoftInv, RecoveredSoft
<1>15. AheadInv'
  BY <1>2, <1>4, <1>5 DEF Inv, AheadInv, TaskMoves, Answered
<1>16. QED
  BY <1>1, <1>6, <1>7, <1>8, <1>9, <1>10, <1>11, <1>12, <1>13, <1>14, <1>15
     DEF Inv, Shape, SoftInv

LEMMA TakeStockStep ==
    ASSUME Inv, NEW y \in Seals, TakeStock(y)
    PROVE  Inv'
<1>1. /\ Held' /\ Disk' = Disk /\ AllCovered'
  BY QuietDisk DEF TakeStock, history
<1>2. /\ task[y].st = "sealed" /\ UNCHANGED <<failSafe, memory, store, acked, msg>>
      /\ UNCHANGED soft
  BY DEF TakeStock, history, memory
<1>3. /\ TaskMoves(y)
      /\ \/ task'[y].st = "preempted"
         \/ /\ ~IsOutdated(y) /\ task'[y].st = "stocked"
            /\ task'[y].ahead = task[y].ahead
  <2> DEFINE Info(S) == [st |-> "stocked", ahead |-> task[y].ahead,
                         sync |-> task[y].sync,
                         info |-> {x \in S : InRange(x, y)},
                         late |-> {x \in InFlight \ S : InRange(x, y)}]
  <2>1. PICK v : /\ task' = [task EXCEPT ![y] = v]
                 /\ \/ v = [st |-> "preempted", sync |-> task[y].sync]
                    \/ ~IsOutdated(y) /\ v = Info(Disk.records)
                    \/ ~IsOutdated(y) /\ v = Info(cache)
    BY DEF TakeStock
  <2>2. TaskMoves(y) /\ task'[y] = v
    <3> HIDE DEF Info
    <3>1. QED
      BY <2>1, TaskMoveFacts
  <2>3. QED
    BY <2>1, <2>2
<1>4. TaskShape'
  BY <1>1, <1>3 DEF Inv, Shape, TaskShape, TaskMoves
<1>5. ~IsOutdated(y) => task[y].ahead =< Epoch(y) + 1
  <2>1. /\ task[y].ahead \in Nat /\ task[y].ahead =< soft + 1
        /\ soft \in Int /\ task[y].seal \in Nat
        /\ Epoch(y) \in Nat
    BY <1>2, ShardSealAssumption DEF Inv, Shape, Layout, TaskShape, AheadInv, Epoch
  <2>2. QED
    BY <2>1 DEF IsOutdated, Epoch
<1>6. AheadInv'
  BY <1>2, <1>3, <1>5 DEF Inv, AheadInv, TaskMoves, Answered
<1>7. QED
  BY <1>1, <1>2, <1>3, <1>4, <1>6, QuietTask

LEMMA AnswerSealStep ==
    ASSUME Inv, NEW y \in Seals, AnswerSeal(y)
    PROVE  Inv'
<1>1. /\ Held' /\ AllCovered'
      /\ Disk'.normal = Disk.normal /\ Disk'.soft = Disk.soft
      /\ Disk'.records = Disk.records
  <2>1. CASE NeedsSync(y)
    <3>1. Held /\ AllCovered
      BY DEF Inv, Shape, Layout, SoftInv
    <3>2. /\ durable' = Applied(Len(wal)) /\ wal' = <<>>
          /\ Len(wal) \in 0 .. Len(wal) /\ UNCHANGED msg
      BY <2>1, <3>1, DiskFacts DEF AnswerSeal, Disk, history
    <3>3. QED
      BY <3>1, <3>2, Settled DEF Disk
  <2>2. CASE ~NeedsSync(y)
    BY <2>2, QuietDisk DEF AnswerSeal, history
  <2>3. QED
    BY <2>1, <2>2
<1>2. /\ task[y].st \in {"stocked", "preempted"}
      /\ UNCHANGED <<failSafe, memory, store, acked, msg>>
      /\ UNCHANGED soft
  BY DEF AnswerSeal, history, memory
<1>3. /\ TaskMoves(y) /\ task'[y].st = "done"
      /\ \/ task'[y].status = "PREEMPTED"
         \/ /\ task[y].st = "stocked" /\ task'[y].status = "OK"
            /\ task'[y].ahead = task[y].ahead
  <2> DEFINE v == IF task[y].st = "preempted" THEN Done("PREEMPTED")
                  ELSE [st |-> "done", status |-> "OK", ahead |-> task[y].ahead,
                        info |-> task[y].info, late |-> task[y].late]
  <2>1. task' = [task EXCEPT ![y] = v]
    BY DEF AnswerSeal
  <2>2. TaskMoves(y) /\ task'[y] = v
    <3> HIDE DEF v
    <3>1. QED
      BY <2>1, TaskMoveFacts
  <2>3. QED
    BY <1>2, <2>2 DEF Done
<1>4. TaskShape'
  BY <1>1, <1>3 DEF Inv, Shape, TaskShape, TaskMoves
<1>5. AheadInv'
  BY <1>2, <1>3 DEF Inv, AheadInv, TaskMoves, Answered
<1>6. QED
  BY <1>1, <1>2, <1>3, <1>4, <1>5, QuietTask

LEMMA EnterFailSafeStep ==
    ASSUME Inv, EnterFailSafe
    PROVE  Inv'
<1>1. /\ Held' /\ Disk' = Disk /\ AllCovered'
  BY QuietDisk DEF EnterFailSafe, history
<1>2. /\ UNCHANGED <<normal, soft, cache, head, auth, store, task, acked, msg>>
      /\ failSafe' = TRUE
  BY DEF EnterFailSafe, memory, history
<1>3. Shape'
  BY <1>1, <1>2 DEF Inv, Shape, Layout, StoreShape, TaskShape, AckedDone
<1>4. MemoryInv'
  BY <1>1, <1>2 DEF Inv, MemoryInv
<1>5. SealsKnown' /\ AckedSoft' /\ RecoveredSoft'
  BY <1>2 DEF Inv, SoftInv, SealsKnown, AckedSoft, RecoveredSoft
<1>6. PathSoft'
  BY <1>1, <1>2 DEF Inv, SoftInv, PathSoft
<1>7. AheadInv'
  BY <1>2 DEF Inv, AheadInv, Answered
<1>8. QED
  BY <1>1, <1>3, <1>4, <1>5, <1>6, <1>7 DEF Inv, SoftInv

LEMMA CrashStep ==
    ASSUME Inv, NEW kept \in 0 .. Len(wal), Crash(kept)
    PROVE  Inv'
<1>1. /\ durable' = Applied(kept) /\ wal' = <<>> /\ UNCHANGED msg
      /\ failSafe' = FALSE
      /\ normal' = -1 /\ soft' = -1 /\ auth' = -1 /\ head' = 0 /\ cache' = {}
      /\ acked' = acked \cap Applied(kept).records
  BY DEF Crash, history
<1>2. /\ store' = [x \in Stores |-> IF store[x].st = "done" THEN store[x]
                                    ELSE At("new")]
      /\ task' = [y \in Seals |-> IF task[y].st = "done" THEN task[y]
                                  ELSE At("new")]
  BY DEF Crash
<1>3. /\ Held /\ AllCovered
  BY DEF Inv, Shape, Layout, SoftInv
<1>4. /\ Held' /\ AllCovered'
      /\ Disk'.normal = Applied(kept).normal /\ Disk'.soft = Applied(kept).soft
      /\ Disk'.records = Applied(kept).records
      /\ Applied(kept).normal \in Nat /\ Applied(kept).soft \in Nat
  BY <1>1, <1>3, Settled, DiskFacts
<1>5. /\ \A x \in Stores : \/ store'[x].st = "new"
                           \/ store[x].st = "done" /\ store'[x] = store[x]
      /\ \A y \in Seals : \/ task'[y].st = "new"
                          \/ task[y].st = "done" /\ task'[y] = task[y]
      /\ \A x \in Stores : store[x].st = "done" => store'[x] = store[x]
      /\ store' = [x \in Stores |-> store'[x]]
      /\ task' = [y \in Seals |-> task'[y]]
  BY <1>2 DEF At
<1>6. Layout'
  BY <1>1, <1>4, <1>5 DEF Inv, Shape, Layout
<1>7. StoreShape'
  BY <1>5 DEF StoreShape
<1>8. TaskShape'
  BY <1>5 DEF TaskShape
<1>9. AckedDone'
  BY <1>1, <1>5 DEF Inv, Shape, AckedDone
<1>10. MemoryInv'
  <2>1. /\ normal' >= -1 /\ normal' =< Disk'.normal
        /\ soft' >= -1 /\ soft' =< Disk'.soft
    BY <1>1, <1>4
  <2>2. /\ cache' \subseteq Disk'.records /\ acked' \subseteq Disk'.records
        /\ failSafe' \in BOOLEAN
    BY <1>1, <1>4, Zenon
  <2>3. QED
    BY <2>1, <2>2, Zenon DEF MemoryInv
<1>11. SealsKnown'
  BY <1>5 DEF SealsKnown, Checked
<1>12. PathSoft' /\ RecoveredSoft'
  BY <1>5 DEF PathSoft, RecoveredSoft
<1>13. AckedSoft'
  BY <1>1 DEF AckedSoft
<1>14. AheadInv'
  BY <1>5 DEF Inv, AheadInv, Answered
<1>15. QED
  BY <1>4, <1>6, <1>7, <1>8, <1>9, <1>10, <1>11, <1>12, <1>13, <1>14
     DEF Inv, Shape, SoftInv

LEMMA Stutter ==
    ASSUME Inv, UNCHANGED vars
    PROVE  Inv'
<1>1. UNCHANGED <<durable, wal, failSafe, normal, soft, cache, head, auth, msg,
                  store, task, acked>>
  BY DEF vars, memory, history
<1>2. Held' /\ Disk' = Disk /\ AllCovered'
  BY <1>1, QuietDisk
<1>3. Shape'
  BY <1>1, <1>2 DEF Inv, Shape, Layout, StoreShape, TaskShape, AckedDone
<1>4. MemoryInv' /\ SealsKnown' /\ AckedSoft' /\ RecoveredSoft' /\ PathSoft'
  BY <1>1, <1>2
     DEF Inv, MemoryInv, SoftInv, SealsKnown, AckedSoft, RecoveredSoft, PathSoft
<1>5. AheadInv'
  BY <1>1 DEF Inv, AheadInv, Answered
<1>6. QED
  BY <1>2, <1>3, <1>4, <1>5 DEF Inv, SoftInv

LEMMA InvStep == Inv /\ [Next]_vars => Inv'
<1>1. SUFFICES ASSUME Inv, [Next]_vars PROVE Inv'
  OBVIOUS
<1>2. ASSUME NEW x \in Stores, StoreNext(x) PROVE Inv'
  BY <1>1, <1>2, ArriveStep, ReadSealsStep, SealsRecoveredStep,
     WriteSoftSealStep, SoftSealedStep, DroppedStep, AdmitStep, WriteStep,
     PutCacheStep DEF StoreNext
<1>3. ASSUME NEW y \in Seals, SealNext(y) PROVE Inv'
  BY <1>1, <1>3, ReceiveSealStep, WriteSealStep, PublishSealStep,
     TakeStockStep, AnswerSealStep DEF SealNext
<1>4. QED
  BY <1>1, <1>2, <1>3, EnterFailSafeStep, CrashStep, Stutter DEF Next

LEMMA Invariance == Spec => []Inv
BY Start, InvStep, PTL DEF Spec

\* The seals in memory, the record cache and the acknowledged stores of a shard
\* never run ahead of its local log store, through crashes that lose writes.
THEOREM MemoryNeverAhead == Spec => []TypeOK
BY Invariance, InvTyped, PTL

LEMMA InvSoft == Inv => SoftSealCoversRecords
<1>1. SUFFICES ASSUME Inv PROVE Covers(Disk)
  BY DEF SoftSealCoversRecords, Covers
<1>2. Held /\ AllCovered
  BY <1>1 DEF Inv, Shape, Layout, SoftInv
<1>3. QED
  BY <1>2, DiskFacts DEF AllCovered, Disk

\* The record cache may take an epoch past the soft seal and the next one to
\* have no records (RecordCache::updateLastNonAuthoritativeEpoch()).
THEOREM SoftSealsSuffice == Spec => []SoftSealCoversRecords
BY Invariance, InvSoft, PTL

LEMMA InvAhead == Inv => OutdatedSealPreempted
BY DEF Inv, AheadInv, OutdatedSealPreempted, Answered, Epoch

\* A SEAL that follows an acknowledged store of a later sequencer is not
\* answered OK (SealStorageTask::checkSoftSeals()).
THEOREM LaterSequencerPreempts == Spec => []OutdatedSealPreempted
BY Invariance, InvAhead, PTL

-----------------------------------------------------------------------------
(* The invariant behind the seals.  SEALs of the same epoch break it: the  *)
(* second one finds its seal written, asks for no sync, and is answered    *)
(* while the first one has not synced.                                     *)

DistinctSeals == \A y, z \in Seals : Epoch(y) = Epoch(z) => y = z

\* A normal seal e waits for a sync.
HasSeal(e) == \E i \in 1 .. Len(wal) : wal[i].kind = "normal" /\ wal[i].value = e

\* The seal of a SEAL under way: where it is, and that it is durable when the
\* SEAL is about to be answered without a sync.
SealTask ==
    \A y \in Seals :
       /\ task[y].st \in {"stored", "sealed"} => task[y].seal >= Epoch(y)
       /\ task[y].st \in {"stored", "sealed", "stocked"} =>
             task[y].sync \in BOOLEAN /\ Disk.normal >= Epoch(y)
       /\ task[y].st \in {"sealed", "stocked"} => normal >= Epoch(y)
       /\ task[y].st \in {"stored", "sealed"} /\ task[y].sync = FALSE
             /\ task[y].seal =< Epoch(y) => durable.normal >= Epoch(y)
       /\ task[y].st = "stocked" /\ task[y].sync = FALSE =>
             durable.normal >= Epoch(y)

SealUnwritten ==
    \A y \in Seals : task[y].st \in {"new", "started"} => ~HasSeal(Epoch(y))

\* An answered seal is durable, and so is known whenever a seal is.
SealAnswered ==
    \A y \in Answered :
       /\ durable.normal >= Epoch(y)
       /\ normal # -1 => normal >= Epoch(y)
       /\ \A x \in Stores : store[x].st = "recovered" /\ normal = -1 =>
             store[x].normal >= Epoch(y)
       /\ \A z \in Seals : task[z].st = "stored" /\ normal = -1 =>
             task[z].seal >= Epoch(y)

\* Appends let through are past what was sealed when they arrived.
StoreSealed ==
    /\ sealedAt = [x \in Stores |-> sealedAt[x]]
    /\ \A x \in Stores :
          /\ IsAppend(x) /\ (store[x].st \in Checked \/ x \in acked) =>
                msg[x].epoch > sealedAt[x]
          /\ sealedAt[x] = 0 \/ \E y \in Answered : sealedAt[x] = Epoch(y)

SealInv == SealTask /\ SealUnwritten /\ SealAnswered /\ StoreSealed

LEMMA EpochOfSeal ==
    ASSUME NEW y \in Seals
    PROVE  Epoch(y) \in Nat \ {0}
BY ShardSealAssumption DEF Epoch

\* Where the seal on disk comes from.
LEMMA DiskSeal ==
    ASSUME Held
    PROVE  Disk.normal = durable.normal \/ HasSeal(Disk.normal)
<1>1. durable \in Contents /\ wal \in Seq(Logged) /\ Len(wal) \in 0 .. Len(wal)
  BY DEF Held
<1>2. LargestOf(Disk.normal, durable.normal, wal, Len(wal), "normal")
  BY <1>1, ReplayFacts DEF Disk, Applied
<1>3. QED
  BY <1>2 DEF LargestOf, HasSeal

LEMMA SealAppended ==
    ASSUME Held, NEW r \in Logged, wal' = Append(wal, r), NEW e, HasSeal(e)'
    PROVE  HasSeal(e) \/ (r.kind = "normal" /\ r.value = e)
<1>1. wal \in Seq(Logged) /\ Len(wal) \in Nat
  BY DEF Held
<1>2. PICK i \in 1 .. Len(wal') : wal'[i].kind = "normal" /\ wal'[i].value = e
  BY DEF HasSeal
<1>3. Len(wal') = Len(wal) + 1 /\ wal'[i] = IF i = Len(wal) + 1 THEN r ELSE wal[i]
  BY <1>1, <1>2
<1>4. QED
  BY <1>1, <1>2, <1>3 DEF HasSeal

\* What the step of a STORE leaves alone.
LEMMA StoreWrites ==
    ASSUME Inv, NEW x \in Stores, StoreNext(x)
    PROVE  /\ UNCHANGED <<durable, task, msg>> /\ Moves(x)
           /\ Disk'.normal = Disk.normal
           /\ \A e : HasSeal(e)' => HasSeal(e)
<1>1. Held /\ Len(wal) \in Nat
  BY DiskFacts DEF Inv, Shape, Layout
<1>2. /\ UNCHANGED <<durable, task, msg>> /\ Moves(x)
  <2>1. UNCHANGED <<durable, task, msg>>
    BY DEF StoreNext, Arrive, ReadSeals, SealsRecovered, WriteSoftSeal, SoftSealed,
           Dropped, Admit, Write, PutCache, history
  <2>2. \E v : store' = [store EXCEPT ![x] = v]
    BY DEF StoreNext, Arrive, ReadSeals, SealsRecovered, WriteSoftSeal, SoftSealed,
           Dropped, Admit, Write, PutCache
  <2>3. QED
    BY <2>1, <2>2, MoveFacts
<1>3. CASE wal' = wal
  BY <1>1, <1>2, <1>3, NoWrite DEF HasSeal
<1>4. CASE wal' # wal
  <2>1. PICK r \in Logged : wal' = Append(wal, r) /\ r.kind # "normal"
    <3>1. CASE WriteSoftSeal(x)
      <4>1. msg[x].epoch - 1 \in Nat
        BY EpochType DEF Inv
      <4>2. [kind |-> "soft", value |-> msg[x].epoch - 1] \in Logged
        BY <4>1 DEF Logged
      <4>3. wal' = Append(wal, [kind |-> "soft", value |-> msg[x].epoch - 1])
        BY <1>4, <3>1 DEF WriteSoftSeal, Update
      <4>4. QED
        BY <4>2, <4>3
    <3>2. CASE Write(x)
      <4>1. [kind |-> "record", value |-> x] \in Logged
        BY DEF Logged
      <4>2. wal' = Append(wal, [kind |-> "record", value |-> x])
        BY <1>4, <3>2 DEF Write
      <4>3. QED
        BY <4>1, <4>2
    <3>3. QED
      BY <1>4, <3>1, <3>2 DEF StoreNext, Arrive, ReadSeals, SealsRecovered,
                              SoftSealed, Dropped, Admit, PutCache
  <2>2. Disk'.normal = Disk.normal
    BY <1>1, <1>2, <2>1, OneWrite
  <2>3. \A e : HasSeal(e)' => HasSeal(e)
    BY <1>1, <2>1, SealAppended
  <2>4. QED
    BY <1>2, <2>2, <2>3
<1>5. QED
  BY <1>3, <1>4

\* The normal seal in memory only grows, and reaches what was read.
LEMMA SealGrows ==
    ASSUME Inv, NEW x \in Stores, StoreNext(x)
    PROVE  /\ normal \in Int /\ normal' \in Int /\ normal' >= normal
           /\ SealsRecovered(x) => normal' >= store[x].normal /\ normal' \in Nat
           /\ ~SealsRecovered(x) => normal' = normal
<1>1. normal \in Int
  BY DEF Inv, Shape, Layout
<1>2. CASE SealsRecovered(x)
  <2>1. /\ store[x].normal \in Nat /\ store[x].normal \in Int
        /\ normal' = Max({normal, store[x].normal})
    BY <1>2 DEF Inv, Shape, StoreShape, SealsRecovered
  <2>2. Max({normal, store[x].normal}) =
            IF normal >= store[x].normal THEN normal ELSE store[x].normal
    BY <1>1, <2>1, MaxOfTwo, Zenon
  <2>3. QED
    BY <1>1, <1>2, <2>1, <2>2
<1>3. CASE ~SealsRecovered(x)
  BY <1>1, <1>3 DEF StoreNext, Arrive, ReadSeals, WriteSoftSeal, SoftSealed,
                    Dropped, Admit, Write, PutCache, memory
<1>4. QED
  BY <1>2, <1>3

\* An append that passes the check with seal n is past n.
LEMMA PassedCheck ==
    ASSUME NEW x \in Stores, NEW n \in Int, NEW s, Inv, IsAppend(x),
           ~Preempted(x, n, s)
    PROVE  msg[x].epoch > n
<1>1. msg[x].epoch \in Nat
  BY EpochType DEF Inv
<1>2. QED
  BY <1>1 DEF Preempted, IsAppend

LEMMA StoreSealInv ==
    ASSUME Inv, Inv', SealInv, NEW x \in Stores, StoreNext(x)
    PROVE  SealInv'
<1>1. /\ UNCHANGED <<durable, task, msg>> /\ Moves(x)
      /\ Disk'.normal = Disk.normal
      /\ \A e : HasSeal(e)' => HasSeal(e)
  BY StoreWrites
<1>2. /\ normal \in Int /\ normal' \in Int /\ normal' >= normal /\ normal >= -1
      /\ SealsRecovered(x) => normal' >= store[x].normal /\ normal' \in Nat
      /\ ~SealsRecovered(x) => normal' = normal
  BY SealGrows DEF Inv, MemoryInv
<1>3. /\ Disk.normal \in Nat /\ durable.normal \in Nat
      /\ durable.normal =< Disk.normal
  BY DiskFacts DEF Inv, Shape, Layout
<1>4. /\ \A y \in Seals : Epoch(y) \in Nat \ {0}
      /\ Answered \subseteq Seals /\ Answered' = Answered
  BY <1>1, EpochOfSeal DEF Answered
<1>5. SealTask'
  BY <1>1, <1>2, <1>4 DEF SealInv, SealTask
<1>6. SealUnwritten'
  BY <1>1 DEF SealInv, SealUnwritten
<1>7. \A z \in Stores : store'[z].st = "recovered" =>
         \/ z = x /\ store'[z].normal = Disk.normal
         \/ store[z].st = "recovered" /\ store'[z] = store[z]
  <2>1. CASE ReadSeals(x)
    <3>1. store'[x] = [st |-> "recovered", normal |-> Disk.normal,
                       soft |-> Disk.soft]
      BY <2>1, MoveFacts DEF ReadSeals
    <3>2. QED
      BY <1>1, <3>1 DEF Moves
  <2>2. CASE ~ReadSeals(x)
    <3>1. store'[x].st # "recovered"
      BY <2>2 DEF StoreNext, Arrive, SealsRecovered, WriteSoftSeal, SoftSealed,
                  Dropped, Admit, Write, PutCache, FirstCheck, At, Done,
                  Inv, Shape, Layout
    <3>2. QED
      BY <1>1, <3>1 DEF Moves
  <2>3. QED
    BY <2>1, <2>2
<1>8. SealAnswered'
  <2>1. SUFFICES ASSUME NEW y \in Answered
                 PROVE  /\ durable'.normal >= Epoch(y)
                        /\ normal' # -1 => normal' >= Epoch(y)
                        /\ \A z \in Stores :
                             store'[z].st = "recovered" /\ normal' = -1 =>
                                 store'[z].normal >= Epoch(y)
                        /\ \A z \in Seals : task'[z].st = "stored" /\ normal' = -1 =>
                               task'[z].seal >= Epoch(y)
    BY <1>4 DEF SealAnswered
  <2>2. /\ durable.normal >= Epoch(y)
        /\ normal # -1 => normal >= Epoch(y)
        /\ \A z \in Stores : store[z].st = "recovered" /\ normal = -1 =>
              store[z].normal >= Epoch(y)
        /\ \A z \in Seals : task[z].st = "stored" /\ normal = -1 =>
              task[z].seal >= Epoch(y)
        /\ Epoch(y) \in Nat
    BY <1>4 DEF SealInv, SealAnswered
  <2>3. normal' # -1 => normal' >= Epoch(y)
    <3>1. CASE SealsRecovered(x)
      <4>1. store[x].st = "recovered" /\ store[x].normal \in Nat
        BY <3>1 DEF SealsRecovered, Inv, Shape, StoreShape
      <4>2. QED
        BY <1>2, <2>2, <3>1, <4>1
    <3>2. CASE ~SealsRecovered(x)
      BY <1>2, <2>2, <3>2
    <3>3. QED
      BY <3>1, <3>2
  <2>4. normal' = -1 => normal = -1
    BY <1>2
  <2>5. \A z \in Stores : store'[z].st = "recovered" /\ normal' = -1 =>
            store'[z].normal >= Epoch(y)
    BY <1>3, <1>7, <2>2, <2>4
  <2>6. QED
    BY <1>1, <2>2, <2>3, <2>4, <2>5
<1>9. StoreSealed'
  <2>1. CASE Arrive(x)
    <3>1. /\ sealedAt' = [sealedAt EXCEPT ![x] = SealedUpTo]
          /\ UNCHANGED <<normal, soft, acked>>
          /\ store[x].st = "new"
      BY <2>1 DEF Arrive, memory
    <3>2. /\ sealedAt'[x] = SealedUpTo
          /\ \A z \in Stores \ {x} : sealedAt'[z] = sealedAt[z]
          /\ sealedAt' = [z \in Stores |-> sealedAt'[z]]
      BY <3>1 DEF SealInv, StoreSealed
    <3>3. /\ SealedUpTo \in Nat
          /\ SealedUpTo = 0 \/ \E y \in Answered : SealedUpTo = Epoch(y)
      BY SealedUpToFacts, ShardSealAssumption
    <3>4. x \notin acked
      BY <3>1 DEF Inv, Shape, AckedDone
    <3>5. ASSUME IsAppend(x), store'[x].st \in Checked
          PROVE  msg[x].epoch > SealedUpTo
      <4>1. normal # -1 /\ ~Preempted(x, normal, soft)
        <5>1. store'[x] = CASE failSafe -> Done("DISABLED")
                [] ~failSafe /\ (normal = -1 \/ soft = -1) -> At("recover")
                [] OTHER -> FirstCheck(x, normal, soft)
          BY <2>1, MoveFacts DEF Arrive
        <5>2. QED
          BY <3>5, <5>1 DEF Checked, FirstCheck, Done, At
      <4>2. msg[x].epoch > normal /\ msg[x].epoch \in Nat \ {0}
        BY <1>2, <3>5, <4>1, PassedCheck, EpochType DEF Inv
      <4>3. \A y \in Answered : normal >= Epoch(y)
        BY <4>1 DEF SealInv, SealAnswered
      <4>4. QED
        BY <1>2, <1>4, <3>3, <4>2, <4>3
    <3>6. \A z \in Stores : IsAppend(z)' = IsAppend(z)
      BY <1>1 DEF IsAppend
    <3>7. QED
      BY <1>1, <1>4, <3>1, <3>2, <3>3, <3>4, <3>5, <3>6
         DEF SealInv, StoreSealed, Moves
  <2>2. CASE SealsRecovered(x)
    <3>1. /\ UNCHANGED <<acked, sealedAt>> /\ store[x].st = "recovered"
          /\ store' = [store EXCEPT ![x] = FirstCheck(x, normal', soft')]
      BY <2>2 DEF SealsRecovered, history
    <3>2. x \notin acked
      BY <3>1 DEF Inv, Shape, AckedDone
    <3>3. ASSUME IsAppend(x), store'[x].st \in Checked
          PROVE  msg[x].epoch > sealedAt[x]
      <4>1. ~Preempted(x, normal', soft')
        <5>1. store'[x] = FirstCheck(x, normal', soft')
          BY <3>1, MoveFacts
        <5>2. QED
          BY <3>3, <5>1 DEF Checked, FirstCheck, Done, At
      <4>2. msg[x].epoch > normal' /\ msg[x].epoch \in Nat \ {0}
        BY <1>2, <3>3, <4>1, PassedCheck, EpochType DEF Inv
      <4>3. \A y \in Answered : normal' >= Epoch(y)
        BY <1>2, <1>4, <1>8, <2>2 DEF SealAnswered
      <4>4. sealedAt[x] = 0 \/ \E y \in Answered : sealedAt[x] = Epoch(y)
        BY DEF SealInv, StoreSealed
      <4>5. QED
        BY <1>2, <1>4, <4>2, <4>3, <4>4
    <3>4. QED
      BY <1>1, <1>4, <3>1, <3>2, <3>3
         DEF SealInv, StoreSealed, Moves, IsAppend
  <2>3. CASE ~Arrive(x) /\ ~SealsRecovered(x)
    <3>1. UNCHANGED sealedAt
      BY <2>3 DEF StoreNext, ReadSeals, WriteSoftSeal, SoftSealed, Dropped, Admit,
                  Write, PutCache, history
    <3>2. store'[x].st \in Checked => store[x].st \in Checked
      BY <2>3 DEF StoreNext, ReadSeals, WriteSoftSeal, SoftSealed, Dropped, Admit,
                  Write, PutCache, Checked, At, Done, Inv, Shape, Layout
    <3>3. acked' = acked \/ (acked' = acked \cup {x} /\ store[x].st \in Checked)
      BY <2>3 DEF StoreNext, ReadSeals, WriteSoftSeal, SoftSealed, Dropped, Admit,
                  Write, PutCache, Checked
    <3>4. QED
      BY <1>1, <1>4, <3>1, <3>2, <3>3 DEF SealInv, StoreSealed, Moves, IsAppend
  <2>4. QED
    BY <2>1, <2>2, <2>3
<1>10. QED
  BY <1>5, <1>6, <1>8, <1>9 DEF SealInv

\* The step of a SEAL does not undo an answer.
LEMMA SealMoves ==
    ASSUME Inv, NEW y \in Seals, SealNext(y)
    PROVE  /\ TaskMoves(y) /\ task[y].st # "done" /\ y \notin Answered
           /\ Answered \subseteq Seals /\ Answered \subseteq Answered'
           /\ Answered' \subseteq Answered \cup {y}
           /\ UNCHANGED <<store, acked, sealedAt, msg, cache, head>>
<1>1. /\ task[y].st # "done"
      /\ UNCHANGED <<store, acked, sealedAt, msg, cache, head>>
  BY DEF SealNext, ReceiveSeal, WriteSeal, PublishSeal, TakeStock, AnswerSeal,
         history, memory
<1>2. TaskMoves(y)
  <2>1. CASE PublishSeal(y)
    BY <2>1 DEF PublishSeal, Inv, Shape, Layout, TaskMoves
  <2>2. CASE ~PublishSeal(y)
    <3>1. \E v : task' = [task EXCEPT ![y] = v]
      BY <2>2 DEF SealNext, ReceiveSeal, WriteSeal, TakeStock, AnswerSeal
    <3>2. QED
      BY <3>1, TaskMoveFacts
  <2>3. QED
    BY <2>1, <2>2
<1>3. QED
  BY <1>1, <1>2 DEF TaskMoves, Answered

LEMMA StoreSealedKept ==
    ASSUME SealInv, UNCHANGED <<store, acked, sealedAt, msg>>,
           Answered \subseteq Answered'
    PROVE  StoreSealed'
BY DEF SealInv, StoreSealed, IsAppend

LEMMA ReceiveSealInv ==
    ASSUME Inv, SealInv, NEW y \in Seals, ReceiveSeal(y)
    PROVE  SealInv'
<1>1. /\ TaskMoves(y) /\ y \notin Answered /\ Answered \subseteq Answered'
      /\ Answered \subseteq Seals /\ Answered' \subseteq Answered \cup {y}
      /\ UNCHANGED <<store, acked, sealedAt, msg>>
  BY SealMoves DEF SealNext
<1>2. Disk' = Disk /\ UNCHANGED <<durable, wal, normal>>
  BY QuietDisk DEF ReceiveSeal, history
<1>3. /\ task[y].st = "new"
      /\ \/ task'[y].st = "done" /\ task'[y].status = "PREEMPTED"
         \/ task'[y].st = "started"
  BY DEF ReceiveSeal, Done, Inv, Shape, Layout
<1>4. Answered' = Answered
  BY <1>1, <1>3 DEF Answered
<1>5. SealTask'
  BY <1>1, <1>2, <1>3 DEF SealInv, SealTask, TaskMoves
<1>6. SealUnwritten'
  BY <1>1, <1>2, <1>3 DEF SealInv, SealUnwritten, TaskMoves, HasSeal
<1>7. SealAnswered'
  BY <1>1, <1>2, <1>3, <1>4 DEF SealInv, SealAnswered, TaskMoves
<1>8. QED
  BY <1>1, <1>5, <1>6, <1>7, StoreSealedKept DEF SealInv

LEMMA WriteSealInv ==
    ASSUME DistinctSeals, Inv, SealInv, NEW y \in Seals, WriteSeal(y)
    PROVE  SealInv'
<1>1. /\ TaskMoves(y) /\ y \notin Answered /\ Answered \subseteq Answered'
      /\ Answered \subseteq Seals /\ Answered' \subseteq Answered \cup {y}
      /\ UNCHANGED <<store, acked, sealedAt, msg>>
  BY SealMoves DEF SealNext
<1>2. /\ task[y].st = "started" /\ UNCHANGED <<durable, normal>>
  BY DEF WriteSeal, memory
<1>3. Held
  BY DEF Inv, Shape, Layout
<1>4. /\ Disk.normal \in Nat /\ durable.normal \in Nat
      /\ durable.normal =< Disk.normal
      /\ \A z \in Seals : Epoch(z) \in Nat \ {0}
  BY <1>3, DiskFacts, EpochOfSeal
<1>5. CASE failSafe
  <2>1. task'[y] = Done("FAILED") /\ wal' = wal
    BY <1>5, TaskMoveFacts DEF WriteSeal
  <2>2. task'[y].st = "done" /\ task'[y].status = "FAILED"
    BY <2>1 DEF Done
  <2>3. Answered' = Answered
    BY <1>1, <2>2 DEF Answered
  <2>4. Disk' = Disk
    BY <1>2, <1>3, <2>1, NoWrite
  <2>5. SealTask'
    BY <1>1, <1>2, <2>2, <2>4 DEF SealInv, SealTask, TaskMoves
  <2>6. SealUnwritten'
    BY <1>1, <2>1, <2>2 DEF SealInv, SealUnwritten, TaskMoves, HasSeal
  <2>7. SealAnswered'
    BY <1>1, <1>2, <2>2, <2>3 DEF SealInv, SealAnswered, TaskMoves
  <2>8. QED
    BY <1>1, <2>5, <2>6, <2>7, StoreSealedKept DEF SealInv
<1>6. CASE ~failSafe
  <2>1. /\ wal' = Update("normal", Epoch(y))
        /\ task'[y] = [st |-> "stored", ahead |-> task[y].ahead,
                       sync |-> Epoch(y) > Disk.normal,
                       seal |-> Max({Epoch(y), Disk.normal})]
    BY <1>6, TaskMoveFacts DEF WriteSeal, Epoch
  <2>2. Disk'.normal = IF Epoch(y) > Disk.normal THEN Epoch(y) ELSE Disk.normal
    BY <1>1, <1>2, <1>4, <2>1, SealWrite
  <2>3. /\ task'[y].st = "stored" /\ task'[y].seal = Disk'.normal
        /\ task'[y].sync \in BOOLEAN
        /\ task'[y].sync = FALSE => Epoch(y) =< Disk.normal
    <3>1. /\ task'[y].st = "stored"
          /\ task'[y].seal = Max({Epoch(y), Disk.normal})
          /\ task'[y].sync = (Epoch(y) > Disk.normal)
      BY <2>1
    <3>2. Epoch(y) \in Int /\ Disk.normal \in Int
      BY <1>4
    <3>3. Max({Epoch(y), Disk.normal}) =
              IF Epoch(y) >= Disk.normal THEN Epoch(y) ELSE Disk.normal
      BY <3>2, MaxOfTwo, Zenon
    <3>4. task'[y].seal = Disk'.normal
      BY <1>4, <2>2, <3>1, <3>3
    <3>5. task'[y].sync \in BOOLEAN
      <4>1. (Epoch(y) > Disk.normal) \in BOOLEAN
        OBVIOUS
      <4>2. QED
        BY <3>1, <4>1, Zenon
    <3>6. task'[y].sync = FALSE => ~(Epoch(y) > Disk.normal)
      BY <3>1, Zenon
    <3>7. QED
      BY <1>4, <3>1, <3>4, <3>5, <3>6
  <2>4. Answered' = Answered
    BY <1>1, <2>3 DEF Answered
  <2>5. /\ Disk'.normal \in Nat /\ Disk'.normal >= Disk.normal
        /\ Disk'.normal >= Epoch(y)
    BY <1>4, <2>2
  <2>6. ASSUME task'[y].sync = FALSE, task'[y].seal =< Epoch(y)
        PROVE  durable.normal >= Epoch(y)
    <3>1. Disk.normal = Epoch(y)
      BY <1>4, <2>2, <2>3, <2>6
    <3>2. ~HasSeal(Epoch(y))
      BY <1>2 DEF SealInv, SealUnwritten
    <3>3. QED
      BY <1>3, <1>4, <3>1, <3>2, DiskSeal
  <2>7. SealTask'
    <3>1. ASSUME NEW z \in Seals, z # y
          PROVE  /\ task'[z] = task[z]
                 /\ Disk.normal >= Epoch(z) => Disk'.normal >= Epoch(z)
      BY <1>1, <1>4, <2>5, <3>1 DEF TaskMoves
    <3>2. /\ task'[y].st = "stored" /\ task'[y].seal >= Epoch(y)
          /\ task'[y].sync \in BOOLEAN /\ Disk'.normal >= Epoch(y)
          /\ task'[y].sync = FALSE /\ task'[y].seal =< Epoch(y) =>
                durable.normal >= Epoch(y)
      BY <2>3, <2>5, <2>6
    <3>3. QED
      BY <1>2, <3>1, <3>2 DEF SealInv, SealTask
  <2>8. SealUnwritten'
    <3>1. ASSUME NEW z \in Seals, z # y, HasSeal(Epoch(z))'
          PROVE  HasSeal(Epoch(z))
      <4>1. CASE wal' = wal
        BY <3>1, <4>1 DEF HasSeal
      <4>2. CASE wal' # wal
        <5>1. PICK r \in Logged : r = [kind |-> "normal", value |-> Epoch(y)]
          BY <1>4 DEF Logged
        <5>2. wal' = Append(wal, r)
          BY <2>1, <4>2, <5>1 DEF Update
        <5>3. HasSeal(Epoch(z)) \/ Epoch(z) = Epoch(y)
          BY <1>3, <3>1, <5>1, <5>2, SealAppended
        <5>4. QED
          BY <3>1, <5>3 DEF DistinctSeals
      <4>3. QED
        BY <4>1, <4>2
    <3>2. QED
      BY <1>1, <2>3, <3>1 DEF SealInv, SealUnwritten, TaskMoves
  <2>9. SealAnswered'
    BY <1>1, <1>2, <1>4, <2>3, <2>4, <2>5 DEF SealInv, SealAnswered, TaskMoves
  <2>10. QED
    BY <1>1, <2>7, <2>8, <2>9, StoreSealedKept DEF SealInv
<1>7. QED
  BY <1>5, <1>6

LEMMA PublishSealInv ==
    ASSUME Inv, SealInv, NEW y \in Seals, PublishSeal(y)
    PROVE  SealInv'
<1> DEFINE n == Max({normal, task[y].seal})
<1>1. /\ TaskMoves(y) /\ y \notin Answered /\ Answered \subseteq Answered'
      /\ Answered \subseteq Seals /\ Answered' \subseteq Answered \cup {y}
      /\ UNCHANGED <<store, acked, sealedAt, msg>>
  BY SealMoves DEF SealNext
<1>2. /\ task[y].st = "stored" /\ UNCHANGED <<durable, wal>> /\ Disk' = Disk
      /\ normal' = n
      /\ task' = [task EXCEPT ![y].st = "sealed", ![y].seal = n]
  BY QuietDisk DEF PublishSeal, history
<1>3. /\ normal \in Int /\ normal >= -1 /\ task[y].seal \in Nat
      /\ Disk.normal \in Nat /\ durable.normal \in Nat
      /\ \A z \in Seals : Epoch(z) \in Nat \ {0}
  BY <1>2, DiskFacts, EpochOfSeal DEF Inv, Shape, Layout, TaskShape, MemoryInv
<1>4. n \in Nat /\ n >= normal /\ n >= task[y].seal
  <2>1. task[y].seal \in Int
    BY <1>3
  <2>2. n = IF normal >= task[y].seal THEN normal ELSE task[y].seal
    BY <1>3, <2>1, MaxOfTwo, Zenon
  <2> HIDE DEF n
  <2>3. QED
    BY <1>3, <2>2
<1> HIDE DEF n
<1>5. /\ task'[y].st = "sealed" /\ task'[y].seal = n
      /\ task'[y].sync = task[y].sync
  <2>1. task[y] = [st |-> "stored", ahead |-> task[y].ahead,
                   sync |-> task[y].sync, seal |-> task[y].seal]
    BY <1>2 DEF Inv, Shape, TaskShape
  <2>2. task'[y] = [task[y] EXCEPT !.st = "sealed", !.seal = n]
    BY <1>2 DEF Inv, Shape, Layout
  <2>3. QED
    BY <2>1, <2>2
<1>6. Answered' = Answered
  BY <1>1, <1>5 DEF Answered
<1>7. SealTask'
  BY <1>1, <1>2, <1>3, <1>4, <1>5 DEF SealInv, SealTask, TaskMoves
<1>8. SealUnwritten'
  BY <1>1, <1>2, <1>5 DEF SealInv, SealUnwritten, TaskMoves, HasSeal
<1>9. SealAnswered'
  <2>1. \A z \in Answered : normal' >= Epoch(z)
    BY <1>1, <1>2, <1>3, <1>4 DEF SealInv, SealAnswered
  <2>2. normal' # -1
    BY <1>2, <1>4
  <2>3. QED
    BY <1>2, <1>6, <2>1, <2>2 DEF SealInv, SealAnswered
<1>10. QED
  BY <1>1, <1>7, <1>8, <1>9, StoreSealedKept DEF SealInv

LEMMA TakeStockInv ==
    ASSUME Inv, SealInv, NEW y \in Seals, TakeStock(y)
    PROVE  SealInv'
<1>1. /\ TaskMoves(y) /\ y \notin Answered /\ Answered \subseteq Answered'
      /\ Answered \subseteq Seals /\ Answered' \subseteq Answered \cup {y}
      /\ UNCHANGED <<store, acked, sealedAt, msg>>
  BY SealMoves DEF SealNext
<1>2. /\ task[y].st = "sealed" /\ UNCHANGED <<durable, wal, normal>>
      /\ Disk' = Disk
  BY QuietDisk DEF TakeStock, history, memory
<1>3. \/ task'[y].st = "preempted"
      \/ /\ ~IsOutdated(y) /\ task'[y].st = "stocked"
         /\ task'[y].sync = task[y].sync
  <2> DEFINE Info(S) == [st |-> "stocked", ahead |-> task[y].ahead,
                         sync |-> task[y].sync,
                         info |-> {x \in S : InRange(x, y)},
                         late |-> {x \in InFlight \ S : InRange(x, y)}]
  <2>1. PICK v : /\ task' = [task EXCEPT ![y] = v]
                 /\ \/ v = [st |-> "preempted", sync |-> task[y].sync]
                    \/ ~IsOutdated(y) /\ v = Info(Disk.records)
                    \/ ~IsOutdated(y) /\ v = Info(cache)
    BY DEF TakeStock
  <2>2. task'[y] = v
    <3> HIDE DEF Info
    <3>1. QED
      BY <2>1, TaskMoveFacts
  <2>3. QED
    BY <2>1, <2>2
<1>4. ~IsOutdated(y) => task[y].seal =< Epoch(y)
  <2>1. task[y].seal \in Nat /\ Epoch(y) \in Nat
    BY <1>2, EpochOfSeal DEF Inv, Shape, TaskShape
  <2>2. QED
    BY <2>1 DEF IsOutdated, Epoch
<1>5. Answered' = Answered
  BY <1>1, <1>3 DEF Answered
<1>6. SealTask'
  BY <1>1, <1>2, <1>3, <1>4 DEF SealInv, SealTask, TaskMoves
<1>7. SealUnwritten'
  BY <1>1, <1>2, <1>3 DEF SealInv, SealUnwritten, TaskMoves, HasSeal
<1>8. SealAnswered'
  BY <1>1, <1>2, <1>3, <1>5 DEF SealInv, SealAnswered, TaskMoves
<1>9. QED
  BY <1>1, <1>6, <1>7, <1>8, StoreSealedKept DEF SealInv

LEMMA AnswerSealInv ==
    ASSUME Inv, SealInv, NEW y \in Seals, AnswerSeal(y)
    PROVE  SealInv'
<1>1. /\ TaskMoves(y) /\ y \notin Answered /\ Answered \subseteq Answered'
      /\ Answered \subseteq Seals /\ Answered' \subseteq Answered \cup {y}
      /\ UNCHANGED <<store, acked, sealedAt, msg>>
  BY SealMoves DEF SealNext
<1>2. /\ task[y].st \in {"stocked", "preempted"} /\ UNCHANGED normal
      /\ normal \in Int /\ normal >= -1
  BY DEF AnswerSeal, memory, Inv, MemoryInv, Shape, Layout
<1>3. Held
  BY DEF Inv, Shape, Layout
<1>4. /\ Disk.normal \in Nat /\ durable.normal \in Nat /\ Len(wal) \in Nat
      /\ durable.normal =< Disk.normal
      /\ \A z \in Seals : Epoch(z) \in Nat \ {0}
  BY <1>3, DiskFacts, EpochOfSeal
<1>5. /\ durable'.normal \in Nat /\ durable'.normal >= durable.normal
      /\ Disk'.normal = Disk.normal
      /\ \A e : HasSeal(e)' => HasSeal(e)
      /\ task[y].st = "stocked" => durable'.normal >= Epoch(y)
  <2>1. CASE NeedsSync(y)
    <3>1. /\ durable' = Applied(Len(wal)) /\ wal' = <<>> /\ durable' = Disk
          /\ Len(wal) \in 0 .. Len(wal)
      BY <1>4, <2>1 DEF AnswerSeal, Disk
    <3>2. Disk'.normal = Disk.normal
      BY <1>3, <3>1, Settled
    <3>3. \A e : ~HasSeal(e)'
      BY <3>1 DEF HasSeal
    <3>4. task[y].st = "stocked" => Disk.normal >= Epoch(y)
      BY DEF SealInv, SealTask
    <3>5. QED
      BY <1>4, <3>1, <3>2, <3>3, <3>4
  <2>2. CASE ~NeedsSync(y)
    <3>1. UNCHANGED <<durable, wal>>
      BY <2>2 DEF AnswerSeal
    <3>2. Disk' = Disk
      BY <1>3, <3>1, NoWrite
    <3>3. task[y].st = "stocked" => task[y].sync = FALSE
      BY <2>2 DEF NeedsSync, SealInv, SealTask
    <3>4. task[y].st = "stocked" => durable.normal >= Epoch(y)
      BY <3>3 DEF SealInv, SealTask
    <3>5. QED
      BY <1>4, <3>1, <3>2, <3>4 DEF HasSeal
  <2>3. QED
    BY <2>1, <2>2
<1>6. /\ task'[y].st = "done"
      /\ task'[y].status = "PREEMPTED" \/ task[y].st = "stocked"
  BY <1>2 DEF AnswerSeal, Done, Inv, Shape, Layout
<1>7. SealTask'
  BY <1>1, <1>2, <1>4, <1>5, <1>6 DEF SealInv, SealTask, TaskMoves
<1>8. SealUnwritten'
  BY <1>1, <1>5, <1>6 DEF SealInv, SealUnwritten, TaskMoves
<1>9. SealAnswered'
  <2>1. ASSUME NEW z \in Answered
        PROVE  /\ durable'.normal >= Epoch(z)
               /\ normal' # -1 => normal' >= Epoch(z)
               /\ \A x \in Stores : store'[x].st = "recovered" /\ normal' = -1 =>
                     store'[x].normal >= Epoch(z)
               /\ \A w \in Seals : task'[w].st = "stored" /\ normal' = -1 =>
                     task'[w].seal >= Epoch(z)
    <3>1. durable.normal >= Epoch(z) /\ Epoch(z) \in Nat
      BY <1>1, <1>4 DEF SealInv, SealAnswered
    <3>2. durable'.normal >= Epoch(z)
      BY <1>4, <1>5, <3>1
    <3>3. QED
      BY <1>1, <1>2, <1>6, <3>2 DEF SealInv, SealAnswered, TaskMoves
  <2>2. ASSUME task[y].st = "stocked"
        PROVE  durable'.normal >= Epoch(y) /\ normal' >= Epoch(y) /\ normal' # -1
    <3>1. normal >= Epoch(y) /\ Epoch(y) \in Nat
      BY <1>4, <2>2 DEF SealInv, SealTask
    <3>2. QED
      BY <1>2, <1>5, <2>2, <3>1
  <2>3. y \in Answered' => task[y].st = "stocked"
    BY <1>6 DEF Answered
  <2>4. QED
    BY <1>1, <2>1, <2>2, <2>3 DEF SealAnswered
<1>10. QED
  BY <1>1, <1>7, <1>8, <1>9, StoreSealedKept DEF SealInv

LEMMA FaultSealInv ==
    ASSUME Inv, SealInv, EnterFailSafe \/ UNCHANGED vars
    PROVE  SealInv'
<1>1. UNCHANGED <<durable, wal, normal, store, task, acked, msg, sealedAt>>
  BY DEF EnterFailSafe, vars, memory, history
<1>2. Disk' = Disk /\ Answered' = Answered
  BY <1>1, QuietDisk DEF Answered
<1>3. SealTask' /\ SealUnwritten' /\ SealAnswered'
  BY <1>1, <1>2 DEF SealInv, SealTask, SealUnwritten, SealAnswered, HasSeal
<1>4. QED
  BY <1>1, <1>2, <1>3, StoreSealedKept DEF SealInv

LEMMA CrashSealInv ==
    ASSUME Inv, SealInv, NEW kept \in 0 .. Len(wal), Crash(kept)
    PROVE  SealInv'
<1>1. /\ durable' = Applied(kept) /\ wal' = <<>> /\ UNCHANGED <<msg, sealedAt>>
      /\ normal' = -1 /\ acked' = acked \cap Applied(kept).records
  BY DEF Crash, history
<1>2. /\ \A x \in Stores : \/ store'[x].st = "new"
                           \/ store[x].st = "done" /\ store'[x] = store[x]
      /\ \A y \in Seals : \/ task'[y].st = "new"
                          \/ task[y].st = "done" /\ task'[y] = task[y]
      /\ \A y \in Seals : task[y].st = "done" => task'[y] = task[y]
  BY DEF Crash, At
<1>3. Answered' = Answered /\ Answered \subseteq Seals
  BY <1>2 DEF Answered
<1>4. /\ durable'.normal \in Nat /\ durable'.normal >= durable.normal
      /\ durable.normal \in Nat
      /\ \A z \in Seals : Epoch(z) \in Nat \ {0}
  BY <1>1, DiskFacts, EpochOfSeal DEF Inv, Shape, Layout
<1>5. SealTask'
  BY <1>2 DEF SealTask
<1>6. SealUnwritten'
  BY <1>1 DEF SealUnwritten, HasSeal
<1>7. SealAnswered'
  BY <1>1, <1>2, <1>3, <1>4 DEF SealInv, SealAnswered
<1>8. StoreSealed'
  BY <1>1, <1>2, <1>3 DEF SealInv, StoreSealed, IsAppend, Checked
<1>9. QED
  BY <1>5, <1>6, <1>7, <1>8 DEF SealInv

LEMMA SealInvStep ==
    ASSUME DistinctSeals
    PROVE  Inv /\ SealInv /\ [Next]_vars => SealInv'
<1>1. SUFFICES ASSUME Inv, SealInv, [Next]_vars PROVE SealInv'
  OBVIOUS
<1>2. Inv'
  BY <1>1, InvStep
<1>3. ASSUME NEW x \in Stores, StoreNext(x) PROVE SealInv'
  BY <1>1, <1>2, <1>3, StoreSealInv
<1>4. ASSUME NEW y \in Seals, SealNext(y) PROVE SealInv'
  BY <1>1, <1>4, ReceiveSealInv, WriteSealInv, PublishSealInv, TakeStockInv,
     AnswerSealInv DEF SealNext
<1>5. QED
  BY <1>1, <1>3, <1>4, FaultSealInv, CrashSealInv DEF Next

LEMMA SealStart == Init => SealInv
<1>1. SUFFICES ASSUME Init PROVE SealInv
  OBVIOUS
<1>2. SealTask /\ SealAnswered
  BY <1>1 DEF Init, SealTask, SealAnswered, Answered, At
<1>3. SealUnwritten
  BY <1>1 DEF Init, SealUnwritten, HasSeal
<1>4. StoreSealed
  BY <1>1 DEF Init, StoreSealed, At, Checked
<1>5. QED
  BY <1>2, <1>3, <1>4 DEF SealInv

LEMMA SealInvariance == ASSUME DistinctSeals PROVE Spec => []SealInv
<1>1. Inv /\ SealInv /\ [Next]_vars => SealInv'
  BY SealInvStep
<1>2. QED
  BY <1>1, SealStart, Invariance, PTL DEF Spec

LEMMA InvRefuses == Inv /\ SealInv => SealedRefusesLater
BY DEF Inv, Shape, AckedDone, SealInv, StoreSealed, SealedRefusesLater

\* When no two SEALs carry the same epoch: an append of a sealed epoch that
\* arrives after SEALED is refused, even if the shard has crashed in between
\* and lost all that was not synced.
THEOREM SealsSurvive ==
    ASSUME DistinctSeals
    PROVE  Spec => []SealedRefusesLater
BY Invariance, SealInvariance, InvRefuses, PTL

-----------------------------------------------------------------------------
(* What SEALED reports.                                                    *)

\* The record cache is complete past the last nonauthoritative epoch and from
\* its head on.
CacheComplete ==
    auth # -1 => \A x \in acked :
        msg[x].epoch > auth /\ msg[x].epoch >= head => x \in cache

\* A report holds what it has to, of the stores that were answered and of the
\* ones that will be.
Reported ==
    \A y \in Seals : task[y].st = "stocked" \/ y \in Answered =>
        \A x \in Stores :
            /\ x \in acked \/ store[x].st \in {"admitted", "written"}
            /\ IsAppend(x) /\ InRange(x, y)
            => x \in task[y].info \cup task[y].late

ReportInv == CacheComplete /\ Reported

\* The soft seal becomes the bound of what the cache vouches for.
LEMMA BoundFromSoft ==
    ASSUME Inv, CacheComplete, UNCHANGED <<msg, cache, head, acked>>,
           NEW s \in Int, s # -1 => \A x \in acked : msg[x].epoch =< s + 1,
           auth' = Authoritative(s)
    PROVE  CacheComplete'
<1>1. \A x \in acked : msg[x].epoch \in Nat
  BY EpochType DEF Inv, Shape, AckedDone
<1>2. QED
  BY <1>1 DEF CacheComplete, Authoritative

LEMMA CacheStep ==
    ASSUME Inv, Inv', CacheComplete, [Next]_vars
    PROVE  CacheComplete'
<1>1. CASE UNCHANGED <<msg, cache, head, auth, acked>>
  BY <1>1 DEF CacheComplete
<1>2. ASSUME NEW x \in Stores, SealsRecovered(x) PROVE CacheComplete'
  <2>1. /\ UNCHANGED <<msg, cache, head, acked>> /\ auth' = Authoritative(soft)
    BY <1>2 DEF SealsRecovered, history
  <2>2. soft \in Int /\ (soft # -1 => \A z \in acked : msg[z].epoch =< soft + 1)
    BY DEF Inv, Shape, Layout, SoftInv, AckedSoft
  <2>3. QED
    BY <2>1, <2>2, BoundFromSoft
<1>3. ASSUME NEW x \in Stores, SoftSealed(x) PROVE CacheComplete'
  <2>1. /\ UNCHANGED <<msg, cache, head, acked>> /\ auth' = Authoritative(soft')
    BY <1>3 DEF SoftSealed, history
  <2>2. soft' \in Int /\ (soft' # -1 => \A z \in acked : msg[z].epoch =< soft' + 1)
    BY <2>1 DEF Inv, Shape, Layout, SoftInv, AckedSoft
  <2>3. QED
    BY <2>1, <2>2, BoundFromSoft
<1>4. ASSUME NEW y \in Seals, ReceiveSeal(y) PROVE CacheComplete'
  <2>1. CASE UNCHANGED auth
    BY <1>1, <1>4, <2>1 DEF ReceiveSeal, history
  <2>2. CASE auth' = Authoritative(soft')
    <3>1. UNCHANGED <<msg, cache, head, acked>>
      BY <1>4 DEF ReceiveSeal, history
    <3>2. soft' \in Int /\ (soft' # -1 => \A z \in acked : msg[z].epoch =< soft' + 1)
      BY <3>1 DEF Inv, Shape, Layout, SoftInv, AckedSoft
    <3>3. QED
      BY <2>2, <3>1, <3>2, BoundFromSoft
  <2>3. QED
    BY <1>4, <2>1, <2>2 DEF ReceiveSeal
<1>5. ASSUME NEW x \in Stores, PutCache(x) PROVE CacheComplete'
  <2>1. /\ UNCHANGED <<msg, soft>> /\ acked' = acked \cup {x}
        /\ cache' = IF msg[x].epoch >= head THEN cache \cup {x} ELSE cache
        /\ head' = IF head = 0 THEN msg[x].epoch ELSE head
        /\ auth' = IF head = 0 THEN Authoritative(soft) ELSE auth
    BY <1>5 DEF PutCache, history
  <2>2. /\ \A z \in acked' : msg[z].epoch \in Nat \ {0}
        /\ soft \in Int /\ auth \in Int /\ head \in Nat
    BY <2>1, EpochType DEF Inv, Shape, Layout, AckedDone
  <2>3. CASE auth' = auth
    <3>1. SUFFICES ASSUME auth # -1, NEW z \in acked', msg[z].epoch > auth,
                          msg[z].epoch >= head'
                   PROVE  z \in cache'
      BY <2>1, <2>3 DEF CacheComplete
    <3>2. msg[z].epoch >= head
      BY <2>1, <2>2, <3>1
    <3>3. CASE z = x
      BY <2>1, <3>2, <3>3
    <3>4. CASE z \in acked
      BY <2>1, <3>1, <3>2, <3>4 DEF CacheComplete
    <3>5. QED
      BY <2>1, <3>3, <3>4
  <2>4. CASE auth' # auth
    <3>1. soft # -1 /\ auth' = soft + 1
      BY <2>1, <2>4 DEF Authoritative
    <3>2. \A z \in acked' : msg[z].epoch =< soft + 1
      BY <2>1, <3>1 DEF Inv, SoftInv, AckedSoft
    <3>3. QED
      BY <2>1, <2>2, <3>1, <3>2 DEF CacheComplete
  <2>5. QED
    BY <2>3, <2>4
<1>6. ASSUME NEW kept \in 0 .. Len(wal), Crash(kept) PROVE CacheComplete'
  BY <1>6 DEF Crash, CacheComplete
<1>7. ASSUME NEW x \in Stores, StoreNext(x) PROVE CacheComplete'
  BY <1>1, <1>2, <1>3, <1>5, <1>7
     DEF StoreNext, Arrive, ReadSeals, WriteSoftSeal, Dropped, Admit, Write,
         memory, history
<1>8. ASSUME NEW y \in Seals, SealNext(y) PROVE CacheComplete'
  BY <1>1, <1>4, <1>8
     DEF SealNext, WriteSeal, PublishSeal, TakeStock, AnswerSeal, memory, history
<1>9. CASE EnterFailSafe \/ UNCHANGED vars
  BY <1>1, <1>9 DEF EnterFailSafe, vars, memory, history
<1>10. QED
  BY <1>6, <1>7, <1>8, <1>9 DEF Next

\* A step of a STORE puts no append into the range of a report.
LEMMA StoreReport ==
    ASSUME Inv, SealInv, Reported, NEW x \in Stores, StoreNext(x)
    PROVE  Reported'
<1>1. /\ UNCHANGED <<task, msg>> /\ Moves(x)
  BY StoreWrites
<1>2. /\ Answered' = Answered /\ \A z \in Stores : IsAppend(z)' = IsAppend(z)
      /\ \A z \in Stores, y \in Seals : InRange(z, y)' = InRange(z, y)
  BY <1>1 DEF Answered, IsAppend, InRange
<1>3. acked' = acked \/ (acked' = acked \cup {x} /\ store[x].st = "written")
  BY DEF StoreNext, Arrive, ReadSeals, SealsRecovered, WriteSoftSeal, SoftSealed,
         Dropped, Admit, Write, PutCache
<1>4. CASE Admit(x)
  <2>1. /\ store[x].st = "queued" /\ acked' = acked
        /\ store'[x].st = "done" \/ ~Preempted(x, normal, soft)
    <3>1. store'[x] = IF IsPreempted(x) THEN Done("PREEMPTED") ELSE At("admitted")
      BY <1>4, MoveFacts DEF Admit
    <3>2. QED
      BY <1>4, <3>1 DEF Admit, IsPreempted, Done
  <2>2. ASSUME NEW y \in Seals, task[y].st = "stocked" \/ y \in Answered,
               store'[x].st # "done", IsAppend(x), InRange(x, y)
        PROVE  FALSE
    <3>1. normal # -1 /\ normal \in Int /\ Epoch(y) \in Nat
      BY <2>1, EpochOfSeal
         DEF Inv, Shape, Layout, SoftInv, SealsKnown, Checked
    <3>2. normal >= Epoch(y)
      BY <2>2, <3>1 DEF SealInv, SealTask, SealAnswered
    <3>3. msg[x].epoch > normal /\ msg[x].epoch \in Nat
      BY <2>1, <2>2, <3>1, PassedCheck, EpochType DEF Inv
    <3>4. msg[x].epoch =< Epoch(y)
      BY <2>2 DEF InRange, Epoch
    <3>5. QED
      BY <3>1, <3>2, <3>3, <3>4
  <2>3. x \notin acked
    BY <2>1 DEF Inv, Shape, AckedDone
  <2>4. QED
    BY <1>1, <1>2, <2>1, <2>2, <2>3 DEF Reported, Moves
<1>5. CASE ~Admit(x)
  <2>1. store'[x].st \in {"admitted", "written"} =>
            store[x].st \in {"admitted", "written"}
    BY <1>5 DEF StoreNext, Arrive, ReadSeals, SealsRecovered, WriteSoftSeal,
                SoftSealed, Dropped, Write, PutCache, FirstCheck, At, Done,
                Inv, Shape, Layout
  <2>2. \A z \in Stores : z \in acked' \/ store'[z].st \in {"admitted", "written"}
            => z \in acked \/ store[z].st \in {"admitted", "written"}
    BY <1>1, <1>3, <2>1 DEF Moves
  <2>3. QED
    BY <1>1, <1>2, <2>2 DEF Reported
<1>6. QED
  BY <1>4, <1>5

LEMMA SealReport ==
    ASSUME Inv, ReportInv, NEW y \in Seals, SealNext(y)
    PROVE  Reported'
<1>1. /\ TaskMoves(y) /\ y \notin Answered /\ Answered \subseteq Answered'
      /\ Answered \subseteq Seals /\ Answered' \subseteq Answered \cup {y}
      /\ UNCHANGED <<store, acked, msg>>
  BY SealMoves
<1>2. /\ \A z \in Stores : IsAppend(z)' = IsAppend(z)
      /\ \A z \in Stores, w \in Seals : InRange(z, w)' = InRange(z, w)
  BY <1>1 DEF IsAppend, InRange
<1>3. SUFFICES ASSUME task'[y].st = "stocked" \/ y \in Answered',
                      NEW x \in Stores,
                      x \in acked \/ store[x].st \in {"admitted", "written"},
                      IsAppend(x), InRange(x, y)
               PROVE  x \in task'[y].info \cup task'[y].late
  BY <1>1, <1>2 DEF ReportInv, Reported, TaskMoves
<1>4. CASE TakeStock(y)
  <2> DEFINE Info(S) == [st |-> "stocked", ahead |-> task[y].ahead,
                         sync |-> task[y].sync,
                         info |-> {z \in S : InRange(z, y)},
                         late |-> {z \in InFlight \ S : InRange(z, y)}]
  <2>1. PICK v : /\ task' = [task EXCEPT ![y] = v]
                 /\ \/ v = [st |-> "preempted", sync |-> task[y].sync]
                    \/ v = Info(Disk.records)
                    \/ CacheHit(y) /\ v = Info(cache)
    BY <1>4 DEF TakeStock
  <2>2. task'[y] = v
    <3> HIDE DEF Info
    <3>1. QED
      BY <2>1, TaskMoveFacts
  <2>3. CASE v = [st |-> "preempted", sync |-> task[y].sync]
    BY <1>3, <2>2, <2>3 DEF Answered
  <2>4. CASE v = Info(Disk.records)
    <3>1. x \in acked => x \in Disk.records
      BY DEF Inv, MemoryInv
    <3>2. QED
      BY <1>3, <2>2, <2>4, <3>1 DEF InFlight
  <2>5. CASE CacheHit(y) /\ v = Info(cache)
    <3>1. x \in acked => x \in cache
      <4>1. /\ msg[x].epoch \in Nat /\ SealOf[y].clean \in Nat
            /\ SealOf[y].epoch \in Nat
        BY EpochType, ShardSealAssumption DEF Inv
      <4>2. msg[x].epoch \in (SealOf[y].clean + 1) .. SealOf[y].epoch
        BY <1>3, <4>1 DEF InRange
      <4>3. auth # -1 /\ msg[x].epoch >= head /\ msg[x].epoch > auth
        BY <2>5, <4>2 DEF CacheHit
      <4>4. QED
        BY <4>3 DEF ReportInv, CacheComplete
    <3>2. QED
      BY <1>3, <2>2, <2>5, <3>1 DEF InFlight
  <2>6. QED
    BY <2>1, <2>3, <2>4, <2>5
<1>5. CASE AnswerSeal(y)
  <2> DEFINE v == IF task[y].st = "preempted" THEN Done("PREEMPTED")
                  ELSE [st |-> "done", status |-> "OK", ahead |-> task[y].ahead,
                        info |-> task[y].info, late |-> task[y].late]
  <2>1. task' = [task EXCEPT ![y] = v] /\ task[y].st \in {"stocked", "preempted"}
    BY <1>5 DEF AnswerSeal
  <2>2. task'[y] = v
    <3> HIDE DEF v
    <3>1. QED
      BY <2>1, TaskMoveFacts
  <2>3. CASE task[y].st = "preempted"
    BY <1>3, <2>2, <2>3 DEF Answered, Done
  <2>4. CASE task[y].st = "stocked"
    <3>1. task'[y].info = task[y].info /\ task'[y].late = task[y].late
      BY <2>2, <2>4
    <3>2. QED
      BY <1>3, <2>4, <3>1 DEF ReportInv, Reported
  <2>5. QED
    BY <2>1, <2>3, <2>4
<1>6. CASE ~TakeStock(y) /\ ~AnswerSeal(y)
  <2>1. CASE PublishSeal(y)
    <3>1. task[y] = [st |-> "stored", ahead |-> task[y].ahead,
                     sync |-> task[y].sync, seal |-> task[y].seal]
      BY <2>1 DEF PublishSeal, Inv, Shape, TaskShape
    <3>2. task'[y].st = "sealed"
      BY <2>1, <3>1 DEF PublishSeal, Inv, Shape, Layout
    <3>3. QED
      BY <1>3, <3>2 DEF Answered
  <2>2. CASE ReceiveSeal(y)
    BY <1>3, <2>2 DEF ReceiveSeal, Done, Answered, Inv, Shape, Layout
  <2>3. CASE WriteSeal(y)
    <3>1. \/ task'[y].st = "stored"
          \/ task'[y].st = "done" /\ task'[y].status = "FAILED"
      BY <2>3 DEF WriteSeal, Done, Inv, Shape, Layout
    <3>2. QED
      BY <1>3, <3>1 DEF Answered
  <2>4. QED
    BY <1>6, <2>1, <2>2, <2>3 DEF SealNext
<1>7. QED
  BY <1>4, <1>5, <1>6

LEMMA CrashReport ==
    ASSUME Inv, Reported, NEW kept \in 0 .. Len(wal), Crash(kept)
    PROVE  Reported'
<1>1. /\ UNCHANGED msg /\ acked' \subseteq acked
  BY DEF Crash, history
<1>2. /\ \A x \in Stores : \/ store'[x].st = "new"
                           \/ store[x].st = "done" /\ store'[x] = store[x]
      /\ \A y \in Seals : \/ task'[y].st = "new"
                          \/ task[y].st = "done" /\ task'[y] = task[y]
  BY DEF Crash, At
<1>3. /\ Answered' \subseteq Answered
      /\ \A y \in Answered' : task'[y] = task[y] /\ y \in Seals
  BY <1>2 DEF Answered
<1>4. /\ \A z \in Stores : IsAppend(z)' = IsAppend(z)
      /\ \A z \in Stores, w \in Seals : InRange(z, w)' = InRange(z, w)
  BY <1>1 DEF IsAppend, InRange
<1>5. QED
  BY <1>1, <1>2, <1>3, <1>4 DEF Reported

LEMMA ReportInvStep ==
    ASSUME Inv, Inv', SealInv, ReportInv, [Next]_vars
    PROVE  ReportInv'
<1>1. CacheComplete'
  BY CacheStep DEF ReportInv
<1>2. CASE EnterFailSafe \/ UNCHANGED vars
  <2>1. UNCHANGED <<store, task, acked, msg>>
    BY <1>2 DEF EnterFailSafe, vars, history
  <2>2. Reported'
    BY <2>1 DEF ReportInv, Reported, Answered, IsAppend, InRange
  <2>3. QED
    BY <1>1, <2>2 DEF ReportInv
<1>3. QED
  BY <1>1, <1>2, StoreReport, SealReport, CrashReport DEF Next, ReportInv

LEMMA ReportStart == Init => ReportInv
BY DEF Init, ReportInv, CacheComplete, Reported, Answered, At

LEMMA InvReports == ReportInv /\ Inv => SealedReportsAcked
BY DEF ReportInv, Reported, Inv, Shape, AckedDone, Answered, SealedReportsAcked

\* When no two SEALs carry the same epoch: every acknowledged append of a range
\* that SEALED reports on is in the report, or was past the second check when
\* stock was taken; from the record cache as from the local log store.
THEOREM ReportsComplete ==
    ASSUME DistinctSeals
    PROVE  Spec => []SealedReportsAcked
<1>1. Inv /\ Inv' /\ SealInv /\ ReportInv /\ [Next]_vars => ReportInv'
  BY ReportInvStep
<1>2. QED
  BY <1>1, Invariance, SealInvariance, ReportStart, InvReports, PTL DEF Spec
=============================================================================
