------------------------ MODULE SlidingWindowProofs ------------------------
(***************************************************************************)
(* Proofs about SlidingWindow, for any number of threads, any capacity and *)
(* any range of ESNs.  The invariant below says who owns what: a token is  *)
(* owned by a thread inside grow(), by an issued ESN or by the reaper; a   *)
(* retired element by its slot, by the thread inside retire() or by the    *)
(* reaper; the TAIL flag by the slot of the left edge or by the reaper.    *)
(***************************************************************************)
EXTENDS SlidingWindow, FiniteSetTheorems, TLAPS

Labels == {"idle", "giveback", "disable", "mark"} \cup Growing \cup Reaping

Entry == [el : 0 .. EsnMax, retired : BOOLEAN, tail : BOOLEAN]

Conds == {Unknown} \cup 0 .. EsnMax

TypeOK ==
    /\ size \in Int
    /\ right \in 0 .. EsnMax + 1
    /\ nextBeforeDisabled \in 0 .. EsnMax + 1
    /\ prevTail \in {Unknown, 0}
    /\ slot \in [Indexes -> Entry]
    /\ pc \in [Threads -> Labels]
    /\ r \in [Threads -> 0 .. EsnMax + 1]
    /\ cond \in [Threads -> Conds]
    /\ idx \in [Threads -> Indexes]
    /\ entry \in [Threads -> Entry]
    /\ issued \in 0 .. EsnMax
    /\ DOMAIN grown \subseteq 1 .. issued
    /\ grown \in [DOMAIN grown -> Conds]
    /\ retired \subseteq DOMAIN grown
    /\ reaped \in Seq(Nat)

At(labels) == {t \in Threads : pc[t] \in labels}
Count(labels) == Cardinality(At(labels))

\* Tokens in the hands of threads: inside grow(), refused, not given back yet.
GrowTokens == Count({"grow", "try"})
BackTokens == Count({"giveback"})
FreeTokens == Count({"clear", "token"})

\* A reaper that has passed the element on to the deleter, but not yet moved
\* the left edge.
Clearing == At({"clear"}) # {}
EdgeMoving == At({"clear", "token", "tail"}) # {}

\* The tokens that grow() does not give back at once never exceed the capacity.
TokenInv ==
    /\ size = GrowTokens + BackTokens
                + FreeTokens + issued - Len(reaped)
    /\ GrowTokens + FreeTokens
                + issued - Len(reaped) =< Capacity

OrderInv ==
    \A i \in 1 .. Len(reaped) : reaped[i] = i /\ i \in retired

RightInv ==
    /\ right \in {0, issued + 1}
    /\ \A t \in Threads : pc[t] = "disable" => right = 0 /\ r[t] = issued + 1
    /\ NextIsFinal

GrowInv ==
    /\ \A t \in Threads : pc[t] = "insert" =>
          /\ r[t] \in 1 .. issued
          /\ r[t] \notin DOMAIN grown
          /\ cond[t] # Unknown => cond[t] = r[t] - 1
    /\ \A t, u \in Threads :
          pc[t] = "insert" /\ pc[u] = "insert" /\ r[t] = r[u] => t = u
    /\ CondAppendFollowsTail

\* The threads inside retire() that have not passed on their element yet.
OwnerInv ==
    /\ \A t \in Threads : pc[t] = "mark" =>
          /\ entry[t].el \in retired
          /\ entry[t].el > Len(reaped)
          /\ idx[t] = Index(entry[t].el)
          /\ entry[t] = [el |-> entry[t].el, retired |-> FALSE, tail |-> FALSE]
          /\ slot[idx[t]].retired = FALSE
    /\ \A t, u \in Threads :
          /\ pc[t] \in {"mark", "reap"}
          /\ pc[u] \in {"mark", "reap"}
          /\ entry[t].el = entry[u].el
          => t = u

ReaperInv ==
    /\ \A t \in Threads : pc[t] = "reap" =>
          /\ entry[t].el = Len(reaped) + 1
          /\ entry[t].el \in retired
          /\ idx[t] = Index(Len(reaped) + 1)
    /\ \A t \in Threads : pc[t] \in {"clear", "token", "tail"} =>
          /\ Len(reaped) >= 1
          /\ idx[t] = Index(Len(reaped))
    /\ OneReaper

\* TAIL is on the slot of the first ESN not reaped, unless the reaper moves it.
TailInv ==
    \A i \in Indexes : slot[i].tail = TRUE <=>
        \/ i = Index(Len(reaped) + 1) /\ ~EdgeMoving
        \/ i = Index(Len(reaped)) /\ Clearing

SlotInv ==
    /\ \A i \in Indexes : slot[i].el # 0 =>
          /\ slot[i].el \in DOMAIN grown
          /\ Index(slot[i].el) = i
          /\ \/ slot[i].el > Len(reaped)
             \/ slot[i].el = Len(reaped) /\ Clearing
    /\ \A i \in Indexes : slot[i].retired = TRUE => slot[i].el \in retired
    /\ \A e \in DOMAIN grown : e > Len(reaped) => slot[Index(e)].el = e

\* A retired element is marked in its slot or in the hands of a thread, and at
\* the left edge always in the hands of a thread.
RetiredInv ==
    /\ \A e \in retired : e > Len(reaped) =>
          \/ slot[Index(e)].retired = TRUE
          \/ \E t \in Threads : pc[t] \in {"mark", "reap"} /\ entry[t].el = e
    /\ slot[Index(Len(reaped) + 1)].retired = TRUE => At(Reaping) # {}

IInv ==
    /\ TypeOK
    /\ TokenInv
    /\ OrderInv
    /\ RightInv
    /\ GrowInv
    /\ OwnerInv
    /\ ReaperInv
    /\ TailInv
    /\ SlotInv
    /\ RetiredInv

-----------------------------------------------------------------------------
(* Slots.                                                                  *)

LEMMA IndexType == \A e \in Nat : Index(e) \in Indexes
BY CapacityAssumption DEF Index, Indexes

\* Two ESNs less than a capacity apart do not share a slot.
LEMMA IndexDistinct ==
    ASSUME NEW a \in Nat, NEW b \in Nat, Index(a) = Index(b),
           b - a < Capacity, a - b < Capacity
    PROVE  a = b
<1> DEFINE p == a \div Capacity
           q == b \div Capacity
<1>1. /\ p \in Int /\ q \in Int
      /\ a = Capacity * p + (a % Capacity)
      /\ b = Capacity * q + (b % Capacity)
  BY CapacityAssumption
<1>2. a % Capacity = b % Capacity /\ a % Capacity \in Int
  BY CapacityAssumption DEF Index
<1> HIDE DEF p, q
<1>3. b - a = Capacity * (q - p)
  BY <1>1, <1>2, CapacityAssumption
<1>4. CASE q - p >= 1
  <2>1. Capacity * (q - p) >= Capacity
    BY <1>1, <1>4, CapacityAssumption
  <2>2. QED
    BY <1>3, <2>1, CapacityAssumption
<1>5. CASE p - q >= 1
  <2>1. Capacity * (p - q) >= Capacity /\ a - b = Capacity * (p - q)
    BY <1>1, <1>3, <1>5, CapacityAssumption
  <2>2. QED
    BY <2>1, CapacityAssumption
<1>6. QED
  BY <1>1, <1>3, <1>4, <1>5, CapacityAssumption

LEMMA Remainder ==
    ASSUME NEW p \in Int, NEW m \in Indexes
    PROVE  (Capacity * p + m) % Capacity = m
BY CapacityAssumption DEF Indexes

LEMMA NextIndexIsNext == \A e \in Nat : NextIndex(Index(e)) = Index(e + 1)
<1> SUFFICES ASSUME NEW e \in Nat PROVE NextIndex(Index(e)) = Index(e + 1)
  OBVIOUS
<1> DEFINE p == e \div Capacity
           m == e % Capacity
<1>1. p \in Int /\ m \in Indexes /\ e = Capacity * p + m
  BY CapacityAssumption DEF Indexes
<1>2. Index(e) = m
  BY DEF Index
<1> HIDE DEF p, m
<1>3. CASE m < Capacity - 1
  <2>1. e + 1 = Capacity * p + (m + 1) /\ m + 1 \in Indexes
    BY <1>1, <1>3, CapacityAssumption DEF Indexes
  <2>2. Index(e + 1) = m + 1
    BY <1>1, <2>1, Remainder DEF Index
  <2>3. QED
    BY <1>2, <1>3, <2>2 DEF NextIndex
<1>4. CASE ~(m < Capacity - 1)
  <2>1. e + 1 = Capacity * (p + 1) + 0 /\ p + 1 \in Int /\ 0 \in Indexes
    BY <1>1, <1>4, CapacityAssumption DEF Indexes
  <2>2. Index(e + 1) = 0
    BY <2>1, Remainder DEF Index
  <2>3. QED
    BY <1>2, <1>4, <2>2 DEF NextIndex
<1>5. QED
  BY <1>3, <1>4

-----------------------------------------------------------------------------
(* Counting the threads at a place of the code.                            *)

LEMMA CountType ==
    ASSUME NEW labels
    PROVE  /\ Count(labels) \in Nat
           /\ At(labels) # {} => Count(labels) >= 1
<1>1. IsFiniteSet(At(labels))
  BY ThreadsAssumption, FS_Subset DEF At
<1>2. QED
  BY <1>1, FS_CardinalityType, FS_EmptySet DEF Count

\* What a move of one thread does to the number of threads at a place.
LEMMA Move ==
    ASSUME pc \in [Threads -> Labels], NEW t \in Threads, NEW l,
           Goto(t, l), NEW labels
    PROVE  /\ Count(labels) \in Nat
           /\ Count(labels)' \in Nat
           /\ (pc[t] \in labels <=> l \in labels) =>
                    Count(labels)' = Count(labels)
           /\ pc[t] \in labels /\ l \notin labels =>
                    Count(labels)' = Count(labels) - 1
           /\ pc[t] \notin labels /\ l \in labels =>
                    Count(labels)' = Count(labels) + 1
<1>1. IsFiniteSet(At(labels)) /\ IsFiniteSet(At(labels)')
  BY ThreadsAssumption, FS_Subset DEF At
<1>2. Count(labels) \in Nat /\ Count(labels)' \in Nat
  BY <1>1, FS_CardinalityType DEF Count
<1>3. ASSUME pc[t] \in labels <=> l \in labels
      PROVE  At(labels)' = At(labels)
  BY <1>3 DEF At, Goto
<1>4. ASSUME pc[t] \in labels, l \notin labels
      PROVE  Count(labels)' = Count(labels) - 1
  <2>1. At(labels)' = At(labels) \ {t} /\ t \in At(labels)
    BY <1>4 DEF At, Goto
  <2>2. QED
    BY <1>1, <2>1, FS_RemoveElement DEF Count
<1>5. ASSUME pc[t] \notin labels, l \in labels
      PROVE  Count(labels)' = Count(labels) + 1
  <2>1. At(labels)' = At(labels) \cup {t} /\ t \notin At(labels)
    BY <1>5 DEF At, Goto
  <2>2. QED
    BY <1>1, <2>1, FS_AddElement DEF Count
<1>6. QED
  BY <1>2, <1>3, <1>4, <1>5 DEF Count

LEMMA CountUnchanged ==
    ASSUME UNCHANGED pc, NEW labels
    PROVE  Count(labels)' = Count(labels)
BY DEF Count, At

\* The elements that occupy a slot are less than a capacity apart.
LEMMA LiveDistinct ==
    ASSUME TypeOK, TokenInv, NEW a \in Nat, NEW b \in Nat,
           Index(a) = Index(b), a =< issued, b =< issued,
           a > Len(reaped) \/ (a = Len(reaped) /\ Clearing),
           b > Len(reaped) \/ (b = Len(reaped) /\ Clearing)
    PROVE  a = b
<1> DEFINE n == Len(reaped)
           g == GrowTokens
           k == FreeTokens
<1>1. n \in Nat /\ issued \in Nat
  BY EsnMaxAssumption DEF TypeOK
<1>2. g \in Nat /\ k \in Nat /\ (Clearing => k >= 1)
  <2>1. Clearing => At({"clear", "token"}) # {}
    BY DEF Clearing, At
  <2>2. QED
    BY <2>1, CountType DEF GrowTokens, FreeTokens
<1>3. g + k + issued - n =< Capacity
  BY DEF TokenInv
<1> HIDE DEF n, g, k
<1>4. b - a < Capacity /\ a - b < Capacity
  BY <1>1, <1>2, <1>3, CapacityAssumption DEF n
<1>5. QED
  BY <1>4, IndexDistinct

LEMMA EntryType ==
    /\ Free \in Entry
    /\ \A x \in Entry : /\ [x EXCEPT !.tail = TRUE] \in Entry
                         /\ [x EXCEPT !.tail = FALSE] \in Entry
                         /\ [x EXCEPT !.retired = TRUE] \in Entry
    /\ 0 \in Indexes
<1>1. Free \in Entry
  BY EsnMaxAssumption DEF Entry, Free
<1>2. ASSUME NEW x \in Entry
      PROVE  /\ [x EXCEPT !.tail = TRUE] \in Entry
             /\ [x EXCEPT !.tail = FALSE] \in Entry
             /\ [x EXCEPT !.retired = TRUE] \in Entry
  BY DEF Entry
<1>3. 0 \in Indexes
  BY CapacityAssumption DEF Indexes
<1>4. QED
  BY <1>1, <1>2, <1>3

LEMMA TypeStep == ASSUME TypeOK, OrderInv, RightInv, GrowInv, ReaperInv, [Next]_vars
                  PROVE  TypeOK'
<1> USE EsnMaxAssumption, CapacityAssumption, PrevTailsAssumption
<1>1. CASE UNCHANGED vars
  BY <1>1 DEF TypeOK, vars, window, threads, history
<1>2. ASSUME NEW t \in Threads, NEW c \in PrevTails, GrowBegin(t, c)
      PROVE  TypeOK'
  BY <1>2 DEF GrowBegin, Goto, TypeOK, Labels, Growing, Conds, history
<1>3. ASSUME NEW t \in Threads, GiveBack(t)
      PROVE  TypeOK'
  BY <1>3 DEF GiveBack, Goto, TypeOK, Labels, Growing, Conds, history
<1>4. ASSUME NEW t \in Threads, GrowLoad(t)
      PROVE  TypeOK'
  BY <1>4 DEF GrowLoad, Goto, TypeOK, Labels, Growing, Conds, history, window
<1>5. ASSUME NEW t \in Threads, GrowTry(t)
      PROVE  TypeOK'
  <2>1. issued' \in 0 .. EsnMax /\ right' \in 0 .. EsnMax + 1
        /\ issued =< issued'
    BY <1>5 DEF GrowTry, MayIssue, TypeOK, RightInv
  <2>2. /\ r' \in [Threads -> 0 .. EsnMax + 1]
        /\ pc' \in [Threads -> Labels]
    <3>1. r' \in [Threads -> 0 .. EsnMax + 1]
      <4>1. \/ UNCHANGED r
            \/ r' = [r EXCEPT ![t] = 0]
            \/ r' = [r EXCEPT ![t] = right]
        BY <1>5 DEF GrowTry
      <4>2. QED
        BY <4>1 DEF TypeOK
    <3>2. pc' \in [Threads -> Labels]
      <4>1. \/ UNCHANGED pc
            \/ Goto(t, "giveback")
            \/ Goto(t, "insert")
        BY <1>5 DEF GrowTry
      <4>2. QED
        BY <4>1 DEF Goto, TypeOK, Labels, Growing
    <3>3. QED
      BY <3>1, <3>2
  <2>3. DOMAIN grown' \subseteq 1 .. issued'
    BY <1>5, <2>1 DEF GrowTry, TypeOK
  <2>4. QED
    BY <1>5, <2>1, <2>2, <2>3 DEF GrowTry, TypeOK
<1>6. ASSUME NEW t \in Threads, Insert(t)
      PROVE  TypeOK'
  <2>1. r[t] \in 1 .. issued /\ r[t] \in 0 .. EsnMax /\ Index(r[t]) \in Indexes
    BY <1>6, IndexType DEF Insert, GrowInv, TypeOK
  <2>2. slot' \in [Indexes -> Entry]
    BY <1>6, <2>1 DEF Insert, TypeOK, Entry
  <2>3. /\ DOMAIN grown' \subseteq 1 .. issued'
        /\ grown' \in [DOMAIN grown' -> Conds]
        /\ retired' \subseteq DOMAIN grown'
    BY <1>6, <2>1 DEF Insert, TypeOK
  <2>4. r' \in [Threads -> 0 .. EsnMax + 1] /\ pc' \in [Threads -> Labels]
        /\ cond' \in [Threads -> Conds]
    BY <1>6 DEF Insert, Goto, TypeOK, Labels, Conds
  <2>5. QED
    BY <1>6, <2>2, <2>3, <2>4 DEF Insert, TypeOK
<1>7. ASSUME NEW t \in Threads, Disable(t)
      PROVE  TypeOK'
  BY <1>7 DEF Disable, Goto, TypeOK, Labels, history
<1>8. ASSUME NEW t \in Threads, DisableStore(t)
      PROVE  TypeOK'
  BY <1>8 DEF DisableStore, Goto, TypeOK, Labels, history
<1>9. CASE SetPrevTail
  BY <1>9 DEF SetPrevTail, TypeOK, threads, history
<1>10. ASSUME NEW t \in Threads, NEW e \in Esns, Retire(t, e)
       PROVE  TypeOK'
  <2>1. Index(e) \in Indexes
    BY IndexType DEF Esns
  <2>2. entry' \in [Threads -> Entry] /\ idx' \in [Threads -> Indexes]
    BY <1>10, <2>1 DEF Retire, TypeOK
  <2>3. pc' \in [Threads -> Labels] /\ retired' \subseteq DOMAIN grown'
    BY <1>10 DEF Retire, Goto, TypeOK, Labels, Reaping
  <2>4. QED
    BY <1>10, <2>2, <2>3 DEF Retire, TypeOK, window
<1>11. ASSUME NEW t \in Threads, MarkRetired(t)
       PROVE  TypeOK'
  <2>1. slot' \in [Indexes -> Entry]
    <3>1. CASE UNCHANGED slot
      BY <3>1 DEF TypeOK
    <3>2. CASE slot' = [slot EXCEPT ![idx[t]].retired = TRUE]
      BY <3>2, EntryType DEF TypeOK
    <3>3. QED
      BY <1>11, <3>1, <3>2 DEF MarkRetired
  <2>2. entry' \in [Threads -> Entry] /\ idx' \in [Threads -> Indexes]
    <3>1. CASE entry' = [entry EXCEPT ![t] = Free] /\ idx' = [idx EXCEPT ![t] = 0]
      BY <3>1, EntryType DEF TypeOK
    <3>2. CASE entry' = [entry EXCEPT ![t] = slot[idx[t]]] /\ UNCHANGED idx
      BY <3>2 DEF TypeOK
    <3>3. QED
      BY <1>11, <3>1, <3>2 DEF MarkRetired
  <2>3. pc' \in [Threads -> Labels]
    BY <1>11 DEF MarkRetired, Goto, TypeOK, Labels, Reaping
  <2>4. QED
    BY <1>11, <2>1, <2>2, <2>3 DEF MarkRetired, TypeOK, history
<1>12. ASSUME NEW t \in Threads, Reap(t)
       PROVE  TypeOK'
  <2>1. entry[t].el \in Nat
    BY DEF TypeOK, Entry
  <2>2. reaped' \in Seq(Nat)
    BY <1>12, <2>1 DEF Reap, TypeOK
  <2>3. pc' \in [Threads -> Labels]
    BY <1>12 DEF Reap, Goto, TypeOK, Labels, Reaping
  <2>4. QED
    BY <1>12, <2>2, <2>3 DEF Reap, TypeOK, window
<1>13. ASSUME NEW t \in Threads, ClearSlot(t) \/ FreeToken(t)
       PROVE  TypeOK'
  <2>1. slot' \in [Indexes -> Entry] /\ size' \in Int
    <3>1. CASE ClearSlot(t)
      BY <3>1, EntryType DEF ClearSlot, TypeOK
    <3>2. CASE FreeToken(t)
      BY <3>2 DEF FreeToken, TypeOK
    <3>3. QED
      BY <1>13, <3>1, <3>2
  <2>2. pc' \in [Threads -> Labels]
    BY <1>13 DEF ClearSlot, FreeToken, Goto, TypeOK, Labels, Reaping
  <2>3. QED
    BY <1>13, <2>1, <2>2 DEF ClearSlot, FreeToken, TypeOK, history
<1>14. ASSUME NEW t \in Threads, SetTail(t)
       PROVE  TypeOK'
  <2>1. NextIndex(idx[t]) \in Indexes
    BY DEF NextIndex, TypeOK, Indexes
  <2>2. slot' \in [Indexes -> Entry] /\ idx' \in [Threads -> Indexes]
    BY <1>14, <2>1, EntryType DEF SetTail, TypeOK
  <2>3. entry' \in [Threads -> Entry]
    <3> DEFINE next == NextIndex(idx[t])
    <3>1. [slot[next] EXCEPT !.tail = TRUE] \in Entry /\ Free \in Entry
      BY <2>1, EntryType DEF TypeOK
    <3>2. CASE entry' = [entry EXCEPT ![t] = Free]
      BY <3>1, <3>2 DEF TypeOK
    <3>3. CASE entry' = [entry EXCEPT ![t] = [slot[next] EXCEPT !.tail = TRUE]]
      BY <3>1, <3>3 DEF TypeOK
    <3>4. QED
      BY <1>14, <3>2, <3>3 DEF SetTail
  <2>4. pc' \in [Threads -> Labels]
    BY <1>14 DEF SetTail, Goto, TypeOK, Labels, Reaping
  <2>5. QED
    BY <1>14, <2>2, <2>3, <2>4 DEF SetTail, TypeOK, history
<1>15. QED
  BY <1>1, <1>2, <1>3, <1>4, <1>5, <1>6, <1>7, <1>8, <1>9, <1>10, <1>11,
     <1>12, <1>13, <1>14
  DEF Next, Continue

-----------------------------------------------------------------------------
(* The step lemmas.  grow(), disable() and set_prev_tail() leave alone what *)
(* retire() works on, up to the insertion of the element, and vice versa.  *)

LEMMA RetireSideFrame ==
    ASSUME TypeOK, OrderInv, OwnerInv, ReaperInv, TailInv, SlotInv, RetiredInv,
           UNCHANGED <<slot, idx, entry, grown, retired, reaped>>,
           \A t \in Threads :
              \/ pc'[t] = pc[t]
              \/ {pc[t], pc'[t]} \cap ({"mark"} \cup Reaping) = {}
    PROVE  /\ OrderInv' /\ OwnerInv' /\ ReaperInv' /\ TailInv' /\ SlotInv'
           /\ RetiredInv'
<1>1. \A l \in {"mark"} \cup Reaping, t \in Threads : pc'[t] = l <=> pc[t] = l
  OBVIOUS
<1>2. /\ At({"clear"})' = At({"clear"})
      /\ At({"clear", "token", "tail"})' = At({"clear", "token", "tail"})
      /\ At(Reaping)' = At(Reaping)
  BY <1>1 DEF At, Reaping
<1>3. OrderInv'
  BY DEF OrderInv
<1>4. OwnerInv'
  BY <1>1 DEF OwnerInv, Reaping
<1>5. ReaperInv'
  BY <1>1 DEF ReaperInv, OneReaper, Reaping
<1>6. TailInv' /\ SlotInv'
  BY <1>2 DEF TailInv, SlotInv, Clearing, EdgeMoving
<1>7. RetiredInv'
  BY <1>1, <1>2 DEF RetiredInv, Reaping
<1>8. QED
  BY <1>3, <1>4, <1>5, <1>6, <1>7

LEMMA GrowSideFrame ==
    ASSUME TypeOK, RightInv, GrowInv,
           UNCHANGED <<right, nextBeforeDisabled, r, cond, issued, grown>>,
           \A t \in Threads :
              \/ pc'[t] = pc[t]
              \/ {pc[t], pc'[t]} \cap {"insert", "disable"} = {}
    PROVE  RightInv' /\ GrowInv'
<1>1. \A l \in {"insert", "disable"}, t \in Threads : pc'[t] = l <=> pc[t] = l
  OBVIOUS
<1>2. RightInv'
  BY <1>1 DEF RightInv, NextIsFinal
<1>3. GrowInv'
  BY <1>1 DEF GrowInv, CondAppendFollowsTail
<1>4. QED
  BY <1>2, <1>3

\* The other invariants, without the types.
Parts ==
    /\ TokenInv /\ OrderInv /\ RightInv /\ GrowInv /\ OwnerInv /\ ReaperInv
    /\ TailInv /\ SlotInv /\ RetiredInv

LEMMA TokenType == TypeOK => /\ Len(reaped) \in Nat /\ issued \in Nat
                             /\ size \in Int /\ GrowTokens \in Nat
                             /\ BackTokens \in Nat /\ FreeTokens \in Nat
BY EsnMaxAssumption, CountType DEF TypeOK, GrowTokens, BackTokens, FreeTokens

\* Tokens change hands, come back, or one that is free is taken.
LEMMA TokenMove ==
    ASSUME TypeOK, TokenInv, UNCHANGED reaped,
           NEW g \in {-1, 0, 1}, NEW b \in {-1, 0, 1}, NEW f \in {-1, 0, 1},
           NEW i \in {0, 1},
           GrowTokens' = GrowTokens + g, BackTokens' = BackTokens + b,
           FreeTokens' = FreeTokens + f, issued' = issued + i,
           size' = size + (g + b + f + i),
           g + f + i =< 0 \/ (g + f + i = 1 /\ size < Capacity)
    PROVE  TokenInv'
<1>1. /\ Len(reaped) \in Nat /\ Len(reaped') = Len(reaped) /\ issued \in Nat
      /\ size \in Int /\ GrowTokens \in Nat /\ BackTokens \in Nat /\ FreeTokens \in Nat
  BY TokenType
<1>2. PICK k \in Nat : k = Len(reaped) /\ k = Len(reaped')
  BY <1>1
<1>3. size = GrowTokens + BackTokens + FreeTokens + issued - k
      /\ GrowTokens + FreeTokens + issued - k =< Capacity
  BY <1>2 DEF TokenInv
<1>4. g \in Int /\ b \in Int /\ f \in Int /\ i \in Int
  OBVIOUS
<1>5. /\ size' = GrowTokens' + BackTokens' + FreeTokens' + issued' - k
      /\ GrowTokens' + FreeTokens' + issued' - k =< Capacity
  BY <1>1, <1>3, <1>4, CapacityAssumption
<1>6. QED
  BY <1>2, <1>5 DEF TokenInv

LEMMA GrowBeginStep ==
    ASSUME IInv, NEW t \in Threads, NEW c \in PrevTails, GrowBegin(t, c)
    PROVE  Parts'
<1> USE DEF IInv
<1> DEFINE l == IF HasRoom(size) THEN "grow" ELSE "giveback"
<1>1. /\ pc[t] = "idle" /\ Goto(t, l) /\ size' = size + 1
      /\ UNCHANGED <<right, nextBeforeDisabled, prevTail, slot, r, idx, entry,
                     history>>
  BY DEF GrowBegin
<1>2. pc \in [Threads -> Labels] /\ l \in {"grow", "giveback"}
  BY DEF TypeOK
<1>3. TokenInv'
  <2>1. CASE HasRoom(size)
    <3>1. Goto(t, "grow")
      BY <1>1, <2>1
    <3>2. /\ GrowTokens' = GrowTokens + 1
          /\ BackTokens' = BackTokens
          /\ FreeTokens' = FreeTokens
      BY <1>1, <1>2, <3>1, Move
      DEF GrowTokens, BackTokens, FreeTokens
    <3>3. /\ GrowTokens' = GrowTokens + 1 /\ BackTokens' = BackTokens + 0
          /\ FreeTokens' = FreeTokens + 0 /\ issued' = issued + 0
          /\ size' = size + (1 + 0 + 0 + 0)
      BY <1>1, <3>2, TokenType DEF history
    <3>4. QED
      BY <3>3, <1>1, <2>1, TokenMove DEF HasRoom, history
  <2>2. CASE ~HasRoom(size)
    <3>1. Goto(t, "giveback")
      BY <1>1, <2>2
    <3>2. /\ GrowTokens' = GrowTokens
          /\ BackTokens' = BackTokens + 1
          /\ FreeTokens' = FreeTokens
      BY <1>1, <1>2, <3>1, Move
      DEF GrowTokens, BackTokens, FreeTokens
    <3>3. /\ GrowTokens' = GrowTokens + 0 /\ BackTokens' = BackTokens + 1
          /\ FreeTokens' = FreeTokens + 0 /\ issued' = issued + 0
          /\ size' = size + (0 + 1 + 0 + 0)
      BY <1>1, <3>2, TokenType DEF history
    <3>4. QED
      BY <3>3, <1>1, TokenMove DEF history
  <2>3. QED
    BY <2>1, <2>2
<1>4. \A u \in Threads : pc'[u] = pc[u] \/ (u = t /\ pc'[u] = l)
  BY <1>1, <1>2 DEF Goto
<1>5. OrderInv' /\ OwnerInv' /\ ReaperInv' /\ TailInv' /\ SlotInv' /\ RetiredInv'
  BY <1>1, <1>2, <1>4, RetireSideFrame DEF Reaping, history
<1>6. RightInv'
  BY <1>1, <1>2, <1>4 DEF RightInv, NextIsFinal, history
<1>7. GrowInv'
  BY <1>1, <1>2, <1>4 DEF GrowInv, CondAppendFollowsTail, GrowBegin, history, TypeOK
<1>8. QED
  BY <1>3, <1>5, <1>6, <1>7 DEF Parts

LEMMA GiveBackStep ==
    ASSUME IInv, NEW t \in Threads, GiveBack(t)
    PROVE  Parts'
<1> USE DEF IInv
<1>1. /\ pc[t] = "giveback" /\ Goto(t, "idle") /\ size' = size - 1
      /\ UNCHANGED <<right, nextBeforeDisabled, prevTail, slot, r, idx, entry,
                     history>>
  BY DEF GiveBack
<1>2. pc \in [Threads -> Labels]
  BY DEF TypeOK
<1>3. TokenInv'
  <2>1. /\ GrowTokens' = GrowTokens
        /\ BackTokens' = BackTokens - 1
        /\ FreeTokens' = FreeTokens
    BY <1>1, <1>2, Move
    DEF GrowTokens, BackTokens, FreeTokens
  <2>2. /\ GrowTokens' = GrowTokens + 0 /\ BackTokens' = BackTokens + (-1)
        /\ FreeTokens' = FreeTokens + 0 /\ issued' = issued + 0
        /\ size' = size + (0 + (-1) + 0 + 0)
    BY <1>1, <2>1, TokenType DEF history
  <2>3. QED
    BY <1>1, <2>2, TokenMove DEF history
<1>4. \A u \in Threads : pc'[u] = pc[u] \/ (u = t /\ pc'[u] = "idle")
  BY <1>1, <1>2 DEF Goto
<1>5. OrderInv' /\ OwnerInv' /\ ReaperInv' /\ TailInv' /\ SlotInv' /\ RetiredInv'
  BY <1>1, <1>4, RetireSideFrame DEF Reaping, history
<1>6. RightInv'
  BY <1>1, <1>4 DEF RightInv, NextIsFinal, history
<1>7. GrowInv'
  BY <1>1, <1>4 DEF GrowInv, CondAppendFollowsTail, GiveBack, history, TypeOK
<1>8. QED
  BY <1>3, <1>5, <1>6, <1>7 DEF Parts

LEMMA GrowLoadStep ==
    ASSUME IInv, NEW t \in Threads, GrowLoad(t)
    PROVE  Parts'
<1> USE DEF IInv
<1>1. /\ pc[t] = "grow" /\ Goto(t, "try") /\ r' = [r EXCEPT ![t] = right]
      /\ UNCHANGED <<window, cond, idx, entry, history>>
  BY DEF GrowLoad
<1>2. pc \in [Threads -> Labels]
  BY DEF TypeOK
<1>3. TokenInv'
  <2>1. /\ GrowTokens' = GrowTokens
        /\ BackTokens' = BackTokens
        /\ FreeTokens' = FreeTokens
    BY <1>1, <1>2, Move
    DEF GrowTokens, BackTokens, FreeTokens
  <2>2. QED
    BY <1>1, <2>1 DEF TokenInv, history, window
<1>4. \A u \in Threads : \/ pc'[u] = pc[u] /\ r'[u] = r[u]
                         \/ u = t /\ pc'[u] = "try"
  BY <1>1, <1>2 DEF Goto, TypeOK
<1>5. OrderInv' /\ OwnerInv' /\ ReaperInv' /\ TailInv' /\ SlotInv' /\ RetiredInv'
  BY <1>1, <1>4, RetireSideFrame DEF Reaping, history, window
<1>6. RightInv'
  BY <1>1, <1>4 DEF RightInv, NextIsFinal, history, window
<1>7. GrowInv'
  BY <1>1, <1>4 DEF GrowInv, CondAppendFollowsTail, history
<1>8. QED
  BY <1>3, <1>5, <1>6, <1>7 DEF Parts

LEMMA GrowTryStep ==
    ASSUME IInv, NEW t \in Threads, GrowTry(t)
    PROVE  Parts'
<1> USE DEF IInv
<1>1. /\ pc[t] = "try"
      /\ UNCHANGED <<size, nextBeforeDisabled, prevTail, slot, cond, idx, entry,
                     grown, retired, reaped>>
  BY DEF GrowTry
<1>2. pc \in [Threads -> Labels] /\ r \in [Threads -> 0 .. EsnMax + 1]
  BY DEF TypeOK
<1>3. CASE /\ Goto(t, "giveback") /\ r' = [r EXCEPT ![t] = 0]
           /\ UNCHANGED <<right, issued>>
  <2>1. TokenInv'
    <3>1. /\ GrowTokens' = GrowTokens - 1
          /\ BackTokens' = BackTokens + 1
          /\ FreeTokens' = FreeTokens
      BY <1>1, <1>2, <1>3, Move
      DEF GrowTokens, BackTokens, FreeTokens
    <3>2. /\ GrowTokens' = GrowTokens + (-1) /\ BackTokens' = BackTokens + 1
          /\ FreeTokens' = FreeTokens + 0 /\ issued' = issued + 0
          /\ size' = size + ((-1) + 1 + 0 + 0)
      BY <1>1, <1>3, <3>1, TokenType
    <3>3. QED
      BY <3>2, <1>1, TokenMove
  <2>2. \A u \in Threads : \/ pc'[u] = pc[u] /\ r'[u] = r[u]
                           \/ u = t /\ pc'[u] = "giveback"
    BY <1>2, <1>3 DEF Goto
  <2>3. OrderInv' /\ OwnerInv' /\ ReaperInv' /\ TailInv' /\ SlotInv' /\ RetiredInv'
    BY <1>1, <1>3, <2>2, RetireSideFrame DEF Reaping
  <2>4. RightInv'
    BY <1>1, <1>3, <2>2 DEF RightInv, NextIsFinal
  <2>5. GrowInv'
    BY <1>1, <1>3, <2>2 DEF GrowInv, CondAppendFollowsTail
  <2>6. QED
    BY <2>1, <2>3, <2>4, <2>5 DEF Parts
<1>4. CASE /\ MayIssue(r[t], cond[t]) /\ right = r[t] /\ right' = right + 1
           /\ issued' = right /\ Goto(t, "insert") /\ UNCHANGED r
  <2>1. right # 0 /\ right = issued + 1 /\ issued' = issued + 1
        /\ right =< EsnMax
    BY <1>4 DEF MayIssue, RightInv
  <2>2. TokenInv'
    <3>1. /\ GrowTokens' = GrowTokens - 1
          /\ BackTokens' = BackTokens
          /\ FreeTokens' = FreeTokens
      BY <1>1, <1>2, <1>4, Move
      DEF GrowTokens, BackTokens, FreeTokens
    <3>2. /\ GrowTokens' = GrowTokens + (-1) /\ BackTokens' = BackTokens + 0
          /\ FreeTokens' = FreeTokens + 0 /\ issued' = issued + 1
          /\ size' = size + ((-1) + 0 + 0 + 1)
      BY <1>1, <2>1, <3>1, TokenType
    <3>3. QED
      BY <3>2, <1>1, TokenMove
  <2>3. \A u \in Threads : \/ pc'[u] = pc[u] /\ u # t
                           \/ u = t /\ pc'[u] = "insert"
    BY <1>2, <1>4 DEF Goto
  <2>4. OrderInv' /\ OwnerInv' /\ ReaperInv' /\ TailInv' /\ SlotInv' /\ RetiredInv'
    BY <1>1, <1>4, <2>3, RetireSideFrame DEF Reaping
  <2>5. RightInv'
    <3>1. \A u \in Threads : pc'[u] # "disable"
      BY <2>1, <2>3 DEF RightInv
    <3>2. right' # 0 /\ right' = issued' + 1
      BY <1>4, <2>1, TokenType
    <3>3. QED
      BY <3>1, <3>2 DEF RightInv, NextIsFinal
  <2>6. GrowInv'
    <3>1. \A u \in Threads : pc[u] = "insert" => r[u] # issued + 1
      BY TokenType DEF GrowInv
    <3>2. issued + 1 \notin DOMAIN grown
      BY TokenType DEF TypeOK
    <3>3. cond[t] # Unknown => cond[t] = r[t] - 1
      BY <1>4, <2>1, TokenType DEF MayIssue, ExpectedTail, TypeOK
    <3>4. \A u \in Threads : pc'[u] = "insert" =>
              /\ r'[u] \in 1 .. issued'
              /\ r'[u] \notin DOMAIN grown'
              /\ cond'[u] # Unknown => cond'[u] = r'[u] - 1
      <4> TAKE u \in Threads
      <4>0. issued' = issued + 1 /\ issued \in Nat
            /\ UNCHANGED <<r, cond, grown>>
        BY <1>1, <1>4, <2>1, TokenType
      <4>1. CASE u = t
        <5>1. r[t] = issued + 1
          BY <1>4, <2>1
        <5>2. QED
          BY <3>2, <3>3, <4>0, <4>1, <5>1
      <4>2. CASE u # t
        <5>1. pc'[u] = pc[u] /\ r'[u] = r[u] /\ cond'[u] = cond[u]
          BY <1>1, <1>4, <2>3, <4>2
        <5>2. pc[u] = "insert" =>
                /\ r[u] \in 1 .. issued
                /\ r[u] \notin DOMAIN grown
                /\ cond[u] # Unknown => cond[u] = r[u] - 1
          BY DEF GrowInv
        <5>3. QED
          BY <4>0, <5>1, <5>2
      <4>3. QED
        BY <4>1, <4>2
    <3>5. \A u, v \in Threads :
            pc'[u] = "insert" /\ pc'[v] = "insert" /\ r'[u] = r'[v] => u = v
      BY <1>4, <2>1, <2>3, <3>1 DEF GrowInv
    <3>6. QED
      BY <1>1, <3>4, <3>5 DEF GrowInv, CondAppendFollowsTail
  <2>7. QED
    BY <2>2, <2>4, <2>5, <2>6 DEF Parts
<1>5. CASE r' = [r EXCEPT ![t] = right] /\ UNCHANGED <<pc, right, issued>>
  <2>1. TokenInv'
    BY <1>1, <1>5, CountUnchanged DEF GrowTokens, BackTokens, FreeTokens, TokenInv
  <2>2. \A u \in Threads : r'[u] = r[u] \/ u = t
    BY <1>2, <1>5
  <2>3. OrderInv' /\ OwnerInv' /\ ReaperInv' /\ TailInv' /\ SlotInv' /\ RetiredInv'
    BY <1>1, <1>5, RetireSideFrame
  <2>4. RightInv'
    BY <1>1, <1>5, <2>2 DEF RightInv, NextIsFinal
  <2>5. GrowInv'
    BY <1>1, <1>5, <2>2 DEF GrowInv, CondAppendFollowsTail
  <2>6. QED
    BY <2>1, <2>3, <2>4, <2>5 DEF Parts
<1>6. QED
  BY <1>3, <1>4, <1>5 DEF GrowTry

\* The slot of the ESN that a grow() is about to fill.
LEMMA FreeSlot ==
    ASSUME IInv, NEW t \in Threads, pc[t] = "insert"
    PROVE  /\ r[t] \in 1 .. issued /\ r[t] \in Nat /\ r[t] > Len(reaped)
           /\ r[t] \notin DOMAIN grown
           /\ Index(r[t]) \in Indexes
           /\ slot[Index(r[t])].el = 0
           /\ slot[Index(r[t])].retired = FALSE
<1> USE DEF IInv
<1> DEFINE e == r[t]
           i == Index(e)
<1>1. e \in 1 .. issued /\ e \in Nat /\ e \notin DOMAIN grown /\ i \in Indexes
  BY IndexType, TokenType DEF GrowInv
<1>2. e > Len(reaped)
  BY <1>1, TokenType DEF OrderInv, TypeOK
<1>3. slot[i].el = 0
  <2>1. SUFFICES ASSUME slot[i].el # 0 PROVE FALSE
    OBVIOUS
  <2>2. /\ slot[i].el \in DOMAIN grown /\ Index(slot[i].el) = i
        /\ \/ slot[i].el > Len(reaped)
           \/ slot[i].el = Len(reaped) /\ Clearing
    BY <1>1, <2>1 DEF SlotInv
  <2>3. slot[i].el \in Nat /\ slot[i].el =< issued
    BY <2>2 DEF TypeOK
  <2>4. slot[i].el = e
    BY <1>1, <1>2, <2>2, <2>3, LiveDistinct
  <2>5. QED
    BY <1>1, <2>2, <2>4
<1>4. 0 \notin retired /\ slot[i].retired \in BOOLEAN
  BY <1>1 DEF TypeOK, Entry
<1>5. slot[i].retired # TRUE
  BY <1>1, <1>3, <1>4 DEF SlotInv
<1>6. QED
  BY <1>1, <1>2, <1>3, <1>4, <1>5

LEMMA InsertStep ==
    ASSUME IInv, NEW t \in Threads, Insert(t)
    PROVE  Parts'
<1> USE DEF IInv
<1> DEFINE e == r[t]
           i == Index(e)
<1>1. /\ pc[t] = "insert" /\ Goto(t, "idle")
      /\ slot' = [slot EXCEPT ![i].el = e]
      /\ grown' = [x \in DOMAIN grown \cup {e} |->
                      IF x = e THEN cond[t] ELSE grown[x]]
      /\ r' = [r EXCEPT ![t] = 0]
      /\ cond' = [cond EXCEPT ![t] = Unknown]
      /\ UNCHANGED <<size, right, nextBeforeDisabled, prevTail, idx, entry,
                     issued, retired, reaped>>
  BY DEF Insert
<1>2. /\ pc \in [Threads -> Labels] /\ r \in [Threads -> 0 .. EsnMax + 1]
      /\ cond \in [Threads -> Conds] /\ slot \in [Indexes -> Entry]
  BY DEF TypeOK
<1>3. /\ e \in 1 .. issued /\ e \in Nat /\ e \notin DOMAIN grown /\ i \in Indexes
      /\ cond[t] # Unknown => cond[t] = e - 1
  BY <1>1, FreeSlot DEF GrowInv
<1>4. e > Len(reaped)
  BY <1>1, FreeSlot
<1>5. \A u \in Threads : \/ /\ pc'[u] = pc[u] /\ u # t
                            /\ r'[u] = r[u] /\ cond'[u] = cond[u]
                         \/ u = t /\ pc'[u] = "idle"
  BY <1>1, <1>2 DEF Goto
<1>6. \A l \in {"mark", "disable"} \cup Reaping, u \in Threads :
          pc'[u] = l <=> pc[u] = l
  BY <1>1, <1>5 DEF Reaping
<1>7. /\ At({"clear"})' = At({"clear"})
      /\ At({"clear", "token", "tail"})' = At({"clear", "token", "tail"})
      /\ At(Reaping)' = At(Reaping)
  BY <1>6 DEF At, Reaping
<1>8. \A j \in Indexes : /\ slot'[j].retired = slot[j].retired
                         /\ slot'[j].tail = slot[j].tail
                         /\ slot'[j].el = IF j = i THEN e ELSE slot[j].el
  BY <1>1, <1>2, <1>3 DEF Entry
<1>9. slot[i].el = 0 /\ slot[i].retired = FALSE
  BY <1>1, FreeSlot
<1> HIDE DEF e, i
<1>10. TokenInv'
  <2>1. /\ GrowTokens' = GrowTokens
        /\ BackTokens' = BackTokens
        /\ FreeTokens' = FreeTokens
    BY <1>1, <1>2, Move
    DEF GrowTokens, BackTokens, FreeTokens
  <2>2. QED
    BY <1>1, <2>1 DEF TokenInv
<1>11. OrderInv'
  BY <1>1 DEF OrderInv
<1>12. RightInv'
  BY <1>1, <1>5, <1>6 DEF RightInv, NextIsFinal
<1>13. GrowInv'
  <2>1. \A u \in Threads : pc'[u] = "insert" => r'[u] # e
    BY <1>1, <1>5 DEF GrowInv, e
  <2>2. CondAppendFollowsTail'
    BY <1>1, <1>3 DEF GrowInv, CondAppendFollowsTail
  <2>3. \A u \in Threads : pc'[u] = "insert" =>
              /\ r'[u] \in 1 .. issued'
              /\ r'[u] \notin DOMAIN grown'
              /\ cond'[u] # Unknown => cond'[u] = r'[u] - 1
    BY <1>1, <1>5, <2>1 DEF GrowInv
  <2>4. \A u, v \in Threads :
            pc'[u] = "insert" /\ pc'[v] = "insert" /\ r'[u] = r'[v] => u = v
    BY <1>1, <1>5 DEF GrowInv
  <2>5. QED
    BY <2>2, <2>3, <2>4 DEF GrowInv
<1>14. OwnerInv'
  <2>1. \A u \in Threads : pc[u] = "mark" => idx[u] \in Indexes
    BY DEF TypeOK
  <2>2. QED
    BY <1>1, <1>6, <1>8, <2>1 DEF OwnerInv, Reaping
<1>15. ReaperInv'
  BY <1>1, <1>6 DEF ReaperInv, OneReaper, Reaping
<1>16. TailInv'
  BY <1>1, <1>7, <1>8 DEF TailInv, Clearing, EdgeMoving
<1>17. SlotInv'
  <2>1. DOMAIN grown' = DOMAIN grown \cup {e} /\ DOMAIN grown \subseteq Nat
    BY <1>1 DEF TypeOK
  <2>2. \A j \in Indexes : slot'[j].el # 0 =>
          /\ slot'[j].el \in DOMAIN grown'
          /\ Index(slot'[j].el) = j
          /\ \/ slot'[j].el > Len(reaped')
             \/ slot'[j].el = Len(reaped') /\ Clearing'
    BY <1>1, <1>4, <1>7, <1>8, <2>1 DEF SlotInv, Clearing, i
  <2>3. \A j \in Indexes : slot'[j].retired = TRUE => slot'[j].el \in retired'
    <3>1. slot[i].retired # TRUE
      BY <1>9
    <3>2. ASSUME NEW j \in Indexes, slot'[j].retired = TRUE
          PROVE  slot'[j].el \in retired'
      <4>1. slot[j].retired = TRUE /\ j # i
        BY <1>8, <3>1, <3>2
      <4>2. slot'[j].el = slot[j].el /\ slot[j].el \in retired
        BY <1>8, <4>1 DEF SlotInv
      <4>3. QED
        BY <1>1, <4>2
    <3>3. QED
      BY <3>2
  <2>4. \A x \in DOMAIN grown' : x > Len(reaped') => slot'[Index(x)].el = x
    <3>1. ASSUME NEW x \in DOMAIN grown, x > Len(reaped)
          PROVE  slot'[Index(x)].el = x
      <4>1. slot[Index(x)].el = x /\ Index(x) \in Indexes /\ x # 0
        BY <2>1, <3>1, IndexType DEF SlotInv, TypeOK
      <4>2. QED
        BY <1>8, <1>9, <4>1
    <3>2. slot'[i].el = e
      BY <1>3, <1>8
    <3>3. QED
      BY <1>1, <2>1, <3>1, <3>2 DEF i
  <2>5. QED
    BY <2>2, <2>3, <2>4 DEF SlotInv
<1>18. RetiredInv'
  <2>1. \A x \in retired : Index(x) \in Indexes
    BY IndexType DEF TypeOK
  <2>2. Index(Len(reaped) + 1) \in Indexes
    BY IndexType, TokenType
  <2>3. QED
    BY <1>1, <1>6, <1>7, <1>8, <2>1, <2>2 DEF RetiredInv, Reaping
<1>19. QED
  BY <1>10, <1>11, <1>12, <1>13, <1>14, <1>15, <1>16, <1>17, <1>18 DEF Parts

LEMMA DisableStep ==
    ASSUME IInv, NEW t \in Threads, Disable(t)
    PROVE  Parts'
<1> USE DEF IInv
<1>1. /\ pc[t] = "idle" /\ right # 0 /\ right' = 0
      /\ r' = [r EXCEPT ![t] = right] /\ Goto(t, "disable")
      /\ UNCHANGED <<size, nextBeforeDisabled, prevTail, slot, cond, idx, entry,
                     history>>
  BY DEF Disable
<1>2. pc \in [Threads -> Labels] /\ r \in [Threads -> 0 .. EsnMax + 1]
  BY DEF TypeOK
<1>3. TokenInv'
  <2>1. /\ GrowTokens' = GrowTokens
        /\ BackTokens' = BackTokens
        /\ FreeTokens' = FreeTokens
    BY <1>1, <1>2, Move
    DEF GrowTokens, BackTokens, FreeTokens
  <2>2. QED
    BY <1>1, <2>1 DEF TokenInv, history
<1>4. \A u \in Threads : \/ pc'[u] = pc[u] /\ r'[u] = r[u] /\ u # t
                         \/ u = t /\ pc'[u] = "disable" /\ r'[u] = right
  BY <1>1, <1>2 DEF Goto
<1>5. OrderInv' /\ OwnerInv' /\ ReaperInv' /\ TailInv' /\ SlotInv' /\ RetiredInv'
  BY <1>1, <1>4, RetireSideFrame DEF Reaping, history
<1>6. RightInv'
  <2>1. right = issued + 1 /\ \A u \in Threads : pc[u] # "disable"
    BY <1>1 DEF RightInv
  <2>2. QED
    BY <1>1, <1>4, <2>1 DEF RightInv, NextIsFinal, history
<1>7. GrowInv'
  BY <1>1, <1>4 DEF GrowInv, CondAppendFollowsTail, history
<1>8. QED
  BY <1>3, <1>5, <1>6, <1>7 DEF Parts

LEMMA DisableStoreStep ==
    ASSUME IInv, NEW t \in Threads, DisableStore(t)
    PROVE  Parts'
<1> USE DEF IInv
<1>1. /\ pc[t] = "disable" /\ nextBeforeDisabled' = r[t]
      /\ r' = [r EXCEPT ![t] = 0] /\ Goto(t, "idle")
      /\ UNCHANGED <<size, right, prevTail, slot, cond, idx, entry, history>>
  BY DEF DisableStore
<1>2. pc \in [Threads -> Labels] /\ r \in [Threads -> 0 .. EsnMax + 1]
  BY DEF TypeOK
<1>3. TokenInv'
  <2>1. /\ GrowTokens' = GrowTokens
        /\ BackTokens' = BackTokens
        /\ FreeTokens' = FreeTokens
    BY <1>1, <1>2, Move
    DEF GrowTokens, BackTokens, FreeTokens
  <2>2. QED
    BY <1>1, <2>1 DEF TokenInv, history
<1>4. \A u \in Threads : \/ pc'[u] = pc[u] /\ r'[u] = r[u] /\ u # t
                         \/ u = t /\ pc'[u] = "idle"
  BY <1>1, <1>2 DEF Goto
<1>5. OrderInv' /\ OwnerInv' /\ ReaperInv' /\ TailInv' /\ SlotInv' /\ RetiredInv'
  BY <1>1, <1>4, RetireSideFrame DEF Reaping, history
<1>6. RightInv'
  <2>1. right = 0 /\ r[t] = issued + 1
    BY <1>1 DEF RightInv
  <2>2. QED
    BY <1>1, <1>4, <2>1 DEF RightInv, NextIsFinal, history
<1>7. GrowInv'
  BY <1>1, <1>4 DEF GrowInv, CondAppendFollowsTail, history
<1>8. QED
  BY <1>3, <1>5, <1>6, <1>7 DEF Parts

LEMMA SetPrevTailStep == ASSUME IInv, SetPrevTail PROVE Parts'
<1> USE DEF IInv
<1>1. UNCHANGED <<size, right, nextBeforeDisabled, slot, threads, history>>
  BY DEF SetPrevTail
<1>2. TokenInv'
  BY <1>1, CountUnchanged DEF GrowTokens, BackTokens, FreeTokens, TokenInv, threads, history
<1>3. OrderInv' /\ OwnerInv' /\ ReaperInv' /\ TailInv' /\ SlotInv' /\ RetiredInv'
  BY <1>1, RetireSideFrame DEF threads, history
<1>4. RightInv' /\ GrowInv'
  BY <1>1, GrowSideFrame DEF threads, history
<1>5. QED
  BY <1>2, <1>3, <1>4 DEF Parts

\* An element of the window that shares its slot with the left edge is the left
\* edge; when the edge is being cleared it is not in the window any more.
LEMMA AtEdge ==
    ASSUME TypeOK, TokenInv, OrderInv, ReaperInv, TailInv,
           NEW e \in DOMAIN grown, e > Len(reaped), slot[Index(e)].tail = TRUE
    PROVE  e = Len(reaped) + 1 /\ ~EdgeMoving
<1>1. /\ e \in Nat /\ e =< issued /\ Index(e) \in Indexes
      /\ Len(reaped) \in Nat /\ Len(reaped) + 1 \in Nat /\ issued \in Nat
  BY IndexType, TokenType DEF TypeOK
<1>2. CASE Index(e) = Index(Len(reaped)) /\ Clearing
  <2>1. e = Len(reaped)
    BY <1>1, <1>2, LiveDistinct
  <2>2. QED
    BY <1>1, <2>1
<1>3. CASE Index(e) = Index(Len(reaped) + 1) /\ ~EdgeMoving
  BY <1>1, <1>3, LiveDistinct
<1>4. QED
  BY <1>1, <1>2, <1>3 DEF TailInv

\* The slot of an element of the window.
LEMMA OwnSlot ==
    ASSUME TypeOK, OrderInv, SlotInv,
           NEW e \in DOMAIN grown, e > Len(reaped)
    PROVE  /\ e \in Nat /\ e =< issued /\ Index(e) \in Indexes
           /\ slot[Index(e)].el = e
           /\ slot[Index(e)].retired \in BOOLEAN
           /\ slot[Index(e)].tail \in BOOLEAN
<1>1. e \in Nat /\ e =< issued /\ Index(e) \in Indexes
  BY IndexType DEF TypeOK
<1>2. slot[Index(e)] \in Entry
  BY <1>1 DEF TypeOK
<1>3. QED
  BY <1>1, <1>2 DEF Entry, SlotInv

LEMMA RetireStep ==
    ASSUME IInv, NEW t \in Threads, NEW e \in Esns, Retire(t, e)
    PROVE  Parts'
<1> USE DEF IInv
<1> DEFINE i == Index(e)
           l == IF slot[i].tail THEN "reap" ELSE "mark"
<1>1. /\ pc[t] = "idle" /\ e \in DOMAIN grown /\ e \notin retired
      /\ retired' = retired \cup {e}
      /\ idx' = [idx EXCEPT ![t] = i]
      /\ entry' = [entry EXCEPT ![t] = slot[i]]
      /\ Goto(t, l)
      /\ UNCHANGED <<window, r, cond, issued, grown, reaped>>
  BY DEF Retire
<1>2. /\ pc \in [Threads -> Labels] /\ idx \in [Threads -> Indexes]
      /\ entry \in [Threads -> Entry] /\ slot \in [Indexes -> Entry]
      /\ Len(reaped) \in Nat /\ issued \in Nat
  BY TokenType DEF TypeOK
<1>3. e > Len(reaped)
  BY <1>1, <1>2 DEF OrderInv, Esns
<1>4. /\ e \in Nat /\ e =< issued /\ i \in Indexes
      /\ slot[i].el = e
      /\ slot[i].retired \in BOOLEAN /\ slot[i].tail \in BOOLEAN
  BY <1>1, <1>3, OwnSlot
<1>5. slot[i].retired = FALSE
  BY <1>1, <1>4 DEF SlotInv
<1>6. slot[i].tail = TRUE => e = Len(reaped) + 1 /\ At(Reaping) = {}
  <2> SUFFICES ASSUME slot[i].tail = TRUE
               PROVE  e = Len(reaped) + 1 /\ At(Reaping) = {}
    OBVIOUS
  <2>1. e = Len(reaped) + 1 /\ ~EdgeMoving
    BY <1>1, <1>3, AtEdge
  <2>2. \A u \in Threads : pc[u] # "reap"
    BY <1>1, <2>1 DEF ReaperInv
  <2>3. QED
    BY <2>1, <2>2 DEF EdgeMoving, At, Reaping
<1>7. \/ slot[i].tail = TRUE /\ Goto(t, "reap")
      \/ slot[i].tail = FALSE /\ Goto(t, "mark")
  BY <1>1, <1>4
<1>8. \A u \in Threads :
          \/ /\ u # t /\ pc'[u] = pc[u] /\ idx'[u] = idx[u]
             /\ entry'[u] = entry[u]
          \/ /\ u = t /\ idx'[u] = i /\ entry'[u] = slot[i]
             /\ \/ pc'[u] = "reap" /\ slot[i].tail = TRUE
                \/ pc'[u] = "mark" /\ slot[i].tail = FALSE
  BY <1>1, <1>2, <1>7 DEF Goto
<1> HIDE DEF i, l
<1>9. /\ At({"clear"})' = At({"clear"})
      /\ At({"clear", "token", "tail"})' = At({"clear", "token", "tail"})
      /\ At(Reaping) \subseteq At(Reaping)'
  BY <1>1, <1>8 DEF At, Reaping
<1>10. TokenInv'
  <2>1. /\ GrowTokens' = GrowTokens
        /\ BackTokens' = BackTokens
        /\ FreeTokens' = FreeTokens
    BY <1>1, <1>2, <1>7, Move
    DEF GrowTokens, BackTokens, FreeTokens
  <2>2. QED
    BY <1>1, <2>1 DEF TokenInv, window
<1>11. OrderInv'
  BY <1>1 DEF OrderInv
<1>12. RightInv' /\ GrowInv'
  BY <1>1, <1>8, GrowSideFrame DEF window
<1>13. OwnerInv'
  <2>1. \A u \in Threads : pc[u] \in {"mark", "reap"} => entry[u].el # e
    BY <1>1 DEF OwnerInv, ReaperInv
  <2>2. slot[i].tail = FALSE =>
            slot[i] = [el |-> e, retired |-> FALSE, tail |-> FALSE]
    BY <1>2, <1>4, <1>5 DEF Entry
  <2>3. ASSUME NEW u \in Threads, pc'[u] = "mark"
        PROVE  /\ entry'[u].el \in retired'
               /\ entry'[u].el > Len(reaped')
               /\ idx'[u] = Index(entry'[u].el)
               /\ entry'[u] = [el |-> entry'[u].el, retired |-> FALSE,
                               tail |-> FALSE]
               /\ slot'[idx'[u]].retired = FALSE
    <3>1. CASE u = t
      <4>1. entry'[u] = slot[i] /\ idx'[u] = i /\ slot[i].tail = FALSE
        BY <1>8, <2>3, <3>1
      <4>2. entry'[u].el = e /\ slot' = slot /\ reaped' = reaped
        BY <1>1, <1>4, <4>1 DEF window
      <4>3. entry'[u] = [el |-> e, retired |-> FALSE, tail |-> FALSE]
        BY <2>2, <4>1
      <4>4. /\ e \in retired' /\ e > Len(reaped') /\ idx'[u] = Index(e)
            /\ slot'[idx'[u]].retired = FALSE
        BY <1>1, <1>3, <1>5, <4>1, <4>2 DEF i
      <4>5. QED
        BY <4>2, <4>3, <4>4
    <3>2. CASE u # t
      BY <1>1, <1>8, <2>3, <3>2 DEF OwnerInv, window
    <3>3. QED
      BY <3>1, <3>2
  <2>4. ASSUME NEW u \in Threads, NEW v \in Threads,
               pc'[u] \in {"mark", "reap"}, pc'[v] \in {"mark", "reap"},
               entry'[u].el = entry'[v].el
        PROVE  u = v
    BY <1>4, <1>8, <2>1, <2>4 DEF OwnerInv
  <2>5. QED
    BY <2>3, <2>4 DEF OwnerInv
<1>14. ReaperInv'
  <2>1. ASSUME NEW u \in Threads, pc'[u] = "reap"
        PROVE  /\ entry'[u].el = Len(reaped') + 1
               /\ entry'[u].el \in retired'
               /\ idx'[u] = Index(Len(reaped') + 1)
    <3>1. CASE u = t
      BY <1>1, <1>4, <1>6, <1>8, <2>1, <3>1 DEF i
    <3>2. CASE u # t
      BY <1>1, <1>8, <2>1, <3>2 DEF ReaperInv
    <3>3. QED
      BY <3>1, <3>2
  <2>2. \A u \in Threads : pc'[u] \in {"clear", "token", "tail"} =>
          Len(reaped') >= 1 /\ idx'[u] = Index(Len(reaped'))
    BY <1>1, <1>8 DEF ReaperInv
  <2>3. OneReaper'
    BY <1>6, <1>8 DEF ReaperInv, OneReaper, At, Reaping
  <2>4. QED
    BY <2>1, <2>2, <2>3 DEF ReaperInv
<1>15. TailInv'
  BY <1>1, <1>9 DEF TailInv, Clearing, EdgeMoving, window
<1>16. SlotInv'
  BY <1>1, <1>9 DEF SlotInv, Clearing, window
<1>17. RetiredInv'
  <2>1. \A x \in retired : x > Len(reaped) =>
          \/ slot[Index(x)].retired = TRUE
          \/ \E u \in Threads : pc'[u] \in {"mark", "reap"} /\ entry'[u].el = x
    BY <1>1, <1>8 DEF RetiredInv
  <2>2. pc'[t] \in {"mark", "reap"} /\ entry'[t].el = e
    BY <1>4, <1>8
  <2>3. QED
    BY <1>1, <1>9, <2>1, <2>2 DEF RetiredInv, window
<1>18. QED
  BY <1>10, <1>11, <1>12, <1>13, <1>14, <1>15, <1>16, <1>17 DEF Parts

LEMMA MarkRetiredStep ==
    ASSUME IInv, NEW t \in Threads, MarkRetired(t)
    PROVE  Parts'
<1> USE DEF IInv
<1> DEFINE e == entry[t].el
           i == idx[t]
<1>1. /\ pc[t] = "mark"
      /\ UNCHANGED <<size, right, nextBeforeDisabled, prevTail, r, cond, history>>
  BY DEF MarkRetired
<1>2. /\ pc \in [Threads -> Labels] /\ idx \in [Threads -> Indexes]
      /\ entry \in [Threads -> Entry] /\ slot \in [Indexes -> Entry]
      /\ Len(reaped) \in Nat /\ issued \in Nat /\ retired \subseteq DOMAIN grown
  BY TokenType DEF TypeOK
<1>3. /\ e \in retired /\ e > Len(reaped) /\ i = Index(e)
      /\ entry[t] = [el |-> e, retired |-> FALSE, tail |-> FALSE]
      /\ slot[i].retired = FALSE
  BY <1>1 DEF OwnerInv
<1>4. /\ e \in Nat /\ e =< issued /\ i \in Indexes
      /\ slot[i].el = e /\ slot[i].tail \in BOOLEAN
  BY <1>2, <1>3, OwnSlot
<1> HIDE DEF e, i
<1>5. CASE /\ slot[i] = entry[t]
           /\ slot' = [slot EXCEPT ![i].retired = TRUE]
           /\ Goto(t, "idle")
           /\ entry' = [entry EXCEPT ![t] = Free]
           /\ idx' = [idx EXCEPT ![t] = 0]
  <2>1. \A u \in Threads :
            \/ /\ u # t /\ pc'[u] = pc[u] /\ idx'[u] = idx[u]
               /\ entry'[u] = entry[u]
            \/ u = t /\ pc'[u] = "idle"
    BY <1>2, <1>5 DEF Goto
  <2>2. \A j \in Indexes :
            /\ slot'[j].el = slot[j].el /\ slot'[j].tail = slot[j].tail
            /\ slot'[j].retired = IF j = i THEN TRUE ELSE slot[j].retired
    BY <1>2, <1>4, <1>5 DEF Entry
  <2>3. /\ At({"clear"})' = At({"clear"})
        /\ At({"clear", "token", "tail"})' = At({"clear", "token", "tail"})
        /\ At(Reaping)' = At(Reaping)
    BY <1>1, <2>1 DEF At, Reaping
  <2>4. TokenInv'
    <3>1. /\ GrowTokens' = GrowTokens
          /\ BackTokens' = BackTokens
          /\ FreeTokens' = FreeTokens
      BY <1>1, <1>2, <1>5, Move
      DEF GrowTokens, BackTokens, FreeTokens
    <3>2. QED
      BY <1>1, <3>1 DEF TokenInv, history
  <2>5. OrderInv'
    BY <1>1 DEF OrderInv, history
  <2>6. RightInv' /\ GrowInv'
    BY <1>1, <2>1, GrowSideFrame DEF history
  <2>7. OwnerInv'
    <3>1. ASSUME NEW u \in Threads, pc[u] = "mark", u # t
          PROVE  idx[u] # i /\ idx[u] \in Indexes
      <4>1. /\ entry[u].el \in retired /\ entry[u].el > Len(reaped)
            /\ idx[u] = Index(entry[u].el) /\ entry[u].el # e
        BY <1>1, <3>1 DEF OwnerInv, e
      <4>2. entry[u].el \in Nat /\ entry[u].el =< issued
        BY <4>1 DEF TypeOK
      <4>3. QED
        BY <1>2, <1>3, <1>4, <4>1, <4>2, LiveDistinct
    <3>2. ASSUME NEW u \in Threads, pc'[u] = "mark"
          PROVE  /\ entry'[u].el \in retired'
                 /\ entry'[u].el > Len(reaped')
                 /\ idx'[u] = Index(entry'[u].el)
                 /\ entry'[u] = [el |-> entry'[u].el, retired |-> FALSE,
                                 tail |-> FALSE]
                 /\ slot'[idx'[u]].retired = FALSE
      <4>1. /\ u # t /\ pc[u] = "mark" /\ idx'[u] = idx[u]
            /\ entry'[u] = entry[u]
        BY <2>1, <3>2
      <4>2. slot'[idx'[u]].retired = slot[idx[u]].retired
        BY <2>2, <3>1, <4>1
      <4>3. QED
        BY <1>1, <4>1, <4>2 DEF OwnerInv, history
    <3>3. ASSUME NEW u \in Threads, NEW v \in Threads,
                 pc'[u] \in {"mark", "reap"}, pc'[v] \in {"mark", "reap"},
                 entry'[u].el = entry'[v].el
          PROVE  u = v
      BY <2>1, <3>3 DEF OwnerInv
    <3>4. QED
      BY <3>2, <3>3 DEF OwnerInv
  <2>8. ReaperInv'
    BY <1>1, <2>1 DEF ReaperInv, OneReaper, Reaping, history
  <2>9. TailInv'
    BY <1>1, <2>2, <2>3 DEF TailInv, Clearing, EdgeMoving, history
  <2>10. SlotInv'
    <3>1. \A x \in DOMAIN grown : Index(x) \in Indexes
      BY IndexType DEF TypeOK
    <3>2. \A j \in Indexes : slot'[j].retired = TRUE => slot'[j].el \in retired'
      BY <1>1, <1>3, <1>4, <2>2 DEF SlotInv, history
    <3>3. QED
      BY <1>1, <2>2, <2>3, <3>1, <3>2 DEF SlotInv, Clearing, history
  <2>11. RetiredInv'
    <3>1. ASSUME NEW x \in retired, x > Len(reaped)
          PROVE  \/ slot'[Index(x)].retired = TRUE
                 \/ \E u \in Threads : /\ pc'[u] \in {"mark", "reap"}
                                       /\ entry'[u].el = x
      <4>1. Index(x) \in Indexes
        BY <3>1, IndexType DEF TypeOK
      <4>2. CASE slot[Index(x)].retired = TRUE
        BY <2>2, <4>1, <4>2
      <4>3. CASE x = e
        BY <1>3, <1>4, <2>2, <4>3
      <4>4. ASSUME NEW u \in Threads, pc[u] \in {"mark", "reap"},
                   entry[u].el = x, x # e
            PROVE  pc'[u] \in {"mark", "reap"} /\ entry'[u].el = x
        BY <2>1, <4>4 DEF e
      <4>5. QED
        BY <3>1, <4>2, <4>3, <4>4 DEF RetiredInv
    <3>2. ASSUME slot'[Index(Len(reaped) + 1)].retired = TRUE
          PROVE  At(Reaping)' # {}
      <4>1. Index(Len(reaped) + 1) \in Indexes
        BY <1>2, IndexType
      <4>2. CASE Index(Len(reaped) + 1) = i
        <5>1. slot[i].tail = FALSE
          BY <1>3, <1>5
        <5>2. EdgeMoving
          BY <1>4, <4>2, <5>1 DEF TailInv
        <5>3. QED
          BY <2>3, <5>2 DEF EdgeMoving, At, Reaping
      <4>3. CASE Index(Len(reaped) + 1) # i
        BY <2>2, <2>3, <3>2, <4>1, <4>3 DEF RetiredInv
      <4>4. QED
        BY <4>2, <4>3
    <3>3. QED
      BY <1>1, <3>1, <3>2 DEF RetiredInv, history
  <2>12. QED
    BY <2>4, <2>5, <2>6, <2>7, <2>8, <2>9, <2>10, <2>11 DEF Parts
<1>6. CASE /\ slot[i] # entry[t]
           /\ entry' = [entry EXCEPT ![t] = slot[i]]
           /\ Goto(t, "reap")
           /\ UNCHANGED <<slot, idx>>
  <2>1. \A u \in Threads :
            \/ u # t /\ pc'[u] = pc[u] /\ entry'[u] = entry[u]
            \/ u = t /\ pc'[u] = "reap" /\ entry'[u] = slot[i]
    BY <1>2, <1>6 DEF Goto
  <2>2. slot[i].tail = TRUE
    <3>1. slot[i].tail = FALSE =>
              slot[i] = [el |-> e, retired |-> FALSE, tail |-> FALSE]
      BY <1>2, <1>3, <1>4 DEF Entry
    <3>2. QED
      BY <1>3, <1>4, <1>6, <3>1
  <2>3. e = Len(reaped) + 1 /\ ~EdgeMoving
    BY <1>2, <1>3, <2>2, AtEdge
  <2>4. At(Reaping) = {}
    <3>1. \A u \in Threads : pc[u] # "reap"
      BY <1>1, <2>3 DEF ReaperInv, OwnerInv, e
    <3>2. QED
      BY <2>3, <3>1 DEF EdgeMoving, At, Reaping
  <2>5. /\ At({"clear"})' = At({"clear"})
        /\ At({"clear", "token", "tail"})' = At({"clear", "token", "tail"})
        /\ t \in At(Reaping)'
    BY <1>1, <2>1 DEF At, Reaping
  <2>6. TokenInv'
    <3>1. /\ GrowTokens' = GrowTokens
          /\ BackTokens' = BackTokens
          /\ FreeTokens' = FreeTokens
      BY <1>1, <1>2, <1>6, Move
      DEF GrowTokens, BackTokens, FreeTokens
    <3>2. QED
      BY <1>1, <3>1 DEF TokenInv, history
  <2>7. OrderInv'
    BY <1>1 DEF OrderInv, history
  <2>8. RightInv' /\ GrowInv'
    BY <1>1, <2>1, GrowSideFrame DEF history
  <2>9. OwnerInv'
    <3>1. ASSUME NEW u \in Threads, pc'[u] = "mark"
          PROVE  u # t /\ pc[u] = "mark" /\ entry'[u] = entry[u]
      BY <2>1, <3>1
    <3>2. \A u \in Threads : entry'[u].el = entry[u].el
      BY <1>4, <2>1 DEF e
    <3>3. \A u \in Threads : pc'[u] \in {"mark", "reap"} =>
              pc[u] \in {"mark", "reap"}
      BY <1>1, <2>1
    <3>4. QED
      BY <1>1, <1>6, <3>1, <3>2, <3>3 DEF OwnerInv, history
  <2>10. ReaperInv'
    <3>1. \A u \in Threads : pc'[u] \in Reaping <=> u = t
      BY <2>1, <2>4 DEF At, Reaping
    <3>2. /\ pc'[t] = "reap" /\ entry'[t].el = Len(reaped') + 1
          /\ entry'[t].el \in retired' /\ idx'[t] = Index(Len(reaped') + 1)
      BY <1>1, <1>3, <1>4, <1>6, <2>1, <2>3 DEF history, i
    <3>3. QED
      BY <3>1, <3>2 DEF ReaperInv, OneReaper, Reaping
  <2>11. TailInv' /\ SlotInv'
    BY <1>1, <1>6, <2>5 DEF TailInv, SlotInv, Clearing, EdgeMoving, history
  <2>12. RetiredInv'
    <3>1. \A x \in retired, u \in Threads :
              pc[u] \in {"mark", "reap"} /\ entry[u].el = x =>
              pc'[u] \in {"mark", "reap"} /\ entry'[u].el = x
      BY <1>4, <2>1 DEF e
    <3>2. QED
      BY <1>1, <1>6, <2>5, <3>1 DEF RetiredInv, history
  <2>13. QED
    BY <2>6, <2>7, <2>8, <2>9, <2>10, <2>11, <2>12 DEF Parts
<1>7. QED
  BY <1>5, <1>6 DEF MarkRetired, i

LEMMA ReapStep ==
    ASSUME IInv, NEW t \in Threads, Reap(t)
    PROVE  Parts' /\ reaped' = Append(reaped, Len(reaped) + 1)
<1> USE DEF IInv
<1> DEFINE n == Len(reaped)
<1>1. /\ pc[t] = "reap" /\ Goto(t, "clear")
      /\ reaped' = Append(reaped, entry[t].el)
      /\ UNCHANGED <<window, r, cond, idx, entry, issued, grown, retired>>
  BY DEF Reap
<1>2. /\ pc \in [Threads -> Labels] /\ n \in Nat /\ issued \in Nat
      /\ reaped \in Seq(Nat) /\ retired \subseteq Nat
  BY TokenType DEF TypeOK
<1>3. entry[t].el = n + 1 /\ n + 1 \in retired /\ idx[t] = Index(n + 1)
  BY <1>1 DEF ReaperInv
<1>4. /\ reaped' = Append(reaped, n + 1) /\ Len(reaped') = n + 1
      /\ \A k \in 1 .. n : reaped'[k] = reaped[k]
      /\ reaped'[n + 1] = n + 1
  BY <1>1, <1>2, <1>3
<1>5. \A u \in Threads : \/ u # t /\ pc'[u] = pc[u]
                         \/ u = t /\ pc'[u] = "clear"
  BY <1>1, <1>2 DEF Goto
<1>6. \A u \in Threads : u # t => pc[u] \notin Reaping
  BY <1>1 DEF ReaperInv, OneReaper, Reaping
<1>7. ~EdgeMoving /\ ~Clearing /\ EdgeMoving' /\ Clearing' /\ At(Reaping)' # {}
  BY <1>1, <1>5, <1>6 DEF EdgeMoving, Clearing, At, Reaping
<1> HIDE DEF n
<1>8. TokenInv'
  <2>1. /\ GrowTokens' = GrowTokens
        /\ BackTokens' = BackTokens
        /\ FreeTokens' = FreeTokens + 1
    BY <1>1, <1>2, Move
    DEF GrowTokens, BackTokens, FreeTokens
  <2>2. /\ GrowTokens \in Nat /\ BackTokens \in Nat
        /\ FreeTokens \in Nat
    BY CountType
    DEF GrowTokens, BackTokens, FreeTokens
  <2>3. /\ size' = size /\ issued' = issued /\ Len(reaped') = Len(reaped) + 1
        /\ Len(reaped) \in Nat /\ size \in Int
    BY <1>1, <1>2, <1>4, TokenType DEF window, n
  <2>4. QED
    BY <1>2, <2>1, <2>2, <2>3, CapacityAssumption DEF TokenInv
<1>9. OrderInv'
  BY <1>1, <1>2, <1>3, <1>4 DEF OrderInv, n
<1>10. RightInv' /\ GrowInv'
  BY <1>1, <1>5, GrowSideFrame DEF window
<1>11. OwnerInv'
  <2>1. ASSUME NEW u \in Threads, pc'[u] = "mark"
        PROVE  pc[u] = "mark" /\ entry[u].el \in Nat /\ entry[u].el > n + 1
    <3>1. pc[u] = "mark" /\ u # t
      BY <1>5, <2>1
    <3>2. entry[u].el > n /\ entry[u].el # n + 1 /\ entry[u].el \in retired
      BY <1>1, <1>3, <3>1 DEF OwnerInv, n
    <3>3. entry[u].el \in Nat
      BY <1>2, <3>2
    <3>4. QED
      BY <1>2, <3>1, <3>2, <3>3
  <2>2. \A u \in Threads : pc'[u] \in {"mark", "reap"} =>
            pc[u] \in {"mark", "reap"}
    BY <1>5
  <2>3. QED
    BY <1>1, <1>4, <2>1, <2>2 DEF OwnerInv, window
<1>12. ReaperInv'
  <2>1. \A u \in Threads : pc'[u] \in Reaping <=> u = t
    BY <1>5, <1>6 DEF Reaping
  <2>2. /\ pc'[t] = "clear" /\ Len(reaped') >= 1
        /\ idx'[t] = Index(Len(reaped'))
    BY <1>1, <1>2, <1>3, <1>4, <1>5
  <2>3. QED
    BY <2>1, <2>2 DEF ReaperInv, OneReaper, Reaping
<1>13. TailInv'
  BY <1>1, <1>4, <1>7 DEF TailInv, window, n
<1>14. SlotInv'
  <2>1. \A j \in Indexes : slot[j].el # 0 =>
            slot[j].el \in Nat /\ slot[j].el > n
    BY <1>7 DEF SlotInv, TypeOK, n
  <2>2. \A x \in DOMAIN grown : x \in Nat
    BY DEF TypeOK
  <2>3. \A j \in Indexes : slot'[j].el # 0 =>
          /\ slot'[j].el \in DOMAIN grown'
          /\ Index(slot'[j].el) = j
          /\ \/ slot'[j].el > Len(reaped')
             \/ slot'[j].el = Len(reaped') /\ Clearing'
    BY <1>1, <1>2, <1>4, <1>7, <2>1 DEF SlotInv, window
  <2>4. QED
    BY <1>1, <1>2, <1>4, <2>2, <2>3 DEF SlotInv, window, n
<1>15. RetiredInv'
  <2>1. ASSUME NEW x \in retired, x > n + 1
        PROVE  \/ slot[Index(x)].retired = TRUE
               \/ \E u \in Threads : /\ pc'[u] \in {"mark", "reap"}
                                     /\ entry[u].el = x
    <3>1. x \in Nat /\ x > n
      BY <1>2, <2>1
    <3>2. \A u \in Threads : entry[u].el = x => u # t
      BY <1>2, <1>3, <2>1
    <3>3. QED
      BY <1>5, <3>1, <3>2 DEF RetiredInv, n
  <2>2. QED
    BY <1>1, <1>4, <1>7, <2>1 DEF RetiredInv, window
<1>16. QED
  BY <1>4, <1>8, <1>9, <1>10, <1>11, <1>12, <1>13, <1>14, <1>15 DEF Parts, n

LEMMA ClearSlotStep ==
    ASSUME IInv, NEW t \in Threads, ClearSlot(t)
    PROVE  Parts'
<1> USE DEF IInv
<1> DEFINE n == Len(reaped)
           i == Index(n)
<1>1. /\ pc[t] = "clear" /\ Goto(t, "token")
      /\ slot' = [slot EXCEPT ![idx[t]] = Free]
      /\ UNCHANGED <<size, right, nextBeforeDisabled, prevTail, r, cond, idx,
                     entry, history>>
  BY DEF ClearSlot
<1>2. /\ pc \in [Threads -> Labels] /\ slot \in [Indexes -> Entry]
      /\ n \in Nat /\ issued \in Nat /\ n + 1 \in Nat
      /\ \A x \in DOMAIN grown : x \in Nat /\ x =< issued
      /\ retired \subseteq DOMAIN grown
  BY TokenType DEF TypeOK
<1>3. n >= 1 /\ idx[t] = i
  BY <1>1 DEF ReaperInv
<1>4. n =< issued /\ i \in Indexes
  BY <1>2, <1>3, IndexType DEF OrderInv
<1>5. \A u \in Threads : \/ u # t /\ pc'[u] = pc[u]
                         \/ u = t /\ pc'[u] = "token"
  BY <1>1, <1>2 DEF Goto
<1>6. \A u \in Threads : u # t => pc[u] \notin Reaping
  BY <1>1 DEF ReaperInv, OneReaper, Reaping
<1>7. EdgeMoving /\ Clearing /\ EdgeMoving' /\ ~Clearing' /\ At(Reaping)' # {}
  BY <1>1, <1>5, <1>6 DEF EdgeMoving, Clearing, At, Reaping
<1>8. \A j \in Indexes : slot'[j] = IF j = i THEN Free ELSE slot[j]
  BY <1>1, <1>2, <1>3
<1>9. ASSUME NEW x \in DOMAIN grown, x > n
      PROVE  Index(x) # i /\ Index(x) \in Indexes
  <2>1. x # n /\ x \in Nat
    BY <1>2, <1>9
  <2>2. QED
    BY <1>2, <1>4, <1>7, <1>9, <2>1, IndexType, LiveDistinct
<1> HIDE DEF n, i
<1>10. TokenInv'
  <2>1. /\ GrowTokens' = GrowTokens
        /\ BackTokens' = BackTokens
        /\ FreeTokens' = FreeTokens
    BY <1>1, <1>2, Move
    DEF GrowTokens, BackTokens, FreeTokens
  <2>2. QED
    BY <1>1, <2>1 DEF TokenInv, history
<1>11. OrderInv'
  BY <1>1 DEF OrderInv, history
<1>12. RightInv' /\ GrowInv'
  BY <1>1, <1>5, GrowSideFrame DEF history
<1>13. OwnerInv'
  <2>1. ASSUME NEW u \in Threads, pc'[u] = "mark"
        PROVE  pc[u] = "mark" /\ slot'[idx[u]] = slot[idx[u]]
    <3>1. pc[u] = "mark"
      BY <1>5, <2>1
    <3>2. /\ idx[u] = Index(entry[u].el) /\ entry[u].el \in DOMAIN grown
          /\ entry[u].el > n
      BY <1>2, <3>1 DEF OwnerInv, n
    <3>3. QED
      BY <1>8, <1>9, <3>1, <3>2
  <2>2. \A u \in Threads : pc'[u] \in {"mark", "reap"} =>
            pc[u] \in {"mark", "reap"}
    BY <1>5
  <2>3. QED
    BY <1>1, <2>1, <2>2 DEF OwnerInv, history
<1>14. ReaperInv'
  <2>1. \A u \in Threads : pc'[u] \in Reaping <=> u = t
    BY <1>5, <1>6 DEF Reaping
  <2>2. /\ pc'[t] = "token" /\ Len(reaped') >= 1
        /\ idx'[t] = Index(Len(reaped'))
    BY <1>1, <1>3, <1>5 DEF history, n, i
  <2>3. QED
    BY <2>1, <2>2 DEF ReaperInv, OneReaper, Reaping
<1>15. TailInv'
  <2>1. \A j \in Indexes : slot'[j].tail # TRUE
    <3> TAKE j \in Indexes
    <3>1. CASE j = i
      <4>1. slot'[j].tail = FALSE
        BY <1>8, <3>1 DEF Free
      <4>2. QED
        BY <4>1
    <3>2. CASE j # i
      BY <1>7, <1>8, <3>2 DEF TailInv, n, i
    <3>3. QED
      BY <3>1, <3>2
  <2>2. QED
    BY <1>7, <2>1 DEF TailInv
<1>16. SlotInv'
  <2>1. ASSUME NEW j \in Indexes, slot'[j].el # 0
        PROVE  /\ slot'[j].el \in DOMAIN grown
               /\ Index(slot'[j].el) = j
               /\ slot'[j].el > n
    <3>1. j # i /\ slot'[j] = slot[j]
      BY <1>8, <2>1 DEF Free
    <3>2. QED
      BY <2>1, <3>1 DEF SlotInv, n, i
  <2>2. ASSUME NEW j \in Indexes, slot'[j].retired = TRUE
        PROVE  slot'[j].el \in retired
    <3>1. j # i /\ slot'[j] = slot[j]
      BY <1>8, <2>2 DEF Free
    <3>2. QED
      BY <2>2, <3>1 DEF SlotInv
  <2>3. ASSUME NEW x \in DOMAIN grown, x > n
        PROVE  slot'[Index(x)].el = x
    BY <1>8, <1>9, <2>3 DEF SlotInv, n
  <2>4. QED
    BY <1>1, <2>1, <2>2, <2>3 DEF SlotInv, history, n
<1>17. RetiredInv'
  <2>1. ASSUME NEW x \in retired, x > n
        PROVE  \/ slot'[Index(x)].retired = TRUE
               \/ \E u \in Threads : /\ pc'[u] \in {"mark", "reap"}
                                     /\ entry[u].el = x
    <3>1. slot'[Index(x)] = slot[Index(x)]
      BY <1>2, <1>8, <1>9, <2>1
    <3>2. \A u \in Threads : pc[u] \in {"mark", "reap"} => pc'[u] = pc[u]
      BY <1>1, <1>5
    <3>3. QED
      BY <2>1, <3>1, <3>2 DEF RetiredInv, n
  <2>2. QED
    BY <1>1, <1>7, <2>1 DEF RetiredInv, history, n
<1>18. QED
  BY <1>10, <1>11, <1>12, <1>13, <1>14, <1>15, <1>16, <1>17 DEF Parts

LEMMA FreeTokenStep ==
    ASSUME IInv, NEW t \in Threads, FreeToken(t)
    PROVE  Parts'
<1> USE DEF IInv
<1>1. /\ pc[t] = "token" /\ Goto(t, "tail") /\ size' = size - 1
      /\ UNCHANGED <<right, nextBeforeDisabled, prevTail, slot, r, cond, idx,
                     entry, history>>
  BY DEF FreeToken
<1>2. pc \in [Threads -> Labels]
  BY DEF TypeOK
<1>3. \A u \in Threads : \/ u # t /\ pc'[u] = pc[u]
                         \/ u = t /\ pc'[u] = "tail"
  BY <1>1, <1>2 DEF Goto
<1>4. \A u \in Threads : u # t => pc[u] \notin Reaping
  BY <1>1 DEF ReaperInv, OneReaper, Reaping
<1>5. EdgeMoving /\ ~Clearing /\ EdgeMoving' /\ ~Clearing' /\ At(Reaping)' # {}
  BY <1>1, <1>3, <1>4 DEF EdgeMoving, Clearing, At, Reaping
<1>6. TokenInv'
  <2>1. /\ GrowTokens' = GrowTokens
        /\ BackTokens' = BackTokens
        /\ FreeTokens' = FreeTokens - 1
    BY <1>1, <1>2, Move
    DEF GrowTokens, BackTokens, FreeTokens
  <2>2. /\ GrowTokens' = GrowTokens + 0 /\ BackTokens' = BackTokens + 0
        /\ FreeTokens' = FreeTokens + (-1) /\ issued' = issued + 0
        /\ size' = size + (0 + 0 + (-1) + 0)
    BY <1>1, <2>1, TokenType DEF history
  <2>3. QED
    BY <1>1, <2>2, TokenMove DEF history
<1>7. OrderInv'
  BY <1>1 DEF OrderInv, history
<1>8. RightInv' /\ GrowInv'
  BY <1>1, <1>3, GrowSideFrame DEF history
<1>9. OwnerInv'
  <2>1. \A u \in Threads : pc'[u] \in {"mark", "reap"} => pc'[u] = pc[u]
    BY <1>3
  <2>2. QED
    BY <1>1, <2>1 DEF OwnerInv, history
<1>10. ReaperInv'
  <2>1. \A u \in Threads : pc'[u] \in Reaping <=> u = t
    BY <1>3, <1>4 DEF Reaping
  <2>2. /\ pc'[t] = "tail" /\ Len(reaped') >= 1
        /\ idx'[t] = Index(Len(reaped'))
    BY <1>1, <1>3 DEF history, ReaperInv
  <2>3. QED
    BY <2>1, <2>2 DEF ReaperInv, OneReaper, Reaping
<1>11. TailInv' /\ SlotInv'
  BY <1>1, <1>5 DEF TailInv, SlotInv, history
<1>12. RetiredInv'
  <2>1. \A u \in Threads : pc[u] \in {"mark", "reap"} => pc'[u] = pc[u]
    BY <1>1, <1>3
  <2>2. QED
    BY <1>1, <1>5, <2>1 DEF RetiredInv, history
<1>13. QED
  BY <1>6, <1>7, <1>8, <1>9, <1>10, <1>11, <1>12 DEF Parts

LEMMA SetTailStep ==
    ASSUME IInv, NEW t \in Threads, SetTail(t)
    PROVE  Parts'
<1> USE DEF IInv
<1> DEFINE n == Len(reaped)
           i == Index(n + 1)
<1>1. n \in Nat /\ n + 1 \in Nat /\ issued \in Nat /\ i \in Indexes
  BY TokenType, IndexType
<1>2. pc[t] = "tail" /\ NextIndex(idx[t]) = i
  BY <1>1, NextIndexIsNext DEF SetTail, ReaperInv
<1>3. /\ slot' = [slot EXCEPT ![i].tail = TRUE]
      /\ UNCHANGED <<size, right, nextBeforeDisabled, prevTail, r, cond, history>>
  BY <1>2 DEF SetTail
<1>4. /\ pc \in [Threads -> Labels] /\ idx \in [Threads -> Indexes]
      /\ entry \in [Threads -> Entry] /\ slot \in [Indexes -> Entry]
      /\ \A x \in DOMAIN grown : x \in Nat /\ x =< issued
      /\ retired \subseteq DOMAIN grown
  BY DEF TypeOK
<1>5. \A u \in Threads : u # t => pc[u] \notin Reaping
  BY <1>2 DEF ReaperInv, OneReaper, Reaping
<1>6. EdgeMoving /\ ~Clearing
  BY <1>2, <1>5 DEF EdgeMoving, Clearing, At, Reaping
<1>7. \A j \in Indexes :
          /\ slot'[j].el = slot[j].el /\ slot'[j].retired = slot[j].retired
          /\ slot'[j].tail = IF j = i THEN TRUE ELSE slot[j].tail
  BY <1>1, <1>3, <1>4 DEF Entry
<1>8. \A x \in DOMAIN grown : Index(x) \in Indexes
  BY <1>4, IndexType
\* What follows from the new place of the thread, wherever that is.
<1>9. ASSUME NEW l \in {"reap", "idle"}, Goto(t, l)
      PROVE  /\ TokenInv' /\ OrderInv' /\ RightInv' /\ GrowInv' /\ TailInv'
             /\ SlotInv'
  <2>1. \A u \in Threads : \/ u # t /\ pc'[u] = pc[u]
                           \/ u = t /\ pc'[u] = l
    BY <1>4, <1>9 DEF Goto
  <2>2. ~EdgeMoving' /\ ~Clearing'
    BY <1>5, <1>9, <2>1 DEF EdgeMoving, Clearing, At, Reaping
  <2>3. TokenInv'
    <3>1. /\ GrowTokens' = GrowTokens
          /\ BackTokens' = BackTokens
          /\ FreeTokens' = FreeTokens
      BY <1>2, <1>4, <1>9, Move
      DEF GrowTokens, BackTokens, FreeTokens
    <3>2. QED
      BY <1>3, <3>1 DEF TokenInv, history
  <2>4. OrderInv'
    BY <1>3 DEF OrderInv, history
  <2>5. RightInv' /\ GrowInv'
    BY <1>2, <1>3, <1>9, <2>1, GrowSideFrame DEF history
  <2>6. TailInv'
    <3>1. \A j \in Indexes : slot[j].tail # TRUE
      BY <1>6 DEF TailInv
    <3>2. \A j \in Indexes : slot'[j].tail = TRUE <=> j = i
      BY <1>7, <3>1
    <3>3. QED
      BY <1>3, <2>2, <3>2 DEF TailInv, history
  <2>7. SlotInv'
    BY <1>3, <1>6, <1>7, <1>8 DEF SlotInv, history
  <2>8. QED
    BY <2>3, <2>4, <2>5, <2>6, <2>7
<1>10. CASE /\ slot[i].retired
            /\ idx' = [idx EXCEPT ![t] = i]
            /\ entry' = [entry EXCEPT ![t] = [slot[i] EXCEPT !.tail = TRUE]]
            /\ Goto(t, "reap")
  <2>1. slot[i].retired = TRUE
    BY <1>1, <1>4, <1>10 DEF Entry
  <2>2. slot[i].el = n + 1
    <3>1. /\ slot[i].el \in retired /\ slot[i].el \in Nat
          /\ slot[i].el =< issued /\ slot[i].el >= 1
      BY <1>1, <1>4, <2>1 DEF SlotInv, TypeOK
    <3>2. Index(slot[i].el) = i /\ slot[i].el > n
      BY <1>1, <1>6, <3>1 DEF SlotInv
    <3>3. QED
      BY <1>1, <3>1, <3>2, LiveDistinct
  <2>3. n + 1 \in retired
    BY <1>1, <2>1, <2>2 DEF SlotInv
  <2>4. \A u \in Threads :
            \/ /\ u # t /\ pc'[u] = pc[u] /\ idx'[u] = idx[u]
               /\ entry'[u] = entry[u]
            \/ /\ u = t /\ pc'[u] = "reap" /\ idx'[u] = i
               /\ entry'[u].el = n + 1
    <3>1. [slot[i] EXCEPT !.tail = TRUE].el = n + 1
      BY <1>1, <1>4, <2>2 DEF Entry
    <3>2. QED
      BY <1>4, <1>10, <3>1 DEF Goto
  <2>5. \A u \in Threads : pc[u] = "mark" => entry[u].el # n + 1
    <3>1. \A u \in Threads : pc[u] = "mark" => idx[u] # i
      BY <1>1, <2>1 DEF OwnerInv
    <3>2. QED
      BY <3>1 DEF OwnerInv
  <2>6. OwnerInv'
    <3>1. ASSUME NEW u \in Threads, pc'[u] = "mark"
          PROVE  /\ u # t /\ pc[u] = "mark" /\ entry'[u] = entry[u]
                 /\ idx'[u] = idx[u] /\ idx[u] \in Indexes
      BY <1>4, <2>4, <3>1
    <3>2. ASSUME NEW u \in Threads, NEW v \in Threads,
                 pc'[u] \in {"mark", "reap"}, pc'[v] \in {"mark", "reap"},
                 entry'[u].el = entry'[v].el
          PROVE  u = v
      <4>1. ASSUME NEW w \in Threads, w # t, pc'[w] \in {"mark", "reap"}
            PROVE  pc[w] = "mark" /\ entry'[w].el = entry[w].el
        BY <1>5, <2>4, <4>1 DEF Reaping
      <4>2. CASE u # t /\ v # t
        BY <3>2, <4>1, <4>2 DEF OwnerInv
      <4>3. entry'[t].el = n + 1
        BY <2>4
      <4>4. QED
        BY <2>5, <3>2, <4>1, <4>2, <4>3
    <3>3. QED
      BY <1>3, <1>7, <3>1, <3>2 DEF OwnerInv, history
  <2>7. ReaperInv'
    <3>1. \A u \in Threads : pc'[u] \in Reaping <=> u = t
      BY <1>5, <2>4 DEF Reaping
    <3>2. /\ pc'[t] = "reap" /\ entry'[t].el = Len(reaped') + 1
          /\ entry'[t].el \in retired' /\ idx'[t] = Index(Len(reaped') + 1)
      BY <1>3, <2>3, <2>4 DEF history
    <3>3. QED
      BY <3>1, <3>2 DEF ReaperInv, OneReaper, Reaping
  <2>8. RetiredInv'
    <3>1. \A x \in retired, u \in Threads :
              pc[u] \in {"mark", "reap"} /\ entry[u].el = x =>
              pc'[u] \in {"mark", "reap"} /\ entry'[u].el = x
      BY <1>2, <2>4
    <3>2. At(Reaping)' # {}
      BY <2>4 DEF At, Reaping
    <3>3. QED
      BY <1>3, <1>4, <1>7, <1>8, <3>1, <3>2 DEF RetiredInv, history
  <2>9. QED
    BY <1>9, <1>10, <2>6, <2>7, <2>8 DEF Parts
<1>11. CASE /\ ~slot[i].retired
            /\ idx' = [idx EXCEPT ![t] = 0]
            /\ entry' = [entry EXCEPT ![t] = Free]
            /\ Goto(t, "idle")
  <2>1. slot[i].retired # TRUE
    BY <1>11
  <2>2. \A u \in Threads :
            \/ /\ u # t /\ pc'[u] = pc[u] /\ idx'[u] = idx[u]
               /\ entry'[u] = entry[u]
            \/ u = t /\ pc'[u] = "idle"
    BY <1>4, <1>11 DEF Goto
  <2>3. \A u \in Threads : pc'[u] \notin Reaping
    BY <1>5, <2>2 DEF Reaping
  <2>4. OwnerInv'
    <3>1. ASSUME NEW u \in Threads, pc'[u] \in {"mark", "reap"}
          PROVE  /\ pc[u] = pc'[u] /\ entry'[u] = entry[u]
                 /\ idx'[u] = idx[u] /\ idx[u] \in Indexes
      BY <1>4, <2>2, <3>1
    <3>2. QED
      BY <1>3, <1>7, <3>1 DEF OwnerInv, history
  <2>5. ReaperInv'
    BY <2>3 DEF ReaperInv, OneReaper, Reaping
  <2>6. RetiredInv'
    <3>1. \A x \in retired, u \in Threads :
              pc[u] \in {"mark", "reap"} /\ entry[u].el = x =>
              pc'[u] \in {"mark", "reap"} /\ entry'[u].el = x
      BY <1>2, <2>2
    <3>2. slot'[Index(Len(reaped') + 1)].retired # TRUE
      BY <1>1, <1>3, <1>7, <2>1 DEF history
    <3>3. \A x \in retired : slot'[Index(x)].retired = slot[Index(x)].retired
      BY <1>4, <1>7, <1>8
    <3>4. \A x \in retired : x > Len(reaped) =>
            \/ slot'[Index(x)].retired = TRUE
            \/ \E u \in Threads : /\ pc'[u] \in {"mark", "reap"}
                                  /\ entry'[u].el = x
      BY <3>1, <3>3 DEF RetiredInv
    <3>5. QED
      BY <1>3, <3>2, <3>4 DEF RetiredInv, history
  <2>7. QED
    BY <1>9, <1>11, <2>4, <2>5, <2>6 DEF Parts
<1>12. QED
  BY <1>2, <1>10, <1>11 DEF SetTail

-----------------------------------------------------------------------------
(* The theorems.                                                           *)

LEMMA InitInv == ASSUME Init PROVE IInv
<1> USE DEF Init
<1>1. TypeOK
  <2>1. slot \in [Indexes -> Entry]
    <3>1. ASSUME NEW b \in BOOLEAN
          PROVE  [Free EXCEPT !.tail = b] \in Entry
      <4>1. CASE b = TRUE
        BY <4>1, EntryType
      <4>2. CASE b = FALSE
        BY <4>2, EntryType
      <4>3. QED
        BY <4>1, <4>2
    <3>2. \A i \in Indexes : (i = Index(1)) \in BOOLEAN
      OBVIOUS
    <3>3. QED
      BY <3>1, <3>2
  <2>2. QED
    BY <2>1, EntryType, CapacityAssumption, EsnMaxAssumption
    DEF TypeOK, Labels, Conds
<1>2. /\ Len(reaped) = 0 /\ Index(Len(reaped)) \in Indexes
      /\ Index(Len(reaped) + 1) \in Indexes
      /\ Index(Len(reaped) + 1) = Index(1)
  BY IndexType
<1>3. TokenInv
  <2>1. /\ At({"grow", "try"}) = {} /\ At({"giveback"}) = {}
        /\ At({"clear", "token"}) = {}
    BY DEF At
  <2>2. /\ GrowTokens = 0 /\ BackTokens = 0
        /\ FreeTokens = 0
    BY <2>1, FS_EmptySet DEF Count, GrowTokens, BackTokens, FreeTokens
  <2>3. size = 0 /\ issued = 0 /\ Len(reaped) = 0
    OBVIOUS
  <2> HIDE DEF Init
  <2>4. /\ size = GrowTokens + BackTokens + FreeTokens + issued - Len(reaped)
        /\ GrowTokens + FreeTokens + issued - Len(reaped) = 0
    BY <2>2, <2>3
  <2>5. QED
    BY <2>4, CapacityAssumption DEF TokenInv
<1>4. \A u \in Threads : pc[u] = "idle"
  OBVIOUS
<1>5. OrderInv /\ RightInv /\ GrowInv /\ OwnerInv /\ ReaperInv
  BY <1>2, <1>4 DEF OrderInv, RightInv, GrowInv, OwnerInv, ReaperInv, NextIsFinal,
     CondAppendFollowsTail, OneReaper, Reaping
<1>6. \A i \in Indexes : /\ slot[i].el = 0 /\ slot[i].retired = FALSE
                         /\ slot[i].tail = (i = Index(1))
  BY DEF Free
<1>7. TailInv
  <2>1. ~EdgeMoving /\ ~Clearing
    BY <1>4 DEF EdgeMoving, Clearing, At
  <2>2. QED
    BY <1>2, <1>6, <2>1 DEF TailInv
<1>8. SlotInv
  BY <1>2, <1>6 DEF SlotInv
<1>9. RetiredInv
  BY <1>2, <1>6 DEF RetiredInv
<1>10. QED
  BY <1>1, <1>3, <1>5, <1>7, <1>8, <1>9 DEF IInv

LEMMA StepInv == ASSUME IInv, [Next]_vars PROVE IInv'
<1>1. TypeOK'
  BY TypeStep DEF IInv
<1>2. CASE UNCHANGED vars
  <2>1. UNCHANGED <<window, threads, history>>
    BY <1>2 DEF vars
  <2>2. TokenInv'
    BY <2>1, CountUnchanged DEF GrowTokens, BackTokens, FreeTokens, IInv,
                                     TokenInv, threads, history, window
  <2>3. OrderInv' /\ OwnerInv' /\ ReaperInv' /\ TailInv' /\ SlotInv' /\ RetiredInv'
    BY <2>1, RetireSideFrame DEF IInv, threads, history, window
  <2>4. RightInv' /\ GrowInv'
    BY <2>1, GrowSideFrame DEF IInv, threads, history, window
  <2>5. QED
    BY <1>1, <2>2, <2>3, <2>4 DEF IInv
<1>3. CASE Next
  <2>1. Parts'
    BY <1>3, GrowBeginStep, GiveBackStep, GrowLoadStep, GrowTryStep, InsertStep,
       DisableStep, DisableStoreStep, SetPrevTailStep, RetireStep,
       MarkRetiredStep, ReapStep, ClearSlotStep, FreeTokenStep, SetTailStep
    DEF Next, Continue
  <2>2. QED
    BY <1>1, <2>1 DEF Parts, IInv
<1>4. QED
  BY <1>2, <1>3

LEMMA Invariance == Spec => []IInv
<1>1. Init => IInv
  BY InitInv
<1>2. IInv /\ [Next]_vars => IInv'
  BY StepInv
<1>3. QED
  BY <1>1, <1>2, PTL DEF Spec

\* At most one thread is inside the reaping loop of retire(), for any number of
\* threads: ownership of the left edge passes with the TAIL flag, and the
\* compare-and-swap of RETIRED against the set_tail() in front of it decides.
THEOREM ReaperUnique == Spec => []OneReaper
<1>1. IInv => OneReaper
  BY DEF IInv, ReaperInv
<1>2. QED
  BY <1>1, Invariance, PTL

\* grow() finds the slot of the ESN it took empty, for any capacity: a token is
\* returned only after the slot has been cleared.
THEOREM SlotsAreFree == Spec => []SlotIsFree
<1>1. ASSUME IInv PROVE SlotIsFree
  <2>1. ASSUME NEW t \in Threads, pc[t] = "insert"
        PROVE  /\ slot[Index(r[t])].el = 0
               /\ slot[Index(r[t])].retired = FALSE
    BY <1>1, <2>1, FreeSlot
  <2>2. QED
    BY <2>1 DEF SlotIsFree
<1>2. QED
  BY <1>1, Invariance, PTL

\* A conditional append gets the ESN that directly follows the tail it named.
THEOREM CondAppendsFollow == Spec => []CondAppendFollowsTail
<1>1. IInv => CondAppendFollowsTail
  BY DEF IInv, GrowInv
<1>2. QED
  BY <1>1, Invariance, PTL

\* After disable() the recorded next LSN is the one after the last issued.
THEOREM DisableIsFinal == Spec => []NextIsFinal
<1>1. IInv => NextIsFinal
  BY DEF IInv, RightInv
<1>2. QED
  BY <1>1, Invariance, PTL

\* When no thread is inside an operation, no retired element waits at the left
\* edge, TAIL is where the next retire() looks for it and no token is lost.
THEOREM NothingLeftUndone == Spec => []QuietWindow
<1>1. ASSUME IInv PROVE QuietWindow
  <2> SUFFICES ASSUME Quiet
               PROVE  /\ Len(reaped) + 1 \notin retired
                      /\ {i \in Indexes : slot[i].tail} = {Index(Len(reaped) + 1)}
                      /\ size = issued - Len(reaped)
    BY DEF QuietWindow
  <2>1. /\ At({"grow", "try"}) = {} /\ At({"giveback"}) = {}
        /\ At({"clear", "token"}) = {} /\ At(Reaping) = {}
        /\ ~EdgeMoving /\ ~Clearing
    BY DEF Quiet, At, Reaping, EdgeMoving, Clearing
  <2>2. /\ Len(reaped) \in Nat /\ issued \in Nat
        /\ Index(Len(reaped) + 1) \in Indexes
    BY <1>1, TokenType, IndexType DEF IInv
  <2>3. size = issued - Len(reaped)
    <3>1. /\ GrowTokens = 0 /\ BackTokens = 0
          /\ FreeTokens = 0
      BY <2>1, FS_EmptySet DEF Count, GrowTokens, BackTokens, FreeTokens
    <3>2. QED
      BY <1>1, <2>2, <3>1 DEF IInv, TokenInv
  <2>4. Len(reaped) + 1 \notin retired
    BY <1>1, <2>1, <2>2 DEF IInv, RetiredInv, Quiet
  <2>5. {i \in Indexes : slot[i].tail} = {Index(Len(reaped) + 1)}
    <3>1. \A i \in Indexes : slot[i].tail \in BOOLEAN
      BY <1>1 DEF IInv, TypeOK, Entry
    <3>2. \A i \in Indexes : slot[i].tail = TRUE <=> i = Index(Len(reaped) + 1)
      BY <1>1, <2>1 DEF IInv, TailInv
    <3>3. QED
      BY <2>2, <3>1, <3>2
  <2>6. QED
    BY <2>3, <2>4, <2>5
<1>2. QED
  BY <1>1, Invariance, PTL

LEMMA StepRefines == ASSUME IInv, [Next]_vars PROVE [Ordered!Next]_Ordered!vars
<1> DEFINE Stutter == UNCHANGED <<issued, retired, reaped, right>>
<1>a. Stutter => [Ordered!Next]_Ordered!vars
  BY DEF Ordered!vars
<1>1. CASE UNCHANGED vars
  BY <1>1, <1>a DEF vars, window, history
<1>2. ASSUME NEW t \in Threads, NEW c \in PrevTails, GrowBegin(t, c)
      PROVE  Stutter
  BY <1>2 DEF GrowBegin, history
<1>3. ASSUME NEW t \in Threads,
             \/ GiveBack(t) \/ GrowLoad(t) \/ Insert(t) \/ DisableStore(t)
             \/ MarkRetired(t) \/ ClearSlot(t) \/ FreeToken(t) \/ SetTail(t)
      PROVE  Stutter
  BY <1>3 DEF GiveBack, GrowLoad, Insert, DisableStore, MarkRetired, ClearSlot,
              FreeToken, SetTail, window, history
<1>4. CASE SetPrevTail
  BY <1>4, <1>a DEF SetPrevTail, history
<1>5. ASSUME NEW t \in Threads, GrowTry(t)
      PROVE  [Ordered!Next]_Ordered!vars
  <2>1. CASE UNCHANGED <<right, issued>>
    BY <1>5, <2>1, <1>a DEF GrowTry
  <2>2. CASE /\ MayIssue(r[t], cond[t]) /\ right = r[t] /\ right' = right + 1
             /\ issued' = right
    <3>1. issued \in Nat /\ Len(reaped) \in Nat
      BY TokenType DEF IInv
    <3>2. right # 0 /\ right = issued + 1 /\ right =< EsnMax
      BY <2>2 DEF MayIssue, IInv, RightInv
    <3>3. right' # 0
      BY <2>2, <3>1, <3>2
    <3>4. issued - Len(reaped) < Capacity
      <4>1. At({"grow", "try"}) # {}
        BY <1>5 DEF GrowTry, At
      <4>2. GrowTokens >= 1 /\ GrowTokens \in Nat
            /\ FreeTokens \in Nat
        BY <4>1, CountType
        DEF GrowTokens, BackTokens, FreeTokens
      <4>3. QED
        BY <3>1, <4>2, CapacityAssumption DEF IInv, TokenInv
    <3>5. UNCHANGED <<retired, reaped>>
      BY <1>5 DEF GrowTry
    <3>6. Ordered!Grow
      BY <2>2, <3>1, <3>2, <3>3, <3>4, <3>5, EsnMaxAssumption DEF Ordered!Grow
    <3>7. QED
      BY <3>6 DEF Ordered!Next
  <2>3. QED
    BY <1>5, <2>1, <2>2 DEF GrowTry
<1>6. ASSUME NEW t \in Threads, NEW e \in Esns, Retire(t, e)
      PROVE  Ordered!Next
  <2>1. e \in (1 .. issued) \ retired
    BY <1>6 DEF Retire, IInv, TypeOK
  <2>2. Ordered!Retire(e)
    BY <1>6 DEF Retire, Ordered!Retire, window
  <2>3. QED
    BY <2>1, <2>2 DEF Ordered!Next
<1>7. ASSUME NEW t \in Threads, Reap(t)
      PROVE  Ordered!Next
  <2>1. Len(reaped) + 1 \in retired
    BY <1>7 DEF Reap, IInv, ReaperInv
  <2>2. reaped' = Append(reaped, Len(reaped) + 1)
    BY <1>7, ReapStep
  <2>3. Ordered!Reap
    BY <1>7, <2>1, <2>2 DEF Reap, Ordered!Reap, window
  <2>4. QED
    BY <2>3 DEF Ordered!Next
<1>8. ASSUME NEW t \in Threads, Disable(t)
      PROVE  Ordered!Next
  <2>1. Ordered!Disable
    BY <1>8 DEF Disable, Ordered!Disable, history
  <2>2. QED
    BY <2>1 DEF Ordered!Next
<1>9. QED
  BY <1>a, <1>1, <1>2, <1>3, <1>4, <1>5, <1>6, <1>7, <1>8 DEF Next, Continue

\* The window implements the safety part of OrderedWindow: ESNs are issued in
\* order and within the capacity, reaped in order, once each and only after all
\* below are retired, and none is issued after disable().
THEOREM ImplementsOrdered == Spec => Ordered!SafeSpec
<1>1. Init => Ordered!Init
  BY DEF Init, Ordered!Init
<1>2. IInv /\ [Next]_vars => [Ordered!Next]_Ordered!vars
  BY StepRefines
<1>3. QED
  BY <1>1, <1>2, Invariance, PTL DEF Spec, Ordered!SafeSpec
=============================================================================
