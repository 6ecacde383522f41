------------------------ MODULE EpochAgreementProofs ------------------------
(***************************************************************************)
(* Proofs that the recoveries of an epoch agree on its content.  They hold *)
(* for any nodeset, family of copysets and number of concurrent recoveries *)
(* that are not restarted, as long as mutation sets are f-majorities; what *)
(* is said about the copies on the shards moreover needs that no recovery  *)
(* digests what a later one has stored.                                    *)
(***************************************************************************)
EXTENDS EpochRecoveryProofs, Extrema

\* No state machine goes back to sealing: RecoverySet never shrinks below its
\* mutation set.
NoRestart == \A s \in SealEpochs : MaxRestarts[s] = 0

\* The shards that take part in mutations meet every copyset.
Majorities ==
    \A s \in SealEpochs : phase[s] \in Settling => Fmajority(mutationSet[s])

\* A shard answers START before a later recovery has stored on it.
DigestsInOrder ==
    \A s \in SealEpochs : \A n \in DOMAIN digest[s], e \in Slots :
        digest[s][n][e].wave =< s

-----------------------------------------------------------------------------
(* What a machine proposes, and when it can not be changed any more.       *)

\* The machine has settled what to store.
Proposed(s) == \E e \in Slots : settled[s][e].kind # "none"

\* What machine s settled for ESN e may still get on a copyset, or is there.
Open(s, e) ==
    \E c \in CopySets : \A n \in c : n \in stored[s][e] \/ seal[n] =< s

Chosen(s, e) == \E c \in CopySets : c \subseteq stored[s][e]

\* Nothing that machine s settled is left as it was found.
AllMutated(s) ==
    \A e \in Slots : settled[s][e].kind # "none" => e \in mutators[s]

Decided(s) == Proposed(s) /\ \A e \in mutators[s] : Chosen(s, e)

\* The outcome of a plan for the ESNs above LNG l.
PlanOutcome(plan, l) ==
    [e \in Slots |-> IF e =< l \/ plan[e].kind = "record"
                     THEN "record" ELSE "hole"]

\* Outcome o holds nothing but holes from e on, and this is the lowest such e.
EndsAt(o, e) ==
    /\ \A k \in Slots : k >= e => o[k] = "hole"
    /\ e = 1 \/ o[e - 1] = "record"

\* Who wrote copy c of ESN e on shard n.
Origin(c, n, e) ==
    c.kind # "none" =>
        IF c.recovery
        THEN /\ c.wave \in SealEpochs
             /\ n \in stored[c.wave][e]
             /\ c.kind = settled[c.wave][e].kind
             /\ c.bridge = settled[c.wave][e].bridge
        ELSE e \in Esns /\ n \in copies[e] /\ c.kind = "record" /\ ~c.bridge

\* Copy c is from machine s or a later one.
Kept(c, s) == c.kind # "none" /\ c.recovery /\ c.wave >= s

\* What machine s settled for ESN e and did not store itself is on a copyset.
Elsewhere(s, e) ==
    \E c \in CopySets :
        \/ e \in Esns /\ c \subseteq copies[e] /\ settled[s][e].kind = "record"
        \/ \E u \in SealEpochs :
                /\ c \subseteq stored[u][e]
                /\ settled[u][e].kind = settled[s][e].kind

\* Machine s has heard from all shards that they have nothing above what it
\* settled, and they will get nothing any more.
NothingAbove(s) ==
    /\ \A n \in Shards : seal[n] >= Epoch
    /\ \A e \in Esns : settled[s][e].kind = "none" /\ lng[s] < e => copies[e] = {}

ProposalInv ==
    \A s \in SealEpochs :
        /\ phase[s] \in {"SEAL", "DIGEST"} =>
                ~Proposed(s) /\ mutators[s] = {} /\ stored[s] = NoShards
        /\ phase[s] \in Settling => Proposed(s)
        /\ phase[s] \in Finished => Decided(s)
        /\ \A e \in Slots : stored[s][e] # {} => e \in mutators[s]
        /\ Proposed(s) => /\ {} \notin CopySets
                          /\ Fmajority({n \in Shards : seal[n] >= s})

CopyInv ==
    \A n \in Shards, e \in Slots :
        /\ Origin(store[n][e], n, e)
        /\ \A s \in SealEpochs : n \in stored[s][e] =>
                Kept(store[n][e], s) /\ seal[n] >= s
        /\ e \in Esns /\ n \in copies[e] => store[n][e].kind # "none"

DigestCopyInv ==
    \A t \in SealEpochs : \A n \in DOMAIN digest[t], e \in Slots :
        /\ Origin(digest[t][n][e], n, e)
        /\ \A s \in SealEpochs : s < t /\ n \in stored[s][e] =>
                Kept(digest[t][n][e], s)
        /\ e \in Esns /\ n \in copies[e] => digest[t][n][e].kind # "none"

\* What machine s settled: records that were appended, then holes from its
\* bridge record on, and nothing beyond the last ESN it settled.
ShapeOf(s) ==
    /\ \A e \in Slots : settled[s][e].kind = "record" =>
            e \in Esns /\ copies[e] # {}
    /\ Proposed(s) => \A e \in Slots :
            /\ settled[s][e].bridge <=> EndsAt(Outcome(s), e)
            /\ settled[s][e].bridge => settled[s][e].kind = "hole"
            /\ settled[s][e].kind = "none" =>
                    \/ e =< lng[s]
                    \/ \A k \in Slots : k >= e => settled[s][k].kind = "none"

ShapeInv == \A s \in SealEpochs : ShapeOf(s)

\* What machine s stores, and why it need not store the rest.
PlanOf(s) ==
    /\ \A e \in Slots : settled[s][e].kind # "none" =>
            e \in mutators[s] \/ Elsewhere(s, e)
    /\ Proposed(s) => AllMutated(s) \/ NothingAbove(s)

PlanInv == \A s \in SealEpochs : PlanOf(s)

\* Machine z settles on what machine y may still get on a copyset.
ChoiceOf(y, z) ==
    Proposed(y) /\ Proposed(z) =>
        /\ \A e \in mutators[y] : Open(y, e) => Outcome(z)[e] = Outcome(y)[e]
        /\ AllMutated(y) /\ (\A e \in mutators[y] : Open(y, e))
                => Outcome(z) = Outcome(y)

ChoiceInv == \A y, z \in SealEpochs : y < z => ChoiceOf(y, z)

AgreementInv ==
    ProposalInv /\ CopyInv /\ DigestCopyInv /\ ShapeInv /\ PlanInv /\ ChoiceInv

-----------------------------------------------------------------------------
(* Outcomes.                                                               *)

LEMMA SlotFacts ==
    /\ \A e \in Slots : e \in Nat /\ e # 0 /\ e =< MaxEsn + 1
    /\ \A e \in Slots : e \in Esns <=> e =< MaxEsn
    /\ MaxEsn \in Nat /\ MaxEsn + 1 \in Slots /\ Esns \subseteq Slots
BY MaxEsnAssumption DEF Slots, Esns

\* A machine that goes by an ESN goes by one that may be acknowledged.
LEMMA BelowLng ==
    ASSUME TypeOK, AckedInv, LngSound, NEW s \in SealEpochs, NEW e \in Slots,
           e =< lng[s]
    PROVE  e \in Esns /\ e \in acked /\ Choosable(e)
<1>1. e \in 1 .. lng[s]
  BY SlotFacts DEF TypeOK
<1>2. e \in acked
  BY <1>1 DEF LngSound
<1>3. QED
  BY <1>2, AckedChoosable DEF TypeOK

LEMMA ProposedSettled ==
    ASSUME NEW s \in SealEpochs, Proposed(s)
    PROVE  settled[s] # NoChange
BY DEF Proposed, NoChange

\* A proposal keeps the ESNs that may be acknowledged.
LEMMA ChoosableOutcome ==
    ASSUME TypeOK, DurabilityInv, NEW s \in SealEpochs, Proposed(s),
           NEW e \in Esns, Choosable(e)
    PROVE  Outcome(s)[e] = "record" /\ settled[s][e].kind # "hole"
<1>1. /\ settled[s][e].kind # "hole"
      /\ settled[s][e].kind = "none" => e =< lng[s]
  BY ProposedSettled DEF DurabilityInv, SettledInv, Harmless
<1>2. e \in Slots /\ settled[s][e].kind \in Kinds
  BY SlotFacts DEF TypeOK
<1>3. QED
  BY <1>1, <1>2 DEF Outcome, Kinds

LEMMA KindIsOutcome ==
    ASSUME TypeOK, DurabilityInv, LngSound, NEW s \in SealEpochs,
           NEW e \in Slots, settled[s][e].kind # "none"
    PROVE  Outcome(s)[e] = settled[s][e].kind
<1>1. Proposed(s)
  BY DEF Proposed
<1>2. settled[s][e].kind \in {"record", "hole"}
  BY DEF TypeOK, Kinds
<1>3. CASE e =< lng[s]
  <2>1. e \in Esns /\ Choosable(e)
    BY <1>3, BelowLng DEF DurabilityInv
  <2>2. settled[s][e].kind = "record"
    BY <1>1, <1>2, <2>1, ChoosableOutcome
  <2>3. QED
    BY <2>2 DEF Outcome
<1>4. CASE ~(e =< lng[s])
  BY <1>2, <1>4 DEF Outcome
<1>5. QED
  BY <1>3, <1>4

LEMMA OutcomeValues ==
    ASSUME NEW s \in SealEpochs, NEW e \in Slots
    PROVE  Outcome(s)[e] \in {"record", "hole"}
BY DEF Outcome

LEMMA OutcomeEqual ==
    ASSUME NEW s \in SealEpochs, NEW t \in SealEpochs,
           \A e \in Slots : Outcome(s)[e] = Outcome(t)[e]
    PROVE  Outcome(s) = Outcome(t)
BY DEF Outcome

-----------------------------------------------------------------------------
(* What every step leaves alone.                                           *)

Growth ==
    /\ \A t \in SealEpochs : Proposed(t) =>
            /\ settled'[t] = settled[t] /\ mutators'[t] = mutators[t]
            /\ Outcome(t)' = Outcome(t)
    /\ \A t \in SealEpochs : lng[t] =< lng'[t]
    /\ \A t \in SealEpochs, e \in Slots : stored[t][e] \subseteq stored'[t][e]
    /\ \A t \in SealEpochs, e \in Slots : \A n \in stored'[t][e] :
            n \in stored[t][e] \/ seal[n] =< t
    /\ \A n \in Shards : seal[n] =< seal'[n]
    /\ \A e \in Esns : copies[e] \subseteq copies'[e]
    /\ \A e \in Esns : \A n \in copies'[e] : n \in copies[e] \/ seal[n] < Epoch

\* Growth but for the outcomes.
SlowGrowth ==
    /\ \A t \in SealEpochs : Proposed(t) =>
            settled'[t] = settled[t] /\ mutators'[t] = mutators[t]
    /\ \A t \in SealEpochs : lng[t] =< lng'[t]
    /\ \A t \in SealEpochs, e \in Slots : stored[t][e] \subseteq stored'[t][e]
    /\ \A t \in SealEpochs, e \in Slots : \A n \in stored'[t][e] :
            n \in stored[t][e] \/ seal[n] =< t
    /\ \A n \in Shards : seal[n] =< seal'[n]
    /\ \A e \in Esns : copies[e] \subseteq copies'[e]
    /\ \A e \in Esns : \A n \in copies'[e] : n \in copies[e] \/ seal[n] < Epoch

LEMMA NumberFacts ==
    ASSUME TypeOK
    PROVE  /\ \A n \in Shards : seal[n] \in Nat
           /\ \A s \in SealEpochs : lng[s] \in Nat /\ s \in Nat /\ s >= Epoch
           /\ Epoch \in Nat
BY SealEpochsAssumption, EpochAssumption DEF TypeOK

\* A raised LNG covers acknowledged ESNs, which a proposal holds already.
LEMMA OutcomeKept ==
    ASSUME TypeOK, TypeOK', DurabilityInv, AckedInv', LngSound', SlowGrowth,
           NEW t \in SealEpochs, Proposed(t)
    PROVE  Outcome(t)' = Outcome(t)
<1>1. settled'[t] = settled[t] /\ lng[t] =< lng'[t]
  BY DEF SlowGrowth
<1>2. lng[t] \in Nat /\ lng'[t] \in Nat
  BY DEF TypeOK
<1>3. ASSUME NEW e \in Slots, e =< lng'[t]
      PROVE  e =< lng[t] \/ settled[t][e].kind = "record"
  <2>1. e \in 1 .. lng'[t]
    BY <1>2, <1>3, SlotFacts
  <2>2. e \in acked' /\ e \in Esns
    BY <2>1 DEF LngSound, TypeOK
  <2>3. Choosable(e)'
    BY <2>2 DEF AckedInv, CanReplicate, Choosable
  <2>4. Choosable(e)
    BY <2>2, <2>3, ChoosableShrinks DEF SlowGrowth
  <2>5. Outcome(t)[e] = "record"
    BY <2>2, <2>4, ChoosableOutcome
  <2>6. QED
    BY <2>5 DEF Outcome
<1>4. \A e \in Slots : e \in Nat
  BY SlotFacts
<1>5. QED
  BY <1>1, <1>2, <1>3, <1>4 DEF Outcome

LEMMA SequencerGrowth ==
    ASSUME TypeOK, TypeOK', SequencerNext
    PROVE  SlowGrowth
<1>1. CASE Append \/ \E e \in Esns : Acknowledge(e)
  <2>1. UNCHANGED <<copies, seal, lng, settled, mutators, stored>>
    BY <1>1 DEF Append, Acknowledge, shardVars, machineVars
  <2>2. QED
    BY <2>1, NumberFacts DEF SlowGrowth
<1>2. ASSUME NEW e \in Esns, NEW n \in Shards, NEW l \in 0 .. MaxEsn,
             StoreRecord(e, n, l)
      PROVE  SlowGrowth
  <2>1. /\ UNCHANGED <<seal, lng, settled, mutators, stored>>
        /\ copies' = [copies EXCEPT ![e] = @ \cup {n}]
        /\ seal[n] < Epoch
    BY <1>2, NumberFacts DEF StoreRecord, AcceptsAppends, machineVars
  <2>2. \A k \in Esns : copies'[k] = IF k = e THEN copies[k] \cup {n} ELSE copies[k]
    BY <2>1 DEF TypeOK
  <2>3. QED
    BY <2>1, <2>2, NumberFacts DEF SlowGrowth
<1>3. QED
  BY <1>1, <1>2 DEF SequencerNext

LEMMA MachineGrowth ==
    ASSUME NoRestart, TypeOK, TypeOK', ProposalInv, NEW s \in SealEpochs,
           MachineNext(s)
    PROVE  SlowGrowth
<1> USE NumberFacts
<1>1. ASSUME NEW n \in Shards, Seal(s, n) PROVE SlowGrowth
  <2>1. /\ UNCHANGED <<copies, settled, mutators, stored>>
        /\ seal[n] =< s /\ seal' = [seal EXCEPT ![n] = s]
        /\ lng' = [lng EXCEPT ![s] = Larger(@, shardLng[n])]
    BY <1>1 DEF Seal, seqVars
  <2>2. \A m \in Shards : seal[m] =< seal'[m]
    BY <2>1 DEF TypeOK
  <2>3. \A t \in SealEpochs : lng[t] =< lng'[t]
    BY <2>1 DEF TypeOK, Larger
  <2>4. QED
    BY <2>1, <2>2, <2>3 DEF SlowGrowth
<1>2. ASSUME NEW n \in Shards, SealReplyLost(s, n) PROVE SlowGrowth
  <2>1. /\ UNCHANGED <<copies, settled, mutators, stored, lng>>
        /\ seal[n] < s /\ seal' = [seal EXCEPT ![n] = s]
    BY <1>2 DEF SealReplyLost, seqVars, machineVars
  <2>2. \A m \in Shards : seal[m] =< seal'[m]
    BY <2>1 DEF TypeOK
  <2>3. QED
    BY <2>1, <2>2 DEF SlowGrowth
<1>3. ASSUME NEW n \in Shards, DigestShard(s, n) PROVE SlowGrowth
  <2>1. /\ UNCHANGED <<copies, seal, settled, mutators, stored>>
        /\ lng' = [lng EXCEPT ![s] = Larger(@, shardLng[n])]
    BY <1>3 DEF DigestShard, seqVars, shardVars
  <2>2. \A t \in SealEpochs : lng[t] =< lng'[t]
    BY <2>1 DEF TypeOK, Larger
  <2>3. QED
    BY <2>1, <2>2 DEF SlowGrowth
<1>4. ASSUME NEW D \in SUBSET DOMAIN digest[s], NEW M \in SUBSET D,
             NEW r \in Selections(digest[s]), StartMutations(s, D, M, r)
      PROVE  SlowGrowth
  <2>1. /\ UNCHANGED <<copies, seal, lng, stored>>
        /\ \A t \in SealEpochs : t # s =>
                settled'[t] = settled[t] /\ mutators'[t] = mutators[t]
        /\ phase[s] = "DIGEST"
    BY <1>4 DEF StartMutations, TypeOK, seqVars, shardVars
  <2>2. ~Proposed(s)
    BY <2>1 DEF ProposalInv
  <2>3. QED
    BY <2>1, <2>2 DEF SlowGrowth
<1>5. ASSUME NEW e \in Slots, NEW n \in Shards, MutateShard(s, e, n)
      PROVE  SlowGrowth
  <2>1. /\ UNCHANGED <<copies, seal, lng, settled, mutators>>
        /\ stored' = [stored EXCEPT ![s][e] = @ \cup {n}]
        /\ seal[n] =< s
    BY <1>5 DEF MutateShard, NotPreempted, seqVars
  <2>2. \A t \in SealEpochs, k \in Slots :
            stored'[t][k] = IF t = s /\ k = e THEN stored[t][k] \cup {n}
                                              ELSE stored[t][k]
    <3>1. stored \in [SealEpochs -> [Slots -> SUBSET Shards]]
      BY DEF TypeOK
    <3>2. QED
      BY <2>1, <3>1, Zenon
  <2>3. QED
    BY <2>1, <2>2 DEF SlowGrowth
<1>6. ASSUME UNCHANGED <<copies, seal, lng, settled, mutators, stored>>
      PROVE  SlowGrowth
  BY <1>6 DEF SlowGrowth
<1>7. CASE \E n \in Shards : SealPreempted(s, n) \/ Clean(s, n)
  BY <1>6, <1>7 DEF SealPreempted, Clean, Preempted, seqVars, shardVars
<1>8. CASE \E e \in Slots, n \in Shards : MutatePreempted(s, e, n)
  BY <1>6, <1>8 DEF MutatePreempted, Preempted, seqVars, shardVars
<1>9. CASE StartDigest(s) \/ MutationComplete(s) \/ AdvanceLCE(s)
            \/ AdvanceLCEReplyLost(s)
  BY <1>6, <1>9 DEF StartDigest, MutationComplete, AdvanceLCE,
                    AdvanceLCEReplyLost, seqVars, shardVars, machineVars
<1>10. ~Restart(s)
  BY DEF Restart, NoRestart, TypeOK
<1>11. QED
  BY <1>1, <1>2, <1>3, <1>4, <1>5, <1>7, <1>8, <1>9, <1>10 DEF MachineNext

LEMMA StepGrowth ==
    ASSUME NoRestart, TypeOK, TypeOK', DurabilityInv, DurabilityInv', LngSound',
           ProposalInv, Next
    PROVE  Growth
<1>1. SlowGrowth
  BY SequencerGrowth, MachineGrowth DEF Next
<1>2. \A t \in SealEpochs : Proposed(t) => Outcome(t)' = Outcome(t)
  BY <1>1, OutcomeKept DEF DurabilityInv
<1>3. QED
  BY <1>1, <1>2 DEF Growth, SlowGrowth

LEMMA OpenShrinks ==
    ASSUME TypeOK, TypeOK', Growth, NEW t \in SealEpochs, NEW e \in Slots,
           Open(t, e)'
    PROVE  Open(t, e)
<1>1. PICK c \in CopySets : \A n \in c : n \in stored'[t][e] \/ seal'[n] =< t
  BY DEF Open
<1>2. ASSUME NEW n \in c PROVE n \in stored[t][e] \/ seal[n] =< t
  <2>1. n \in Shards
    BY CopySetsAssumption
  <2>2. seal[n] \in Nat /\ seal'[n] \in Nat /\ t \in Nat
    BY <2>1, NumberFacts DEF TypeOK
  <2>3. seal[n] =< seal'[n] /\ (n \in stored'[t][e] => n \in stored[t][e] \/ seal[n] =< t)
    BY <2>1 DEF Growth
  <2>4. QED
    BY <1>1, <2>2, <2>3
<1>3. QED
  BY <1>2 DEF Open

LEMMA ProposedKept ==
    ASSUME Growth, NEW t \in SealEpochs, Proposed(t)
    PROVE  Proposed(t)'
BY DEF Growth, Proposed

LEMMA DecidedKept ==
    ASSUME TypeOK, Growth, NEW t \in SealEpochs, Decided(t)
    PROVE  Decided(t)'
<1>1. Proposed(t) /\ Proposed(t)' /\ mutators'[t] = mutators[t]
  BY ProposedKept DEF Decided, Growth
<1>2. \A e \in mutators[t] : e \in Slots /\ stored[t][e] \subseteq stored'[t][e]
  BY DEF Growth, TypeOK
<1>3. \A e \in mutators[t] : Chosen(t, e)'
  BY <1>2 DEF Decided, Chosen
<1>4. QED
  BY <1>1, <1>3 DEF Decided

\* A machine that has stored something has settled it.
LEMMA StoredProposed ==
    ASSUME SealedInv, ProposalInv, NEW s \in SealEpochs, NEW e \in Slots,
           stored[s][e] # {}
    PROVE  e \in mutators[s] /\ settled[s][e].kind # "none" /\ Proposed(s)
<1>1. e \in mutators[s]
  BY DEF ProposalInv
<1>2. settled[s][e].kind # "none"
  BY <1>1 DEF SealedInv
<1>3. QED
  BY <1>1, <1>2 DEF Proposed

LEMMA OriginKept ==
    ASSUME SealedInv, ProposalInv, Growth, NEW c, NEW n, NEW e \in Slots,
           Origin(c, n, e)
    PROVE  Origin(c, n, e)'
<1> SUFFICES ASSUME c.kind # "none"
             PROVE  Origin(c, n, e)'
  BY DEF Origin
<1>1. CASE c.recovery
  <2>1. /\ c.wave \in SealEpochs
        /\ n \in stored[c.wave][e]
        /\ c.kind = settled[c.wave][e].kind
        /\ c.bridge = settled[c.wave][e].bridge
    BY <1>1 DEF Origin
  <2>2. Proposed(c.wave)
    BY <2>1, StoredProposed
  <2>3. settled'[c.wave] = settled[c.wave] /\ n \in stored'[c.wave][e]
    BY <2>1, <2>2 DEF Growth
  <2>4. QED
    BY <1>1, <2>1, <2>3 DEF Origin
<1>2. CASE ~c.recovery
  BY <1>2 DEF Origin, Growth
<1>3. QED
  BY <1>1, <1>2

LEMMA ElsewhereKept ==
    ASSUME Growth, NEW s \in SealEpochs, NEW e \in Slots,
           settled[s][e].kind # "none", Elsewhere(s, e)
    PROVE  Elsewhere(s, e)'
<1>1. PICK c \in CopySets :
        \/ e \in Esns /\ c \subseteq copies[e] /\ settled[s][e].kind = "record"
        \/ \E u \in SealEpochs : /\ c \subseteq stored[u][e]
                                 /\ settled[u][e].kind = settled[s][e].kind
  BY DEF Elsewhere
<1>2. settled'[s] = settled[s]
  BY DEF Growth, Proposed
<1>3. CASE e \in Esns /\ c \subseteq copies[e] /\ settled[s][e].kind = "record"
  <2>1. c \subseteq copies'[e]
    BY <1>3 DEF Growth
  <2>2. QED
    BY <1>2, <1>3, <2>1 DEF Elsewhere
<1>4. CASE \E u \in SealEpochs : /\ c \subseteq stored[u][e]
                                 /\ settled[u][e].kind = settled[s][e].kind
  <2>1. PICK u \in SealEpochs : /\ c \subseteq stored[u][e]
                                /\ settled[u][e].kind = settled[s][e].kind
    BY <1>4
  <2>2. c \subseteq stored'[u][e] /\ settled'[u] = settled[u]
    BY <2>1 DEF Growth, Proposed
  <2>3. QED
    BY <1>2, <2>1, <2>2 DEF Elsewhere
<1>5. QED
  BY <1>1, <1>3, <1>4

LEMMA NothingAboveKept ==
    ASSUME TypeOK, TypeOK', Growth, NEW s \in SealEpochs, Proposed(s),
           NothingAbove(s)
    PROVE  NothingAbove(s)'
<1>1. settled'[s] = settled[s] /\ lng[s] =< lng'[s] /\ lng[s] \in Nat
      /\ lng'[s] \in Nat
  BY DEF Growth, TypeOK
<1>2. \A n \in Shards : seal[n] \in Nat /\ seal'[n] \in Nat /\ seal[n] =< seal'[n]
  BY DEF Growth, TypeOK
<1>3. \A n \in Shards : seal[n] >= Epoch /\ seal'[n] >= Epoch
  BY <1>2, NumberFacts DEF NothingAbove
<1>4. ASSUME NEW e \in Esns, settled'[s][e].kind = "none", lng'[s] < e
      PROVE  copies'[e] = {}
  <2>1. e \in Nat
    BY SlotFacts
  <2>2. copies[e] = {}
    BY <1>1, <1>4, <2>1 DEF NothingAbove
  <2>3. copies'[e] \subseteq Shards
    BY DEF TypeOK
  <2>4. QED
    BY <1>2, <1>3, <2>2, <2>3, NumberFacts DEF Growth
<1>5. QED
  BY <1>3, <1>4 DEF NothingAbove

LEMMA ShapeKept ==
    ASSUME TypeOK, TypeOK', Growth, NEW s \in SealEpochs, Proposed(s),
           ShapeOf(s)
    PROVE  ShapeOf(s)'
<1>1. settled'[s] = settled[s] /\ lng[s] =< lng'[s] /\ Outcome(s)' = Outcome(s)
  BY DEF Growth
<1>2. lng[s] \in Nat /\ lng'[s] \in Nat /\ \A e \in Slots : e \in Nat
  BY SlotFacts DEF TypeOK
<1>3. \A e \in Slots : settled'[s][e].kind = "record" =>
            e \in Esns /\ copies'[e] # {}
  BY <1>1 DEF ShapeOf, Growth
<1>4. \A e \in Slots : EndsAt(Outcome(s), e)' <=> EndsAt(Outcome(s), e)
  BY <1>1 DEF EndsAt
<1>5. QED
  BY <1>1, <1>2, <1>3, <1>4 DEF ShapeOf

LEMMA PlanKept ==
    ASSUME TypeOK, TypeOK', Growth, NEW s \in SealEpochs, Proposed(s), PlanOf(s)
    PROVE  PlanOf(s)'
<1>1. settled'[s] = settled[s] /\ mutators'[s] = mutators[s]
  BY DEF Growth
<1>2. \A e \in Slots : settled[s][e].kind # "none" /\ Elsewhere(s, e)
            => Elsewhere(s, e)'
  BY ElsewhereKept
<1>3. AllMutated(s)' <=> AllMutated(s)
  BY <1>1 DEF AllMutated
<1>4. NothingAbove(s) => NothingAbove(s)'
  BY NothingAboveKept
<1>5. QED
  BY <1>1, <1>2, <1>3, <1>4 DEF PlanOf

LEMMA ChoiceKept ==
    ASSUME TypeOK, TypeOK', Growth, NEW y \in SealEpochs, NEW z \in SealEpochs,
           Proposed(y), Proposed(z), ChoiceOf(y, z)
    PROVE  ChoiceOf(y, z)'
<1>1. /\ settled'[y] = settled[y] /\ mutators'[y] = mutators[y]
      /\ Outcome(y)' = Outcome(y) /\ Outcome(z)' = Outcome(z)
  BY DEF Growth
<1>2. \A e \in mutators[y] : Open(y, e)' => Open(y, e)
  BY OpenShrinks DEF TypeOK
<1>3. AllMutated(y)' <=> AllMutated(y)
  BY <1>1 DEF AllMutated
<1>4. QED
  BY <1>1, <1>2, <1>3 DEF ChoiceOf

\* Machines that have settled nothing.
LEMMA Unproposed ==
    ASSUME NEW s \in SealEpochs, ~Proposed(s)'
    PROVE  ShapeOf(s)' /\ PlanOf(s)'
BY DEF Proposed, ShapeOf, PlanOf

-----------------------------------------------------------------------------
(* What a machine settles on.                                              *)

\* The plan for entries a above LNG l has the shape of an outcome: it ends with
\* a bridge record, right after its last data record.
LEMMA PlanShape ==
    ASSUME BridgeForEmptyEpoch, NEW l \in Nat, l =< MaxEsn, NEW a,
           \A e \in Slots : a[e].kind \in Kinds,
           a[MaxEsn + 1].kind # "record"
    PROVE  LET plan == Settled(a, l)
               o == PlanOutcome(plan, l)
           IN  /\ \A e \in Slots :
                    /\ o[e] = "record" <=> e =< l \/ a[e].kind = "record"
                    /\ plan[e].bridge <=> EndsAt(o, e)
                    /\ plan[e].bridge => plan[e].kind = "hole"
                    /\ plan[e].kind = "none" =>
                        \/ e =< l
                        \/ \A k \in Slots : k >= e => plan[k].kind = "none"
                    /\ plan[e].kind = "none" /\ ~(e =< l) => a[e].kind = "none"
                    /\ plan[e].kind = "record" => a[e].kind = "record"
                    /\ plan[e].kind # "none" /\ a[e].kind # "none"
                        => plan[e].kind = a[e].kind
               /\ \E e \in Slots : plan[e].bridge
<1> DEFINE plan == Settled(a, l)
           o == PlanOutcome(plan, l)
<1>0. \A e \in Slots : e \in Nat /\ e # 0
  BY SlotFacts
<1>1. ASSUME NEW e \in Slots
      PROVE  /\ Mutated(a, l, e) =>
                    /\ plan[e].kind = IF a[e].kind = "none" THEN "hole" ELSE a[e].kind
                    /\ plan[e].bridge = NewBridge(a, l, e)
             /\ ~Mutated(a, l, e) => plan[e].kind = "none" /\ plan[e].bridge = FALSE
  BY DEF Settled, NoCopy
<1>2. ASSUME NEW e \in Slots, l < e, a[e].kind # "none"
      PROVE  Mutated(a, l, e)
  BY <1>0, <1>2 DEF Mutated
<1>3. ASSUME NEW e \in Slots
      PROVE  /\ plan[e].kind = "none" /\ ~(e =< l) => a[e].kind = "none"
             /\ plan[e].kind = "record" => a[e].kind = "record"
             /\ plan[e].kind # "none" /\ a[e].kind # "none"
                    => plan[e].kind = a[e].kind
             /\ ~(e =< l) /\ a[e].kind = "record" => plan[e].kind = "record"
             /\ Mutated(a, l, e) <=> plan[e].kind # "none"
  <2> HIDE DEF plan
  <2>1. CASE Mutated(a, l, e)
    BY <1>1, <2>1 DEF Kinds
  <2>2. CASE ~Mutated(a, l, e)
    <3>1. e \in Nat /\ plan[e].kind = "none"
      BY <1>0, <1>1, <2>2
    <3>2. ~(e =< l) => a[e].kind = "none"
      BY <1>2, <2>2, <3>1
    <3>3. QED
      BY <2>2, <3>1, <3>2
  <2>3. QED
    BY <2>1, <2>2
<1>4. ASSUME NEW e \in Slots
      PROVE  o[e] = "record" <=> e =< l \/ a[e].kind = "record"
  BY <1>3 DEF PlanOutcome
<1>5. ASSUME NEW e \in Slots
      PROVE  NewBridge(a, l, e) => Mutated(a, l, e)
  BY <1>0 DEF NewBridge, Mutated
<1>6. ASSUME NEW e \in Slots
      PROVE  plan[e].bridge <=> NewBridge(a, l, e)
  BY <1>1, <1>5 DEF NewBridge
<1>7. \A e \in Slots : o[e] \in {"record", "hole"}
  BY DEF PlanOutcome
<1>8. ASSUME NEW e \in Slots
      PROVE  NewBridge(a, l, e) <=> EndsAt(o, e)
  <2> HIDE DEF o
  <2>1. e # 1 => e - 1 \in Slots
    BY MaxEsnAssumption DEF Slots
  <2>2. ASSUME NewBridge(a, l, e) PROVE EndsAt(o, e)
    <3>1. l < e /\ (e = l + 1 \/ a[e - 1].kind = "record")
          /\ \A k \in Slots : k >= e => a[k].kind # "record"
      BY <2>2 DEF NewBridge
    <3>2. \A k \in Slots : k >= e => o[k] = "hole"
      BY <1>0, <1>4, <1>7, <3>1
    <3>3. e = 1 \/ o[e - 1] = "record"
      <4>1. e # 1 => (o[e - 1] = "record" <=> e - 1 =< l \/ a[e - 1].kind = "record")
        BY <1>4, <2>1
      <4>2. QED
        BY <1>0, <3>1, <4>1
    <3>4. QED
      BY <3>2, <3>3 DEF EndsAt
  <2>3. ASSUME EndsAt(o, e) PROVE NewBridge(a, l, e)
    <3>1. /\ \A k \in Slots : k >= e => o[k] = "hole"
          /\ e = 1 \/ o[e - 1] = "record"
      BY <2>3 DEF EndsAt
    <3>2. \A k \in Slots : k >= e => ~(k =< l) /\ a[k].kind # "record"
      BY <1>4, <3>1
    <3>3. l < e
      BY <1>0, <3>2
    <3>4. e = l + 1 \/ a[e - 1].kind = "record"
      <4>1. e # 1 => (o[e - 1] = "record" <=> e - 1 =< l \/ a[e - 1].kind = "record")
        BY <1>4, <2>1
      <4>2. QED
        BY <1>0, <3>1, <3>3, <4>1
    <3>5. QED
      BY <3>2, <3>3, <3>4 DEF NewBridge
  <2>4. QED
    BY <2>2, <2>3
<1>9. ASSUME NEW e \in Slots, plan[e].bridge PROVE plan[e].kind = "hole"
  <2>1. NewBridge(a, l, e) /\ Mutated(a, l, e)
    BY <1>5, <1>6, <1>9
  <2>2. a[e].kind \in {"none", "hole"}
    BY <1>0, <2>1 DEF NewBridge, Kinds
  <2>3. QED
    BY <1>1, <2>1, <2>2
<1>10. ASSUME NEW e \in Slots, plan[e].kind = "none", ~(e =< l),
              NEW k \in Slots, k >= e
       PROVE  plan[k].kind = "none"
  <2>1. ~Mutated(a, l, e)
    BY <1>3, <1>10
  <2>2. ~Mutated(a, l, k)
    BY <1>0, <1>10, <2>1 DEF Mutated
  <2>3. QED
    BY <1>1, <2>2
<1>11. \E e \in Slots : EndsAt(o, e)
  <2> DEFINE T == {e \in Slots : \A k \in Slots : k >= e => o[k] = "hole"}
  <2> HIDE DEF o
  <2>1. MaxEsn + 1 \in T
    <3>1. o[MaxEsn + 1] = "hole"
      BY <1>4, <1>7, SlotFacts
    <3>2. \A k \in Slots : k >= MaxEsn + 1 => k = MaxEsn + 1
      BY SlotFacts
    <3>3. QED
      BY <3>1, <3>2, SlotFacts
  <2>2. T \subseteq Nat
    BY <1>0
  <2>3. PICK e \in T : \A x \in T : e =< x
    <3> HIDE DEF T
    <3>1. QED
      BY <2>1, <2>2, LeastNatural
  <2>4. CASE e = 1
    BY <2>3, <2>4 DEF EndsAt
  <2>5. CASE e # 1
    <3>1. e \in Slots /\ e - 1 \in Slots /\ e \in Nat
      BY <2>5, <1>0, MaxEsnAssumption DEF Slots
    <3>2. e - 1 \notin T
      BY <2>3, <3>1, <2>2
    <3>3. PICK k \in Slots : k >= e - 1 /\ o[k] # "hole"
      BY <3>1, <3>2
    <3>4. k = e - 1
      BY <1>0, <2>3, <3>1, <3>3
    <3>5. QED
      BY <1>7, <2>3, <3>1, <3>3, <3>4 DEF EndsAt
  <2>6. QED
    BY <2>4, <2>5
<1>12. \A e \in Slots : plan[e].bridge <=> EndsAt(o, e)
  BY <1>6, <1>8
<1>13. \E e \in Slots : plan[e].bridge
  BY <1>11, <1>12
<1>14. \A e \in Slots : plan[e].kind = "none" =>
            e =< l \/ \A k \in Slots : k >= e => plan[k].kind = "none"
  BY <1>10
<1>15. \A e \in Slots : plan[e].bridge => plan[e].kind = "hole"
  BY <1>9
<1>16. QED
  BY <1>3, <1>4, <1>12, <1>13, <1>14, <1>15, Zenon

LEMMA RecoveryPrecedes ==
    ASSUME NEW a \in Copy, NEW b \in Copy
    PROVE  /\ ~a.recovery /\ b.recovery => Precedes(a, b)
           /\ a.recovery => (Precedes(a, b) <=> b.recovery /\ a.wave < b.wave)
BY DEF Precedes, WaveOrSealEpoch, Copy

\* The selected copy of an ESN is one that some shard sent, and no older than
\* any of them.
LEMMA SelectedFrom ==
    ASSUME NEW d, IsDigest(d), NEW r \in Selections(d), NEW e \in Slots
    PROVE  /\ r[e].kind # "none" => \E m \in DOMAIN d : r[e] = d[m][e]
           /\ r[e].kind = "none" => \A m \in DOMAIN d : d[m][e].kind = "none"
           /\ \A m \in DOMAIN d : d[m][e].kind # "none" => ~Precedes(r[e], d[m][e])
<1>1. CASE e \in Entries(d)
  <2>1. r[e] \in Highest(d, e)
    BY <1>1 DEF Selections
  <2>2. PICK m \in Senders(d, e) : r[e] = d[m][e]
    BY <2>1 DEF Highest
  <2>3. m \in DOMAIN d /\ d[m][e].kind # "none"
    BY <2>2 DEF Senders
  <2>4. \A n \in DOMAIN d : d[n][e].kind # "none" => ~Precedes(r[e], d[n][e])
    BY <2>1 DEF Highest, Senders
  <2>5. QED
    BY <2>2, <2>3, <2>4
<1>2. CASE e \notin Entries(d)
  <2>1. r[e] = NoCopy /\ NoCopy.kind = "none"
    BY <1>2 DEF Selections, NoCopy
  <2>2. \A m \in DOMAIN d : d[m][e].kind = "none"
    BY <1>2 DEF Entries, Senders
  <2>3. QED
    BY <2>1, <2>2
<1>3. QED
  BY <1>1, <1>2

LEMMA SelectedKept ==
    ASSUME NEW d, IsDigest(d), NEW r \in Selections(d), NEW e \in Slots,
           NEW n \in DOMAIN d, NEW y \in Nat, Kept(d[n][e], y)
    PROVE  Kept(r[e], y) /\ r[e].wave >= d[n][e].wave
<1>1. r[e] \in Copy /\ d[n][e] \in Copy
  BY SelectionType DEF IsDigest
<1>2. d[n][e].kind # "none" /\ ~Precedes(r[e], d[n][e]) /\ r[e].kind # "none"
  BY SelectedFrom DEF Kept
<1>3. r[e].recovery /\ ~(r[e].wave < d[n][e].wave)
  BY <1>1, <1>2, RecoveryPrecedes DEF Kept, Copy
<1>4. QED
  BY <1>1, <1>2, <1>3 DEF Kept, Copy

\* An entry stays as it was selected, or is below a bridge record.
LEMMA AfterBridgesCases ==
    ASSUME NEW d, NEW M, NEW l, NEW r \in [Slots -> Copy], NEW e \in Slots
    PROVE  LET c == AfterBridges(d, M, l, r)[e]
           IN  \/ c.kind = r[e].kind /\ (c.kind # "none" =>
                        \A b \in BridgesUpTo(d, M, l, e) : ~Precedes(r[e], b))
               \/ /\ c.kind = "hole" /\ r[e].kind # "none"
                  /\ \E b \in BridgesUpTo(d, M, l, e) : Precedes(r[e], b)
<1>1. r[e] \in Copy
  OBVIOUS
<1>2. CASE r[e].kind = "none"
  BY <1>2 DEF AfterBridges, NoCopy
<1>3. CASE r[e].kind # "none" /\ \E b \in BridgesUpTo(d, M, l, e) : Precedes(r[e], b)
  BY <1>3 DEF AfterBridges, ApplyBridges
<1>4. CASE r[e].kind # "none" /\ ~\E b \in BridgesUpTo(d, M, l, e) : Precedes(r[e], b)
  <2>1. AfterBridges(d, M, l, r)[e] = [r[e] EXCEPT !.bridge = FALSE]
    BY <1>4 DEF AfterBridges, ApplyBridges
  <2>2. AfterBridges(d, M, l, r)[e].kind = r[e].kind
    BY <1>1, <2>1 DEF Copy
  <2>3. QED
    BY <1>4, <2>2
<1>5. QED
  BY <1>2, <1>3, <1>4

\* The plan that follows from digest d, mutation set M, LNG l and entries r.
Planned(d, M, l, r) == Settled(AfterBridges(d, M, l, r), l)

LEMMA StartFacts ==
    ASSUME TypeOK, NEW z \in SealEpochs, NEW D \in SUBSET DOMAIN digest[z],
           NEW M \in SUBSET D, NEW r \in Selections(digest[z]),
           StartMutations(z, D, M, r)
    PROVE  /\ UNCHANGED <<copies, acked, seal, store, lng, stored, lce, clean>>
           /\ phase[z] = "DIGEST" /\ Fmajority(D) /\ CanReplicate(M)
           /\ \A t \in SealEpochs : t # z =>
                /\ settled'[t] = settled[t] /\ mutators'[t] = mutators[t]
                /\ digest'[t] = digest[t] /\ phase'[t] = phase[t]
                /\ mutationSet'[t] = mutationSet[t] /\ required'[t] = required[t]
           /\ phase'[z] \in Settling
           /\ phase'[z] \in Finished => mutators'[z] = {}
           /\ digest'[z] = NoDigest /\ mutationSet'[z] = M
<1>1. /\ UNCHANGED <<copies, acked, seal, store, lng, stored, lce, clean>>
      /\ phase[z] = "DIGEST" /\ Fmajority(D) /\ CanReplicate(M)
  BY DEF StartMutations, DigestSufficient, seqVars, shardVars
<1>2. \A t \in SealEpochs : t # z =>
                /\ settled'[t] = settled[t] /\ mutators'[t] = mutators[t]
                /\ digest'[t] = digest[t] /\ phase'[t] = phase[t]
                /\ mutationSet'[t] = mutationSet[t] /\ required'[t] = required[t]
  BY DEF StartMutations, TypeOK
<1>3. digest'[z] = NoDigest /\ mutationSet'[z] = M
  BY DEF StartMutations, TypeOK
<1>4. phase'[z] = IF mutators'[z] = {} THEN "CLEAN" ELSE "MUTATION"
  BY DEF StartMutations, TypeOK
<1>5. phase'[z] \in Settling /\ (phase'[z] \in Finished => mutators'[z] = {})
  BY <1>4 DEF Settling, Finished
<1>6. QED
  BY <1>1, <1>2, <1>3, <1>5

LEMMA StartSettled ==
    ASSUME TypeOK, NEW z \in SealEpochs, NEW D \in SUBSET DOMAIN digest[z],
           NEW M \in SUBSET D, NEW r \in Selections(digest[z]),
           StartMutations(z, D, M, r), NEW e \in Slots
    PROVE  /\ settled'[z][e].kind = Planned(digest[z], M, lng[z], r)[e].kind
           /\ settled'[z][e].bridge = Planned(digest[z], M, lng[z], r)[e].bridge
BY DEF StartMutations, TypeOK, Planned

LEMMA StartMutators ==
    ASSUME TypeOK, NEW z \in SealEpochs, NEW D \in SUBSET DOMAIN digest[z],
           NEW M \in SUBSET D, NEW r \in Selections(digest[z]),
           StartMutations(z, D, M, r), NEW e \in Slots
    PROVE  e \in mutators'[z] <=>
                LET plan == Planned(digest[z], M, lng[z], r)
                IN  /\ plan[e].kind # "none"
                    /\ \/ AfterBridges(digest[z], M, lng[z], r)[e].kind = "none"
                       \/ NeedsMutation(digest[z], M, e, plan[e], z, D = Shards)
BY DEF StartMutations, TypeOK, Planned

LEMMA StartRequired ==
    ASSUME TypeOK, NEW z \in SealEpochs, NEW D \in SUBSET DOMAIN digest[z],
           NEW M \in SUBSET D, NEW r \in Selections(digest[z]),
           StartMutations(z, D, M, r), NEW e \in Slots
    PROVE  required'[z][e] =
                IF e \in mutators'[z] THEN M \cap Senders(digest[z], e) ELSE {}
BY DEF StartMutations, TypeOK

\* What was selected for an ESN is a copy of the sequencer or of a recovery.
LEMMA EntryOrigin ==
    ASSUME TypeOK, DigestCopyInv, NEW z \in SealEpochs,
           NEW r \in Selections(digest[z]), NEW e \in Slots, r[e].kind # "none"
    PROVE  \E m \in DOMAIN digest[z] : Origin(r[e], m, e)
<1>1. IsDigest(digest[z])
  BY DEF TypeOK
<1>2. PICK m \in DOMAIN digest[z] : r[e] = digest[z][m][e]
  BY <1>1, SelectedFrom
<1>3. QED
  BY <1>2 DEF DigestCopyInv

LEMMA RecordEntry ==
    ASSUME TypeOK, DigestCopyInv, ShapeInv, NEW z \in SealEpochs, NEW M,
           NEW r \in Selections(digest[z]), NEW e \in Slots,
           AfterBridges(digest[z], M, lng[z], r)[e].kind = "record"
    PROVE  r[e].kind = "record" /\ e \in Esns /\ copies[e] # {}
<1>0. r \in [Slots -> Copy]
  BY SelectionType DEF TypeOK
<1>1. r[e].kind = "record"
  BY <1>0, AfterBridgesCases
<1>2. PICK m \in DOMAIN digest[z] : Origin(r[e], m, e)
  BY <1>1, EntryOrigin
<1>3. CASE r[e].recovery
  <2>1. r[e].wave \in SealEpochs /\ settled[r[e].wave][e].kind = "record"
    BY <1>1, <1>2, <1>3 DEF Origin
  <2>2. QED
    BY <1>1, <2>1 DEF ShapeInv, ShapeOf
<1>4. CASE ~r[e].recovery
  BY <1>1, <1>2, <1>4 DEF Origin
<1>5. QED
  BY <1>3, <1>4

\* The proposal of a machine has the shape of an outcome.
LEMMA NewProposal ==
    ASSUME BridgeForEmptyEpoch, TypeOK, TypeOK', AckedInv, LngSound,
           DigestCopyInv, ShapeInv, NEW z \in SealEpochs,
           NEW D \in SUBSET DOMAIN digest[z], NEW M \in SUBSET D,
           NEW r \in Selections(digest[z]), StartMutations(z, D, M, r)
    PROVE  /\ Proposed(z)'
           /\ ShapeOf(z)'
           /\ LET after == AfterBridges(digest[z], M, lng[z], r)
              IN  \A e \in Slots :
                    /\ Outcome(z)'[e] = "record"
                            <=> e =< lng[z] \/ after[e].kind = "record"
                    /\ ~(e =< lng[z]) /\ settled'[z][e].kind = "none"
                            => after[e].kind = "none"
                    /\ settled'[z][e].kind # "none" /\ after[e].kind # "none"
                            => settled'[z][e].kind = after[e].kind
<1> DEFINE a == AfterBridges(digest[z], M, lng[z], r)
           l == lng[z]
           plan == Settled(a, l)
           o == PlanOutcome(plan, l)
<1>0. r \in [Slots -> Copy] /\ l \in Nat
  BY SelectionType DEF TypeOK
<1>1. \A e \in Slots : a[e].kind \in Kinds
  BY <1>0, AfterBridgesKind
<1>2. l =< MaxEsn
  <2>1. CASE MaxEsn + 1 =< l
    BY <2>1, SlotFacts, BelowLng
  <2>2. CASE ~(MaxEsn + 1 =< l)
    BY <1>0, <2>2, SlotFacts
  <2>3. QED
    BY <2>1, <2>2
<1>3. a[MaxEsn + 1].kind # "record"
  <2>1. a[MaxEsn + 1].kind = "record" => MaxEsn + 1 \in Esns
    BY RecordEntry, SlotFacts
  <2>2. QED
    BY <2>1, SlotFacts
<1>4. /\ \A e \in Slots :
            /\ o[e] = "record" <=> e =< l \/ a[e].kind = "record"
            /\ plan[e].bridge <=> EndsAt(o, e)
            /\ plan[e].bridge => plan[e].kind = "hole"
            /\ plan[e].kind = "none" =>
                \/ e =< l
                \/ \A k \in Slots : k >= e => plan[k].kind = "none"
            /\ plan[e].kind = "none" /\ ~(e =< l) => a[e].kind = "none"
            /\ plan[e].kind = "record" => a[e].kind = "record"
            /\ plan[e].kind # "none" /\ a[e].kind # "none"
                        => plan[e].kind = a[e].kind
      /\ \E e \in Slots : plan[e].bridge
  <2> HIDE DEF a, l
  <2>1. QED
    BY <1>0, <1>1, <1>2, <1>3, PlanShape
<1> HIDE DEF a, plan
<1>5. /\ \A e \in Slots : /\ settled'[z][e].kind = plan[e].kind
                          /\ settled'[z][e].bridge = plan[e].bridge
      /\ lng'[z] = l /\ copies' = copies
  <2>1. \A e \in Slots :
            /\ settled'[z][e].kind = Planned(digest[z], M, lng[z], r)[e].kind
            /\ settled'[z][e].bridge = Planned(digest[z], M, lng[z], r)[e].bridge
    BY StartSettled
  <2>2. Planned(digest[z], M, lng[z], r) = plan
    BY DEF Planned, plan, a
  <2>3. lng' = lng /\ copies' = copies
    BY StartFacts
  <2>4. QED
    BY <2>1, <2>2, <2>3
<1>6. Outcome(z)' = o
  BY <1>5 DEF Outcome, PlanOutcome
<1>7. Proposed(z)'
  <2>1. PICK e \in Slots : plan[e].bridge
    BY <1>4
  <2>2. settled'[z][e].kind # "none"
    BY <1>4, <1>5, <2>1
  <2>3. QED
    BY <2>2 DEF Proposed
<1>8. ShapeOf(z)'
  <2>1. \A e \in Slots : settled'[z][e].kind = "record" =>
            e \in Esns /\ copies'[e] # {}
    <3>1. \A e \in Slots : a[e].kind = "record" => e \in Esns /\ copies[e] # {}
      BY RecordEntry DEF a
    <3>2. QED
      BY <1>4, <1>5, <3>1
  <2>2. \A e \in Slots : EndsAt(Outcome(z), e)' <=> EndsAt(o, e)
    BY <1>6 DEF EndsAt
  <2> HIDE DEF o
  <2>3. QED
    BY <1>4, <1>5, <2>1, <2>2 DEF ShapeOf
<1>9. QED
  <2> HIDE DEF o
  <2>1. QED
    BY <1>4, <1>5, <1>6, <1>7, <1>8 DEF a

\* What machine y may still get on a copyset, all later proposals have.
LEMMA LaterProposal ==
    ASSUME TypeOK, DurabilityInv, LngSound, ChoiceInv,
           NEW y \in SealEpochs, NEW w \in SealEpochs, w >= y, Proposed(w),
           NEW e \in mutators[y], Open(y, e), Proposed(y)
    PROVE  Outcome(w)[e] = Outcome(y)[e]
<1>1. y \in Nat /\ w \in Nat
  BY NumberFacts
<1>2. CASE w = y
  BY <1>2
<1>3. CASE y < w
  BY <1>3 DEF ChoiceInv, ChoiceOf
<1>4. QED
  BY <1>1, <1>2, <1>3

\* A sealed shard that makes e open for an earlier machine has its copy, and so
\* has the digest of that shard.
LEMMA VoteInDigest ==
    ASSUME TypeOK, DurabilityInv, DigestCopyInv, NEW z \in SealEpochs,
           NEW D \in SUBSET DOMAIN digest[z], Fmajority(D),
           NEW y \in SealEpochs, y < z, NEW e \in Slots, Open(y, e)
    PROVE  \E n \in D : Kept(digest[z][n][e], y)
<1>1. PICK c \in CopySets : \A n \in c : n \in stored[y][e] \/ seal[n] =< y
  BY DEF Open
<1>2. PICK n \in c : n \in D
  BY DEF Fmajority
<1>3. n \in Shards
  BY CopySetsAssumption
<1>4. seal[n] >= z
  BY <1>2 DEF DurabilityInv, SealedInv
<1>5. n \in stored[y][e]
  BY <1>1, <1>3, <1>4, NumberFacts
<1>6. QED
  BY <1>2, <1>5 DEF DigestCopyInv

\* The bridge records of a digest, by recoveries of at least the precedence of
\* what they are applied to.
LEMMA BridgeFrom ==
    ASSUME TypeOK, SealedInv, ProposalInv, DigestCopyInv, NEW z \in SealEpochs,
           NEW M \in SUBSET DOMAIN digest[z], NEW l, NEW e \in Slots,
           NEW b \in BridgesUpTo(digest[z], M, l, e)
    PROVE  /\ b \in Copy /\ b.recovery /\ b.wave \in SealEpochs /\ Proposed(b.wave)
           /\ \E k \in Slots : k =< e /\ settled[b.wave][k].bridge
<1>1. PICK n \in M, k \in Slots : k =< e /\ b = digest[z][n][k]
  BY DEF BridgesUpTo
<1>2. b.kind # "none" /\ b.bridge
  BY DEF BridgesUpTo
<1>3. b \in Copy /\ n \in DOMAIN digest[z]
  <2>1. IsDigest(digest[z])
    BY DEF TypeOK
  <2>2. QED
    BY <1>1, <2>1 DEF IsDigest
<1>4. Origin(b, n, k)
  BY <1>1, <1>3 DEF DigestCopyInv
<1>5. /\ b.recovery /\ b.wave \in SealEpochs /\ n \in stored[b.wave][k]
      /\ settled[b.wave][k].bridge
  BY <1>2, <1>4 DEF Origin
<1>6. Proposed(b.wave)
  BY <1>5, StoredProposed
<1>7. QED
  BY <1>1, <1>3, <1>5, <1>6

\* What was selected, when it is the copy of a recovery.
LEMMA EntryFrom ==
    ASSUME TypeOK, SealedInv, ProposalInv, DigestCopyInv, NEW z \in SealEpochs,
           NEW r \in Selections(digest[z]), NEW e \in Slots,
           r[e].kind # "none", r[e].recovery
    PROVE  /\ r[e].wave \in SealEpochs /\ Proposed(r[e].wave)
           /\ settled[r[e].wave][e].kind = r[e].kind
<1>1. PICK m \in DOMAIN digest[z] : Origin(r[e], m, e)
  BY EntryOrigin
<1>2. /\ r[e].wave \in SealEpochs /\ m \in stored[r[e].wave][e]
      /\ settled[r[e].wave][e].kind = r[e].kind
  BY <1>1 DEF Origin
<1>3. QED
  BY <1>2, StoredProposed

\* A machine that settles takes over what an earlier one may still get on a
\* copyset: the digest has a copy of it, newer copies of the ESN are the same,
\* and newer bridge records do not contradict it.
LEMMA CarriesChoice ==
    ASSUME TypeOK, DurabilityInv, LngSound, AgreementInv, NEW z \in SealEpochs,
           NEW D \in SUBSET DOMAIN digest[z], NEW M \in SUBSET D,
           NEW r \in Selections(digest[z]), Fmajority(D),
           NEW y \in SealEpochs, y < z, Proposed(y),
           NEW e \in mutators[y], Open(y, e)
    PROVE  AfterBridges(digest[z], M, lng[z], r)[e].kind = Outcome(y)[e]
<1> DEFINE a == AfterBridges(digest[z], M, lng[z], r)
<1>0. /\ e \in Slots /\ y \in Nat /\ IsDigest(digest[z])
      /\ r \in [Slots -> Copy] /\ r[e] \in Copy
      /\ M \in SUBSET DOMAIN digest[z]
      /\ SealedInv /\ ProposalInv /\ DigestCopyInv /\ ChoiceInv /\ ShapeInv
  BY NumberFacts, SelectionType DEF TypeOK, DurabilityInv, AgreementInv
<1>1. PICK n \in D : Kept(digest[z][n][e], y)
  BY <1>0, VoteInDigest
<1>2. Kept(r[e], y)
  BY <1>0, <1>1, SelectedKept
<1>3. /\ r[e].wave \in SealEpochs /\ Proposed(r[e].wave) /\ r[e].wave >= y
      /\ settled[r[e].wave][e].kind = r[e].kind /\ r[e].kind # "none"
      /\ r[e].recovery
  BY <1>0, <1>2, EntryFrom DEF Kept
<1>4. Outcome(r[e].wave)[e] = Outcome(y)[e]
  BY <1>0, <1>3, LaterProposal
<1>5. r[e].kind = Outcome(y)[e]
  BY <1>0, <1>3, <1>4, KindIsOutcome
<1>6. CASE a[e].kind = r[e].kind
  BY <1>5, <1>6
<1>7. CASE a[e].kind # r[e].kind
  <2>1. PICK b \in BridgesUpTo(digest[z], M, lng[z], e) : Precedes(r[e], b)
    BY <1>0, <1>7, AfterBridgesCases
  <2>2. a[e].kind = "hole"
    BY <1>0, <1>7, AfterBridgesCases
  <2>3. /\ b \in Copy /\ b.recovery /\ b.wave \in SealEpochs /\ Proposed(b.wave)
        /\ \E k \in Slots : k =< e /\ settled[b.wave][k].bridge
    BY <1>0, <2>1, BridgeFrom
  <2>4. r[e].wave < b.wave
    BY <1>0, <1>3, <2>1, <2>3, RecoveryPrecedes
  <2>5. Outcome(b.wave)[e] = "hole"
    <3>1. PICK k \in Slots : k =< e /\ settled[b.wave][k].bridge
      BY <2>3
    <3>2. EndsAt(Outcome(b.wave), k)
      BY <1>0, <2>3, <3>1 DEF ShapeInv, ShapeOf
    <3>3. QED
      BY <1>0, <3>1, <3>2, SlotFacts DEF EndsAt
  <2>6. b.wave >= y
    <3>1. r[e].wave \in Nat /\ b.wave \in Nat
      BY <1>3, <2>3, NumberFacts
    <3>2. QED
      BY <1>0, <1>3, <2>4, <3>1
  <2>7. Outcome(b.wave)[e] = Outcome(y)[e]
    BY <1>0, <2>3, <2>6, LaterProposal
  <2>8. QED
    BY <2>2, <2>5, <2>7
<1>8. QED
  BY <1>6, <1>7

LEMMA NewChoice ==
    ASSUME BridgeForEmptyEpoch, TypeOK, TypeOK', DurabilityInv, LngSound,
           AgreementInv, NEW z \in SealEpochs,
           NEW D \in SUBSET DOMAIN digest[z], NEW M \in SUBSET D,
           NEW r \in Selections(digest[z]), StartMutations(z, D, M, r),
           NEW y \in SealEpochs, y < z, Proposed(y),
           NEW e \in mutators[y], Open(y, e)
    PROVE  Outcome(z)'[e] = Outcome(y)[e]
<1> DEFINE a == AfterBridges(digest[z], M, lng[z], r)
<1>0. e \in Slots /\ Fmajority(D)
  BY StartFacts DEF TypeOK
<1>1. a[e].kind = Outcome(y)[e]
  BY <1>0, CarriesChoice
<1>2. Outcome(z)'[e] = "record" <=> e =< lng[z] \/ a[e].kind = "record"
  BY <1>0, NewProposal DEF DurabilityInv, AgreementInv
<1>3. e =< lng[z] => Outcome(y)[e] = "record"
  BY <1>0, BelowLng, ChoosableOutcome DEF DurabilityInv
<1>4. Outcome(y)[e] \in {"record", "hole"} /\ Outcome(z)'[e] \in {"record", "hole"}
  BY <1>0 DEF Outcome
<1>5. QED
  BY <1>1, <1>2, <1>3, <1>4

\* A proposal ends with its bridge record: what it leaves open is above.
LEMMA BridgeOf ==
    ASSUME TypeOK, DurabilityInv, ShapeInv, NEW y \in SealEpochs, Proposed(y),
           NEW e \in Slots, settled[y][e].kind = "none", ~(e =< lng[y])
    PROVE  /\ Outcome(y)[e] = "hole"
           /\ \E b \in Slots : b < e /\ settled[y][b].bridge
                            /\ settled[y][b].kind = "hole"
<1>0. e \in Nat /\ \A k \in Slots : k \in Nat /\ k # 0
  BY SlotFacts
<1>1. Outcome(y)[e] = "hole"
  BY DEF Outcome
<1>2. \A k \in Slots : k >= e => settled[y][k].kind = "none"
  BY DEF ShapeInv, ShapeOf
<1> DEFINE T == {k \in Slots : \A j \in Slots : j >= k => Outcome(y)[j] = "hole"}
<1>3. e \in T
  <2>1. \A j \in Slots : j >= e => ~(j =< lng[y])
    BY <1>0, NumberFacts
  <2>2. QED
    BY <1>2, <2>1 DEF Outcome
<1>4. PICK b \in T : \A x \in T : b =< x
  <2>1. T \subseteq Nat
    BY <1>0
  <2> HIDE DEF T
  <2>2. QED
    BY <1>3, <2>1, LeastNatural
<1>5. EndsAt(Outcome(y), b)
  <2>1. CASE b = 1
    BY <1>4, <2>1 DEF EndsAt
  <2>2. CASE b # 1
    <3>1. b \in Slots /\ b - 1 \in Slots /\ b \in Nat
      BY <1>0, <2>2, MaxEsnAssumption DEF Slots
    <3>2. b - 1 \notin T
      <4>1. ~(b =< b - 1)
        BY <3>1
      <4>2. QED
        BY <1>4, <4>1
    <3>3. PICK j \in Slots : j >= b - 1 /\ Outcome(y)[j] # "hole"
      BY <3>1, <3>2
    <3>4. j = b - 1
      BY <1>0, <1>4, <3>1, <3>3
    <3>5. Outcome(y)[b - 1] = "record"
      BY <3>1, <3>3, <3>4, OutcomeValues
    <3>6. QED
      BY <1>4, <3>5 DEF EndsAt
  <2>3. QED
    BY <2>1, <2>2
<1>6. b \in Slots /\ settled[y][b].bridge /\ settled[y][b].kind = "hole"
  BY <1>4, <1>5 DEF ShapeInv, ShapeOf
<1>7. b < e
  <2> HIDE DEF T
  <2>1. ~(b >= e)
    BY <1>2, <1>6
  <2>2. b \in Nat
    BY <1>0, <1>6
  <2>3. QED
    BY <1>0, <2>1, <2>2
<1>8. QED
  BY <1>1, <1>6, <1>7

\* The bridge record of an earlier machine, while it may still get on copysets
\* with all it settled, keeps what is above it out of later proposals.
LEMMA CarriesBridge ==
    ASSUME TypeOK, DurabilityInv, LngSound, AgreementInv, NEW z \in SealEpochs,
           NEW M \in SUBSET DOMAIN digest[z], Fmajority(M),
           NEW r \in Selections(digest[z]),
           NEW y \in SealEpochs, y < z, Proposed(y), AllMutated(y),
           \A k \in mutators[y] : Open(y, k),
           NEW e \in Slots, settled[y][e].kind = "none", ~(e =< lng[y])
    PROVE  AfterBridges(digest[z], M, lng[z], r)[e].kind # "record"
<1> DEFINE a == AfterBridges(digest[z], M, lng[z], r)
<1>0. /\ y \in Nat /\ IsDigest(digest[z]) /\ lng[z] \in Nat
      /\ r \in [Slots -> Copy] /\ r[e] \in Copy
      /\ SealedInv /\ ProposalInv /\ DigestCopyInv /\ ChoiceInv /\ ShapeInv
  BY NumberFacts, SelectionType DEF TypeOK, DurabilityInv, AgreementInv
<1>1. PICK b \in Slots : /\ b < e /\ settled[y][b].bridge
                         /\ settled[y][b].kind = "hole"
  BY <1>0, BridgeOf
<1>2. Outcome(y)[e] = "hole"
  BY <1>0, BridgeOf
<1>3. b \in mutators[y] /\ Open(y, b)
  BY <1>1 DEF AllMutated
<1>4. PICK n \in M : Kept(digest[z][n][b], y)
  BY <1>0, <1>3, VoteInDigest
<1> DEFINE c == digest[z][n][b]
<1>5. c \in Copy /\ n \in DOMAIN digest[z] /\ Origin(c, n, b)
  BY <1>0, <1>4 DEF IsDigest, DigestCopyInv
<1>6. /\ c.kind # "none" /\ c.recovery /\ c.wave >= y /\ c.wave \in SealEpochs
      /\ n \in stored[c.wave][b] /\ c.bridge = settled[c.wave][b].bridge
  BY <1>4, <1>5 DEF Kept, Origin
<1>7. \A w \in SealEpochs : Proposed(w) /\ w >= y => Outcome(w) = Outcome(y)
  <2> SUFFICES ASSUME NEW w \in SealEpochs, Proposed(w), w >= y
               PROVE  Outcome(w) = Outcome(y)
    OBVIOUS
  <2>1. w = y \/ y < w
    BY NumberFacts
  <2>2. QED
    BY <1>0, <2>1 DEF ChoiceInv, ChoiceOf
<1>8. Proposed(c.wave)
  BY <1>0, <1>6, StoredProposed
<1>9. c.bridge
  <2>1. EndsAt(Outcome(y), b)
    BY <1>0, <1>1 DEF ShapeInv, ShapeOf
  <2>2. EndsAt(Outcome(c.wave), b)
    BY <1>6, <1>7, <1>8, <2>1
  <2>3. settled[c.wave][b].bridge
    BY <1>0, <1>6, <1>8, <2>2 DEF ShapeInv, ShapeOf
  <2>4. QED
    BY <1>6, <2>3
<1>10. lng[z] =< b
  <2>1. CASE b =< lng[z]
    <3>1. b \in Esns /\ Choosable(b)
      BY <1>0, <2>1, BelowLng DEF DurabilityInv
    <3>2. QED
      BY <1>1, <3>1, ChoosableOutcome
  <2>2. CASE ~(b =< lng[z])
    BY <1>0, <2>2, SlotFacts
  <2>3. QED
    BY <2>1, <2>2
<1>11. c \in BridgesUpTo(digest[z], M, lng[z], e)
  <2>1. b =< e
    BY <1>1, SlotFacts
  <2>2. QED
    BY <1>4, <1>6, <1>9, <1>10, <2>1 DEF BridgesUpTo
<1> HIDE DEF c
<1>12. ASSUME a[e].kind = "record" PROVE FALSE
  <2>1. r[e].kind = "record" /\ ~Precedes(r[e], c)
    BY <1>0, <1>11, <1>12, AfterBridgesCases
  <2>2. r[e].recovery /\ ~(r[e].wave < c.wave)
    BY <1>0, <1>5, <1>6, <2>1, RecoveryPrecedes
  <2>3. /\ r[e].wave \in SealEpochs /\ Proposed(r[e].wave)
        /\ settled[r[e].wave][e].kind = "record"
    BY <1>0, <2>1, <2>2, EntryFrom
  <2>4. r[e].wave \in Nat /\ c.wave \in Nat
    BY <1>6, <2>3, NumberFacts
  <2>5. r[e].wave >= y
    BY <1>0, <1>6, <2>2, <2>4
  <2>6. Outcome(r[e].wave)[e] = "hole"
    BY <1>2, <1>7, <2>3, <2>5
  <2>7. QED
    BY <2>3, <2>6, KindIsOutcome
<1>13. QED
  BY <1>12

LEMMA NewChoiceOf ==
    ASSUME BridgeForEmptyEpoch, TypeOK, TypeOK', DurabilityInv, LngSound,
           AgreementInv, Growth, NEW z \in SealEpochs,
           NEW D \in SUBSET DOMAIN digest[z], NEW M \in SUBSET D,
           NEW r \in Selections(digest[z]), StartMutations(z, D, M, r),
           Fmajority(M), NEW y \in SealEpochs, y < z, Proposed(y)
    PROVE  ChoiceOf(y, z)'
<1>1. /\ settled'[y] = settled[y] /\ mutators'[y] = mutators[y]
      /\ Outcome(y)' = Outcome(y)
  BY DEF Growth
<1>2. \A e \in mutators[y] : Open(y, e)' => Open(y, e)
  BY OpenShrinks DEF TypeOK
<1>3. AllMutated(y)' <=> AllMutated(y)
  BY <1>1 DEF AllMutated
<1>4. \A e \in mutators[y] : Open(y, e) => Outcome(z)'[e] = Outcome(y)[e]
  BY NewChoice
<1>5. ASSUME AllMutated(y), \A e \in mutators[y] : Open(y, e)
      PROVE  Outcome(z)' = Outcome(y)
  <2>1. ASSUME NEW e \in Slots PROVE Outcome(z)'[e] = Outcome(y)[e]
    <3>1. CASE settled[y][e].kind # "none"
      BY <1>4, <1>5, <3>1 DEF AllMutated
    <3>2. CASE settled[y][e].kind = "none" /\ e =< lng[y]
      <4>1. e \in Esns /\ Choosable(e)
        BY <3>2, BelowLng DEF DurabilityInv
      <4>2. Outcome(y)[e] = "record"
        BY <4>1, ChoosableOutcome
      <4>3. LET plan == Settled(AfterBridges(digest[z], M, lng[z], r), lng[z])
            IN  /\ Harmless(plan, e)
                /\ plan[e].kind = "none" => e =< lng[z]
        BY <4>1, SettlesRecord, StartFacts
      <4>4. settled'[z][e].kind # "hole" /\ (settled'[z][e].kind = "none" => e =< lng[z])
        BY <4>3, StartSettled DEF Harmless, Planned
      <4>5. settled'[z][e].kind \in Kinds /\ lng'[z] = lng[z]
        <5>1. settled'[z][e].kind \in Kinds
          BY DEF TypeOK
        <5>2. QED
          BY <5>1, StartFacts
      <4>6. Outcome(z)'[e] = "record"
        BY <4>4, <4>5 DEF Outcome, Kinds
      <4>7. QED
        BY <4>2, <4>6
    <3>3. CASE settled[y][e].kind = "none" /\ ~(e =< lng[y])
      <4>1. AfterBridges(digest[z], M, lng[z], r)[e].kind # "record"
        BY <1>5, <3>3, CarriesBridge
      <4>2. Outcome(y)[e] = "hole"
        BY <3>3, BridgeOf DEF AgreementInv
      <4>3. ~(e =< lng[z])
        BY <4>2, BelowLng, ChoosableOutcome DEF DurabilityInv
      <4>4. Outcome(z)'[e] # "record"
        BY <4>1, <4>3, NewProposal DEF DurabilityInv, AgreementInv
      <4>5. Outcome(z)'[e] \in {"record", "hole"}
        BY DEF Outcome
      <4>6. QED
        BY <4>2, <4>4, <4>5
    <3>4. QED
      BY <3>1, <3>2, <3>3
  <2>2. QED
    BY <2>1 DEF Outcome
<1>6. QED
  BY <1>1, <1>2, <1>3, <1>4, <1>5 DEF ChoiceOf

\* The digest is complete, there are no conflicting copies of ESN e, and a
\* copyset holds what the machine has settled for it.
LeftAsFoundFacts(z, D, M, r, e) ==
    LET p == Planned(digest[z], M, lng[z], r)[e]
    IN  /\ D = Shards
        /\ ConflictCopies(digest[z], M, e, p, z) = {}
        /\ \E c \in CopySets : /\ c # {} /\ c \subseteq M
                               /\ \A n \in c : digest[z][n][e] = p

\* Nothing that the machine leaves as it is lacks a copyset that holds it.
LEMMA LeftAsFound ==
    ASSUME TypeOK, ProposalInv, DigestCopyInv, NEW z \in SealEpochs,
           NEW D \in SUBSET DOMAIN digest[z], NEW M \in SUBSET D,
           NEW r \in Selections(digest[z]), StartMutations(z, D, M, r),
           NEW e \in Slots, settled'[z][e].kind # "none", e \notin mutators'[z]
    PROVE  LeftAsFoundFacts(z, D, M, r, e)
<1> DEFINE d == digest[z]
           p == Planned(d, M, lng[z], r)[e]
<1>1. p.kind # "none"
  BY StartSettled
<1>2. ~NeedsMutation(d, M, e, p, z, D = Shards)
  BY <1>1, StartMutators
<1>3. {} \notin CopySets
  <2>1. Fmajority(D)
    BY StartFacts
  <2>2. QED
    BY <2>1 DEF Fmajority
<1>4. CASE D # Shards
  <2>1. CanReplicate(SuccessfullyStored(d, M, e, p, z))
    BY <1>2, <1>4 DEF NeedsMutation
  <2>2. PICK c \in CopySets : c \subseteq SuccessfullyStored(d, M, e, p, z)
    BY <2>1 DEF CanReplicate
  <2>3. PICK n \in c : TRUE
    BY <1>3
  <2>4. n \in DOMAIN d /\ d[n][e].kind # "none" /\ d[n][e].recovery /\ d[n][e].wave = z
    BY <2>2, <2>3 DEF SuccessfullyStored, Senders
  <2>5. n \in stored[z][e]
    BY <2>4 DEF DigestCopyInv, Origin
  <2>6. stored[z] = NoShards
    BY StartFacts DEF ProposalInv
  <2>7. QED
    BY <2>5, <2>6 DEF NoShards
<1>5. CASE D = Shards
  <2>1. CanReplicate({n \in M \cap Senders(d, e) : d[n][e] = p})
    BY <1>2, <1>5 DEF NeedsMutation
  <2>2. PICK c \in CopySets : c \subseteq {n \in M \cap Senders(d, e) : d[n][e] = p}
    BY <2>1 DEF CanReplicate
  <2>3. ConflictCopies(d, M, e, p, z) = {}
    BY <1>2 DEF NeedsMutation
  <2>4. c # {} /\ c \subseteq M /\ \A n \in c : d[n][e] = p
    BY <1>3, <2>2
  <2>5. QED
    BY <1>5, <2>3, <2>4 DEF LeftAsFoundFacts
<1>6. QED
  BY <1>4, <1>5

LEMMA LeftComplete ==
    ASSUME TypeOK, ProposalInv, DigestCopyInv, NEW z \in SealEpochs,
           NEW D \in SUBSET DOMAIN digest[z], NEW M \in SUBSET D,
           NEW r \in Selections(digest[z]), StartMutations(z, D, M, r),
           NEW e \in Slots, settled'[z][e].kind # "none", e \notin mutators'[z]
    PROVE  D = Shards
<1>1. LeftAsFoundFacts(z, D, M, r, e)
  BY LeftAsFound
<1>2. QED
  BY <1>1 DEF LeftAsFoundFacts

LEMMA NewElsewhere ==
    ASSUME TypeOK, SealedInv, ProposalInv, DigestCopyInv, Growth,
           NEW z \in SealEpochs,
           NEW D \in SUBSET DOMAIN digest[z], NEW M \in SUBSET D,
           NEW r \in Selections(digest[z]), StartMutations(z, D, M, r),
           NEW e \in Slots, settled'[z][e].kind # "none", e \notin mutators'[z]
    PROVE  Elsewhere(z, e)'
<1> DEFINE d == digest[z]
           p == Planned(d, M, lng[z], r)[e]
<1>1. PICK c \in CopySets : c # {} /\ c \subseteq M /\ \A n \in c : d[n][e] = p
  <2>1. LeftAsFoundFacts(z, D, M, r, e)
    BY LeftAsFound
  <2>2. QED
    BY <2>1 DEF LeftAsFoundFacts
<1>2. PICK m \in c : TRUE
  BY <1>1
<1>3. settled'[z][e].kind = p.kind /\ p.kind # "none"
  BY StartSettled
<1>4. \A n \in c : Origin(p, n, e)
  BY <1>1 DEF DigestCopyInv
<1> HIDE DEF p
<1>5. UNCHANGED <<copies, stored>>
  BY StartFacts
<1>6. CASE p.recovery
  <2>1. /\ p.wave \in SealEpochs /\ c \subseteq stored[p.wave][e]
        /\ settled[p.wave][e].kind = p.kind
    BY <1>2, <1>3, <1>4, <1>6 DEF Origin
  <2>2. Proposed(p.wave)
    BY <1>3, <2>1 DEF Proposed
  <2>3. settled'[p.wave] = settled[p.wave]
    BY <2>1, <2>2 DEF Growth
  <2>4. QED
    BY <1>3, <1>5, <2>1, <2>3 DEF Elsewhere
<1>7. CASE ~p.recovery
  <2>1. e \in Esns /\ c \subseteq copies[e] /\ p.kind = "record"
    BY <1>2, <1>3, <1>4, <1>7 DEF Origin
  <2>2. QED
    BY <1>3, <1>5, <2>1 DEF Elsewhere
<1>8. QED
  BY <1>6, <1>7

\* What is not settled no shard has sent.
LEMMA NothingSent ==
    ASSUME BridgeForEmptyEpoch, TypeOK, TypeOK', AckedInv, LngSound,
           DigestCopyInv, ShapeInv, NEW z \in SealEpochs,
           NEW D \in SUBSET DOMAIN digest[z], NEW M \in SUBSET D,
           NEW r \in Selections(digest[z]), StartMutations(z, D, M, r),
           NEW e \in Slots, settled'[z][e].kind = "none", ~(e =< lng[z])
    PROVE  \A n \in DOMAIN digest[z] : digest[z][n][e].kind = "none"
<1>0. r \in [Slots -> Copy] /\ IsDigest(digest[z])
  BY SelectionType DEF TypeOK
<1>1. AfterBridges(digest[z], M, lng[z], r)[e].kind = "none"
  BY NewProposal
<1>2. r[e].kind = "none"
  BY <1>0, <1>1, AfterBridgesCases
<1>3. QED
  BY <1>0, <1>2, SelectedFrom

LEMMA NewPlan ==
    ASSUME BridgeForEmptyEpoch, TypeOK, TypeOK', DurabilityInv, LngSound,
           AgreementInv, Growth, NEW z \in SealEpochs,
           NEW D \in SUBSET DOMAIN digest[z], NEW M \in SUBSET D,
           NEW r \in Selections(digest[z]), StartMutations(z, D, M, r)
    PROVE  PlanOf(z)'
<1>0. SealedInv /\ AckedInv /\ ProposalInv /\ DigestCopyInv /\ ShapeInv
  BY DEF DurabilityInv, AgreementInv
<1>1. \A e \in Slots : settled'[z][e].kind # "none" =>
            e \in mutators'[z] \/ Elsewhere(z, e)'
  BY <1>0, NewElsewhere
<1>2. ASSUME ~AllMutated(z)' PROVE NothingAbove(z)'
  <2>1. PICK k \in Slots : settled'[z][k].kind # "none" /\ k \notin mutators'[z]
    BY <1>2 DEF AllMutated
  <2>2. D = Shards
    BY <1>0, <2>1, LeftComplete
  <2>3. UNCHANGED <<seal, copies, lng>>
    BY StartFacts
  <2>4. DOMAIN digest[z] = Shards
    BY <2>2 DEF TypeOK, IsDigest
  <2>5. \A n \in Shards : seal[n] >= Epoch
    <3>1. \A n \in Shards : seal[n] >= z
      BY <1>0, <2>4 DEF SealedInv
    <3>2. QED
      BY <3>1, NumberFacts
  <2>6. ASSUME NEW e \in Esns, settled'[z][e].kind = "none", lng[z] < e
        PROVE  copies[e] = {}
    <3>1. e \in Slots /\ ~(e =< lng[z])
      BY <2>6, SlotFacts, NumberFacts
    <3>2. \A n \in Shards : digest[z][n][e].kind = "none"
      BY <1>0, <2>4, <2>6, <3>1, NothingSent
    <3>3. copies[e] \subseteq Shards
      BY DEF TypeOK
    <3>4. QED
      BY <1>0, <2>4, <3>1, <3>2, <3>3 DEF DigestCopyInv
  <2>7. QED
    BY <2>3, <2>5, <2>6 DEF NothingAbove
<1>3. QED
  BY <1>1, <1>2 DEF PlanOf

\* Machine z has settled after a later one, which has sealed an f-majority
\* above it: nothing is open for z.
LEMMA NothingOpen ==
    ASSUME TypeOK, TypeOK', AgreementInv, NEW z \in SealEpochs,
           NEW D \in SUBSET DOMAIN digest[z], NEW M \in SUBSET D,
           NEW r \in Selections(digest[z]), StartMutations(z, D, M, r),
           NEW w \in SealEpochs, z < w, Proposed(w), NEW e \in Slots
    PROVE  ~Open(z, e)'
<1>1. SUFFICES ASSUME Open(z, e)' PROVE FALSE
  OBVIOUS
<1>2. UNCHANGED <<seal, stored>> /\ phase[z] = "DIGEST"
  BY StartFacts
<1>3. stored[z][e] = {}
  BY <1>2 DEF AgreementInv, ProposalInv, NoShards
<1>4. PICK c \in CopySets : \A n \in c : n \in stored'[z][e] \/ seal'[n] =< z
  BY <1>1 DEF Open
<1>5. \A n \in c : n \in Shards /\ seal[n] =< z
  BY <1>2, <1>3, <1>4, CopySetsAssumption
<1>6. Fmajority({n \in Shards : seal[n] >= w})
  BY DEF AgreementInv, ProposalInv
<1>7. PICK n \in c : n \in Shards /\ seal[n] >= w
  BY <1>6 DEF Fmajority
<1>8. QED
  BY <1>5, <1>7, NumberFacts

-----------------------------------------------------------------------------
(* One lemma per kind of step.                                             *)

LEMMA AgreementInit == Init => AgreementInv
<1> SUFFICES ASSUME Init PROVE AgreementInv
  OBVIOUS
<1>1. \A s \in SealEpochs : ~Proposed(s)
  BY DEF Init, MachinesInit, Proposed, NoChange
<1>2. ProposalInv
  <2>1. \A s \in SealEpochs : phase[s] \notin Settling /\ phase[s] \notin Finished
    BY DEF Init, MachinesInit, Settling, Finished
  <2>2. \A s \in SealEpochs : mutators[s] = {} /\ stored[s] = NoShards
    BY DEF Init, MachinesInit
  <2>3. \A e \in Slots : NoShards[e] = {}
    BY DEF NoShards
  <2>4. QED
    BY <1>1, <2>1, <2>2, <2>3 DEF ProposalInv
<1>3. CopyInv
  <2>1. \A n \in Shards, e \in Slots : store[n][e] = NoCopy
    BY DEF Init, EmptyShard
  <2>2. \A s \in SealEpochs, e \in Slots : stored[s][e] = {}
    BY DEF Init, MachinesInit, NoShards
  <2>3. \A e \in Esns : copies[e] = {}
    BY DEF Init
  <2>4. QED
    BY <2>1, <2>2, <2>3 DEF CopyInv, Origin, NoCopy
<1>4. DigestCopyInv
  BY DEF Init, MachinesInit, DigestCopyInv, NoDigest
<1>5. ShapeInv /\ PlanInv
  BY <1>1 DEF ShapeInv, PlanInv, ShapeOf, PlanOf, Proposed
<1>6. ChoiceInv
  BY <1>1 DEF ChoiceInv, ChoiceOf
<1>7. QED
  BY <1>2, <1>3, <1>4, <1>5, <1>6 DEF AgreementInv

\* A step in which no machine settles.
LEMMA NoNewProposal ==
    ASSUME TypeOK, TypeOK', AgreementInv, Growth,
           \A t \in SealEpochs : Proposed(t)' => Proposed(t)
    PROVE  ShapeInv' /\ PlanInv' /\ ChoiceInv'
<1>1. ASSUME NEW s \in SealEpochs PROVE ShapeOf(s)' /\ PlanOf(s)'
  <2>1. CASE Proposed(s)
    BY <2>1, ShapeKept, PlanKept DEF AgreementInv, ShapeInv, PlanInv
  <2>2. CASE ~Proposed(s)
    BY <2>2, Unproposed
  <2>3. QED
    BY <2>1, <2>2
<1>2. ASSUME NEW y \in SealEpochs, NEW z \in SealEpochs, y < z
      PROVE  ChoiceOf(y, z)'
  <2>1. CASE Proposed(y) /\ Proposed(z)
    BY <1>2, <2>1, ChoiceKept DEF AgreementInv, ChoiceInv
  <2>2. CASE ~(Proposed(y) /\ Proposed(z))
    BY <2>2 DEF ChoiceOf
  <2>3. QED
    BY <2>1, <2>2
<1>3. QED
  BY <1>1, <1>2 DEF ShapeInv, PlanInv, ChoiceInv

\* The proposals of a step that starts no mutations and stores no copies.
LEMMA ProposalKept ==
    ASSUME TypeOK, TypeOK', AgreementInv, Growth,
           UNCHANGED <<settled, mutators>>,
           \A t \in SealEpochs :
                /\ phase'[t] \in {"SEAL", "DIGEST"} =>
                        phase[t] \in {"SEAL", "DIGEST"} /\ stored'[t] = stored[t]
                /\ phase'[t] \in Settling => phase[t] \in Settling
                /\ phase'[t] \in Finished => phase[t] \in Finished \/ Decided(t),
           \A t \in SealEpochs, e \in Slots :
                stored'[t][e] # {} => e \in mutators[t]
    PROVE  /\ ProposalInv'
           /\ \A t \in SealEpochs : Proposed(t)' <=> Proposed(t)
<1>1. \A t \in SealEpochs : Proposed(t)' <=> Proposed(t)
  BY DEF Proposed
<1>2. ASSUME NEW t \in SealEpochs, Proposed(t)
      PROVE  {} \notin CopySets /\ Fmajority({n \in Shards : seal'[n] >= t})
  <2>1. {} \notin CopySets /\ Fmajority({n \in Shards : seal[n] >= t})
    BY <1>2 DEF AgreementInv, ProposalInv
  <2>2. \A n \in Shards : seal[n] \in Nat /\ seal'[n] \in Nat /\ seal[n] =< seal'[n]
    BY DEF Growth, TypeOK
  <2>3. {n \in Shards : seal[n] >= t} \subseteq {n \in Shards : seal'[n] >= t}
    BY <2>2, NumberFacts
  <2>4. QED
    BY <2>1, <2>3 DEF Fmajority
<1>3. \A t \in SealEpochs : phase'[t] \in Finished => Decided(t)'
  BY DecidedKept DEF AgreementInv, ProposalInv
<1>4. QED
  BY <1>1, <1>2, <1>3 DEF AgreementInv, ProposalInv

\* Steps of seals, replies, preemptions and phases.
LEMMA QuietAgreement ==
    ASSUME TypeOK, TypeOK', DurabilityInv, AgreementInv, Growth,
           UNCHANGED <<copies, store, settled, mutators, stored>>,
           \A t \in SealEpochs :
                /\ digest'[t] = digest[t] \/ digest'[t] = NoDigest
                /\ phase'[t] \in {"SEAL", "DIGEST"} => phase[t] \in {"SEAL", "DIGEST"}
                /\ phase'[t] \in Settling => phase[t] \in Settling
                /\ phase'[t] \in Finished => phase[t] \in Finished \/ Decided(t)
    PROVE  AgreementInv'
<1>0. /\ SealedInv /\ ProposalInv /\ CopyInv /\ DigestCopyInv
      /\ \A n \in Shards : seal[n] \in Nat /\ seal'[n] \in Nat /\ seal[n] =< seal'[n]
  BY DEF DurabilityInv, AgreementInv, Growth, TypeOK
<1>1. ProposalInv' /\ \A t \in SealEpochs : Proposed(t)' <=> Proposed(t)
  <2>1. \A t \in SealEpochs, e \in Slots : stored'[t][e] # {} => e \in mutators[t]
    BY <1>0 DEF ProposalInv
  <2>2. QED
    BY <2>1, ProposalKept
<1>2. CopyInv'
  <2> SUFFICES ASSUME NEW n \in Shards, NEW e \in Slots
               PROVE  /\ Origin(store[n][e], n, e)'
                      /\ \A s \in SealEpochs : n \in stored[s][e] =>
                            Kept(store[n][e], s) /\ seal'[n] >= s
                      /\ e \in Esns /\ n \in copies[e] => store[n][e].kind # "none"
    BY DEF CopyInv, Kept
  <2>1. /\ Origin(store[n][e], n, e)
        /\ \A s \in SealEpochs : n \in stored[s][e] =>
                Kept(store[n][e], s) /\ seal[n] >= s
        /\ e \in Esns /\ n \in copies[e] => store[n][e].kind # "none"
    BY <1>0 DEF CopyInv
  <2>2. Origin(store[n][e], n, e)'
    BY <2>1 DEF Origin
  <2>3. \A s \in SealEpochs : seal[n] >= s => seal'[n] >= s
    BY <1>0, NumberFacts
  <2>4. QED
    BY <2>1, <2>2, <2>3
<1>3. DigestCopyInv'
  <2> SUFFICES ASSUME NEW t \in SealEpochs, NEW n \in DOMAIN digest'[t],
                      NEW e \in Slots
               PROVE  /\ Origin(digest[t][n][e], n, e)'
                      /\ \A s \in SealEpochs : s < t /\ n \in stored[s][e] =>
                            Kept(digest'[t][n][e], s)
                      /\ e \in Esns /\ n \in copies[e] =>
                            digest'[t][n][e].kind # "none"
    BY DEF DigestCopyInv, Kept
  <2>1. digest'[t] = digest[t]
    BY DEF NoDigest
  <2>2. /\ Origin(digest[t][n][e], n, e)
        /\ \A s \in SealEpochs : s < t /\ n \in stored[s][e] =>
                Kept(digest[t][n][e], s)
        /\ e \in Esns /\ n \in copies[e] => digest[t][n][e].kind # "none"
    BY <1>0, <2>1 DEF DigestCopyInv
  <2>3. QED
    BY <2>1, <2>2 DEF Origin
<1>4. ShapeInv' /\ PlanInv' /\ ChoiceInv'
  BY <1>1, NoNewProposal
<1>5. QED
  BY <1>1, <1>2, <1>3, <1>4 DEF AgreementInv

\* A shard that takes a STORE of an Appender is not sealed, so no machine has
\* digested it or stored on it.
LEMMA StoreAgreement ==
    ASSUME TypeOK, TypeOK', DurabilityInv, AgreementInv, Growth,
           NEW e \in Esns, NEW n \in Shards, NEW l \in 0 .. MaxEsn,
           StoreRecord(e, n, l)
    PROVE  AgreementInv'
<1>0. /\ SealedInv /\ ProposalInv /\ CopyInv /\ DigestCopyInv
      /\ e \in Slots
  BY SlotFacts DEF DurabilityInv, AgreementInv
<1>1. /\ UNCHANGED <<phase, seal, digest, settled, mutators, stored>>
      /\ seal[n] < Epoch /\ seal[n] \in Nat
      /\ \A k \in Esns : copies'[k] =
            IF k = e THEN copies[k] \cup {n} ELSE copies[k]
  <2>1. /\ copies' = [copies EXCEPT ![e] = @ \cup {n}]
        /\ UNCHANGED <<phase, seal, digest, settled, mutators, stored>>
        /\ seal[n] < Epoch
    BY NumberFacts DEF StoreRecord, AcceptsAppends, machineVars
  <2>2. QED
    BY <2>1, NumberFacts DEF TypeOK
<1>2. /\ store'[n][e] = [kind |-> "record", bridge |-> FALSE,
                          recovery |-> FALSE, wave |-> 1]
      /\ \A m \in Shards, k \in Slots :
            m # n \/ k # e => store'[m][k] = store[m][k]
  <2>1. store \in [Shards -> [Slots -> Copy]]
    BY DEF TypeOK
  <2>2. store' = [store EXCEPT ![n][e] = [kind |-> "record", bridge |-> FALSE,
                                          recovery |-> FALSE, wave |-> 1]]
    BY DEF StoreRecord
  <2>3. QED
    BY <2>1, <2>2, <1>0, Zenon
<1>3. \A s \in SealEpochs, k \in Slots : n \notin stored[s][k]
  BY <1>0, <1>1, NumberFacts DEF CopyInv
<1>4. \A s \in SealEpochs : n \notin DOMAIN digest[s]
  BY <1>0, <1>1, NumberFacts DEF SealedInv
<1>5. ProposalInv' /\ \A t \in SealEpochs : Proposed(t)' <=> Proposed(t)
  <2>1. \A t \in SealEpochs, k \in Slots : stored'[t][k] # {} => k \in mutators[t]
    BY <1>0, <1>1 DEF ProposalInv
  <2>2. QED
    BY <1>1, <2>1, ProposalKept
<1>6. CopyInv'
  <2> SUFFICES ASSUME NEW m \in Shards, NEW k \in Slots
               PROVE  /\ Origin(store[m][k], m, k)'
                      /\ \A s \in SealEpochs : m \in stored[s][k] =>
                            Kept(store'[m][k], s) /\ seal[m] >= s
                      /\ k \in Esns /\ m \in copies'[k] => store'[m][k].kind # "none"
    BY <1>1 DEF CopyInv, Kept
  <2>1. CASE m = n /\ k = e
    <3>1. /\ store'[m][k].kind = "record" /\ ~store'[m][k].bridge
          /\ ~store'[m][k].recovery
      BY <1>2, <2>1
    <3>2. m \in copies'[k] /\ k \in Esns
      BY <1>1, <2>1
    <3>3. Origin(store[m][k], m, k)'
      BY <3>1, <3>2 DEF Origin
    <3>4. QED
      BY <1>3, <2>1, <3>1, <3>3
  <2>2. CASE ~(m = n /\ k = e)
    <3>1. /\ Origin(store[m][k], m, k)
          /\ \A s \in SealEpochs : m \in stored[s][k] =>
                    Kept(store[m][k], s) /\ seal[m] >= s
          /\ k \in Esns /\ m \in copies[k] => store[m][k].kind # "none"
      BY <1>0 DEF CopyInv
    <3>2. store'[m][k] = store[m][k]
      BY <1>2, <2>2
    <3>3. k \in Esns => (m \in copies'[k] <=> m \in copies[k])
      BY <1>1, <2>2
    <3>4. Origin(store[m][k], m, k)'
      BY <1>1, <3>1, <3>2, <3>3 DEF Origin
    <3>5. QED
      BY <3>1, <3>2, <3>3, <3>4
  <2>3. QED
    BY <2>1, <2>2
<1>7. DigestCopyInv'
  <2> SUFFICES ASSUME NEW t \in SealEpochs, NEW m \in DOMAIN digest[t],
                      NEW k \in Slots
               PROVE  /\ Origin(digest[t][m][k], m, k)'
                      /\ \A s \in SealEpochs : s < t /\ m \in stored[s][k] =>
                            Kept(digest[t][m][k], s)
                      /\ k \in Esns /\ m \in copies'[k] =>
                            digest[t][m][k].kind # "none"
    BY <1>1 DEF DigestCopyInv, Kept
  <2>1. /\ Origin(digest[t][m][k], m, k)
        /\ \A s \in SealEpochs : s < t /\ m \in stored[s][k] =>
                Kept(digest[t][m][k], s)
        /\ k \in Esns /\ m \in copies[k] => digest[t][m][k].kind # "none"
    BY <1>0 DEF DigestCopyInv
  <2>2. k \in Esns => (m \in copies'[k] <=> m \in copies[k])
    BY <1>1, <1>4
  <2>3. QED
    BY <1>1, <2>1, <2>2 DEF Origin
<1>8. ShapeInv' /\ PlanInv' /\ ChoiceInv'
  BY <1>5, NoNewProposal
<1>9. QED
  BY <1>5, <1>6, <1>7, <1>8 DEF AgreementInv

\* A digest takes over what is known about the copies on the shard.
LEMMA DigestAgreement ==
    ASSUME TypeOK, TypeOK', DurabilityInv, AgreementInv, Growth,
           NEW s \in SealEpochs, NEW n \in Shards, DigestShard(s, n)
    PROVE  AgreementInv'
<1>0. /\ SealedInv /\ ProposalInv /\ CopyInv /\ DigestCopyInv
  BY DEF DurabilityInv, AgreementInv
<1>1. /\ UNCHANGED <<copies, seal, store, phase, settled, mutators, stored>>
      /\ \A t \in SealEpochs : t # s => digest'[t] = digest[t]
      /\ DOMAIN digest'[s] = DOMAIN digest[s] \cup {n}
      /\ \A m \in DOMAIN digest'[s] :
            digest'[s][m] = IF m = n THEN store[n] ELSE digest[s][m]
  <2>1. /\ digest = [t \in SealEpochs |-> digest[t]]
        /\ digest' = [digest EXCEPT ![s] =
                        [m \in DOMAIN @ \cup {n} |->
                            IF m = n THEN store[n] ELSE @[m]]]
        /\ UNCHANGED <<copies, seal, store, phase, settled, mutators, stored>>
    BY DEF DigestShard, TypeOK, seqVars, shardVars
  <2>2. digest'[s] = [m \in DOMAIN digest[s] \cup {n} |->
                            IF m = n THEN store[n] ELSE digest[s][m]]
    BY <2>1
  <2>3. \A t \in SealEpochs : t # s => digest'[t] = digest[t]
    BY <2>1
  <2>4. QED
    BY <2>1, <2>2, <2>3
<1>2. ProposalInv' /\ \A t \in SealEpochs : Proposed(t)' <=> Proposed(t)
  <2>1. \A t \in SealEpochs, k \in Slots : stored'[t][k] # {} => k \in mutators[t]
    BY <1>0, <1>1 DEF ProposalInv
  <2>2. QED
    BY <1>1, <2>1, ProposalKept
<1>3. CopyInv'
  BY <1>0, <1>1 DEF CopyInv, Origin, Kept
<1>4. DigestCopyInv'
  <2> SUFFICES ASSUME NEW t \in SealEpochs, NEW m \in DOMAIN digest'[t],
                      NEW k \in Slots
               PROVE  /\ Origin(digest[t][m][k], m, k)'
                      /\ \A u \in SealEpochs : u < t /\ m \in stored[u][k] =>
                            Kept(digest'[t][m][k], u)
                      /\ k \in Esns /\ m \in copies[k] =>
                            digest'[t][m][k].kind # "none"
    BY <1>1 DEF DigestCopyInv, Kept
  <2>1. CASE t = s /\ m = n
    <3>1. digest'[t][m][k] = store[n][k]
      BY <1>1, <2>1
    <3>2. /\ Origin(store[n][k], n, k)
          /\ \A u \in SealEpochs : n \in stored[u][k] => Kept(store[n][k], u)
          /\ k \in Esns /\ n \in copies[k] => store[n][k].kind # "none"
      BY <1>0 DEF CopyInv
    <3>3. QED
      BY <1>1, <2>1, <3>1, <3>2 DEF Origin
  <2>2. CASE ~(t = s /\ m = n)
    <3>1. digest'[t][m] = digest[t][m] /\ m \in DOMAIN digest[t]
      BY <1>1, <2>2
    <3>2. /\ Origin(digest[t][m][k], m, k)
          /\ \A u \in SealEpochs : u < t /\ m \in stored[u][k] =>
                Kept(digest[t][m][k], u)
          /\ k \in Esns /\ m \in copies[k] => digest[t][m][k].kind # "none"
      BY <1>0, <3>1 DEF DigestCopyInv
    <3>3. QED
      BY <1>1, <3>1, <3>2 DEF Origin
  <2>3. QED
    BY <2>1, <2>2
<1>5. ShapeInv' /\ PlanInv' /\ ChoiceInv'
  BY <1>2, NoNewProposal
<1>6. QED
  BY <1>2, <1>3, <1>4, <1>5 DEF AgreementInv

\* A shard that takes a STORE of machine s is sealed by s: no later machine has
\* digested it or stored on it.
LEMMA MutateAgreement ==
    ASSUME TypeOK, TypeOK', DurabilityInv, PrecedenceInv, AgreementInv, Growth,
           NEW s \in SealEpochs, NEW e \in Slots, NEW n \in Shards,
           MutateShard(s, e, n)
    PROVE  AgreementInv'
<1>0. /\ SealedInv /\ ProposalInv /\ CopyInv /\ DigestCopyInv
  BY DEF DurabilityInv, AgreementInv
<1>1. /\ UNCHANGED <<copies, seal, digest, phase, settled, mutators>>
      /\ phase[s] = "MUTATION" /\ e \in mutators[s] /\ n \in mutationSet[s]
      /\ seal[n] =< s
  BY DEF MutateShard, NotPreempted, seqVars
<1>2. seal[n] = s
  BY <1>1, NumberFacts DEF PrecedenceInv
<1>3. /\ store'[n][e] = [kind |-> settled[s][e].kind,
                          bridge |-> settled[s][e].bridge,
                          recovery |-> TRUE, wave |-> s]
      /\ \A m \in Shards, k \in Slots :
            m # n \/ k # e => store'[m][k] = store[m][k]
  <2>1. store \in [Shards -> [Slots -> Copy]]
    BY DEF TypeOK
  <2>2. store' = [store EXCEPT ![n][e] =
                    [kind |-> settled[s][e].kind,
                     bridge |-> settled[s][e].bridge,
                     recovery |-> TRUE, wave |-> s]]
    BY DEF MutateShard
  <2>3. QED
    BY <2>1, <2>2, Zenon
<1>4. /\ stored'[s][e] = stored[s][e] \cup {n}
      /\ \A t \in SealEpochs, k \in Slots :
            t # s \/ k # e => stored'[t][k] = stored[t][k]
  <2>1. stored \in [SealEpochs -> [Slots -> SUBSET Shards]]
    BY DEF TypeOK
  <2>2. stored' = [stored EXCEPT ![s][e] = @ \cup {n}]
    BY DEF MutateShard
  <2>3. QED
    BY <2>1, <2>2, Zenon
<1>5. settled[s][e].kind # "none"
  BY <1>0, <1>1 DEF SealedInv
<1>6. ProposalInv' /\ \A t \in SealEpochs : Proposed(t)' <=> Proposed(t)
  <2>1. \A t \in SealEpochs, k \in Slots : stored'[t][k] # {} => k \in mutators[t]
    BY <1>0, <1>1, <1>4 DEF ProposalInv
  <2>2. \A t \in SealEpochs : t # s => stored'[t] = stored[t]
    BY DEF MutateShard, TypeOK
  <2>3. QED
    BY <1>1, <2>1, <2>2, ProposalKept
<1>7. CopyInv'
  <2> SUFFICES ASSUME NEW m \in Shards, NEW k \in Slots
               PROVE  /\ Origin(store[m][k], m, k)'
                      /\ \A u \in SealEpochs : m \in stored'[u][k] =>
                            Kept(store'[m][k], u) /\ seal[m] >= u
                      /\ k \in Esns /\ m \in copies[k] => store'[m][k].kind # "none"
    BY <1>1 DEF CopyInv, Kept
  <2>1. /\ Origin(store[m][k], m, k)
        /\ \A u \in SealEpochs : m \in stored[u][k] =>
                Kept(store[m][k], u) /\ seal[m] >= u
        /\ k \in Esns /\ m \in copies[k] => store[m][k].kind # "none"
    BY <1>0 DEF CopyInv
  <2>2. CASE m = n /\ k = e
    <3>1. /\ store'[m][k].kind = settled[s][e].kind
          /\ store'[m][k].bridge = settled[s][e].bridge
          /\ store'[m][k].recovery /\ store'[m][k].wave = s
          /\ n \in stored'[s][e]
      BY <1>3, <1>4, <2>2
    <3>2. Origin(store[m][k], m, k)'
      BY <1>1, <2>2, <3>1 DEF Origin
    <3>3. \A u \in SealEpochs : n \in stored'[u][e] => s >= u
      BY <1>2, <1>4, <2>1, <2>2, NumberFacts
    <3>4. QED
      BY <1>2, <1>5, <2>2, <3>1, <3>2, <3>3 DEF Kept
  <2>3. CASE ~(m = n /\ k = e)
    <3>1. store'[m][k] = store[m][k]
      BY <1>3, <2>3
    <3>2. \A u \in SealEpochs : m \in stored'[u][k] <=> m \in stored[u][k]
      BY <1>4, <2>3
    <3>3. Origin(store[m][k], m, k)'
      BY <1>1, <2>1, <3>1, <3>2 DEF Origin
    <3>4. QED
      BY <2>1, <3>1, <3>2, <3>3
  <2>4. QED
    BY <2>2, <2>3
<1>8. DigestCopyInv'
  <2> SUFFICES ASSUME NEW t \in SealEpochs, NEW m \in DOMAIN digest[t],
                      NEW k \in Slots
               PROVE  /\ Origin(digest[t][m][k], m, k)'
                      /\ \A u \in SealEpochs : u < t /\ m \in stored'[u][k] =>
                            Kept(digest[t][m][k], u)
                      /\ k \in Esns /\ m \in copies[k] =>
                            digest[t][m][k].kind # "none"
    BY <1>1 DEF DigestCopyInv, Kept
  <2>1. /\ Origin(digest[t][m][k], m, k)
        /\ \A u \in SealEpochs : u < t /\ m \in stored[u][k] =>
                Kept(digest[t][m][k], u)
        /\ k \in Esns /\ m \in copies[k] => digest[t][m][k].kind # "none"
    BY <1>0 DEF DigestCopyInv
  <2>2. \A u \in SealEpochs : u < t /\ m \in stored'[u][k] => m \in stored[u][k]
    <3>1. m \in sealed[t] /\ seal[m] >= t
      BY <1>0 DEF SealedInv
    <3>2. m = n => ~(s < t)
      BY <1>2, <3>1, NumberFacts
    <3>3. QED
      BY <1>4, <3>2
  <2>3. Origin(digest[t][m][k], m, k)'
    BY <1>0, <2>1, OriginKept, <1>1 DEF Origin, Growth
  <2>4. QED
    BY <2>1, <2>2, <2>3
<1>9. ShapeInv' /\ PlanInv' /\ ChoiceInv'
  BY <1>6, NoNewProposal
<1>10. QED
  BY <1>6, <1>7, <1>8, <1>9 DEF AgreementInv

\* A machine that settles the epoch on an f-majority settles on what an earlier
\* one may have stored, and a later one has not left it anything to choose.
LEMMA StartAgreement ==
    ASSUME BridgeForEmptyEpoch, TypeOK, TypeOK', DurabilityInv, LngSound,
           AgreementInv, Growth, Majorities', NEW z \in SealEpochs,
           NEW D \in SUBSET DOMAIN digest[z], NEW M \in SUBSET D,
           NEW r \in Selections(digest[z]), StartMutations(z, D, M, r)
    PROVE  AgreementInv'
<1>0. /\ SealedInv /\ AckedInv /\ ProposalInv /\ CopyInv /\ DigestCopyInv
      /\ ShapeInv /\ PlanInv /\ ChoiceInv
  BY DEF DurabilityInv, AgreementInv
<1>1. /\ UNCHANGED <<copies, seal, store, lng, stored>>
      /\ phase[z] = "DIGEST" /\ Fmajority(D) /\ CanReplicate(M)
      /\ phase'[z] \in Settling
      /\ phase'[z] \in Finished => mutators'[z] = {}
      /\ digest'[z] = NoDigest /\ mutationSet'[z] = M
  BY StartFacts
<1>2. \A t \in SealEpochs : t # z =>
        /\ settled'[t] = settled[t] /\ mutators'[t] = mutators[t]
        /\ digest'[t] = digest[t] /\ phase'[t] = phase[t]
        /\ (Proposed(t)' <=> Proposed(t))
  BY StartFacts DEF Proposed
<1>3. Proposed(z)' /\ ShapeOf(z)'
  BY <1>0, NewProposal
<1>4. PlanOf(z)'
  BY NewPlan
<1>5. Fmajority(M)
  BY <1>1 DEF Majorities
<1>6. ~Proposed(z) /\ stored[z] = NoShards
  BY <1>0, <1>1 DEF ProposalInv
<1>7. ProposalInv'
  <2> SUFFICES ASSUME NEW t \in SealEpochs
               PROVE  /\ phase'[t] \in {"SEAL", "DIGEST"} =>
                            ~Proposed(t)' /\ mutators'[t] = {}
                                /\ stored[t] = NoShards
                      /\ phase'[t] \in Settling => Proposed(t)'
                      /\ phase'[t] \in Finished => Decided(t)'
                      /\ \A e \in Slots : stored[t][e] # {} => e \in mutators'[t]
                      /\ Proposed(t)' =>
                            {} \notin CopySets /\ Fmajority({n \in Shards : seal[n] >= t})
    BY <1>1 DEF ProposalInv
  <2>1. CASE t = z
    <3>1. phase'[z] \notin {"SEAL", "DIGEST"}
      BY <1>1 DEF Settling
    <3>2. phase'[z] \in Finished => Decided(z)'
      BY <1>1, <1>3 DEF Decided
    <3>3. \A e \in Slots : stored[z][e] = {}
      BY <1>6 DEF NoShards
    <3>4. {} \notin CopySets
      BY <1>1 DEF Fmajority
    <3>5. D \subseteq {n \in Shards : seal[n] >= z}
      BY <1>0 DEF SealedInv, TypeOK
    <3>6. Fmajority({n \in Shards : seal[n] >= z})
      BY <1>1, <3>5 DEF Fmajority
    <3>7. QED
      BY <1>3, <2>1, <3>1, <3>2, <3>3, <3>4, <3>6
  <2>2. CASE t # z
    <3>1. Decided(t) => Decided(t)'
      BY DecidedKept
    <3>2. QED
      BY <1>0, <1>1, <1>2, <2>2, <3>1 DEF ProposalInv
  <2>3. QED
    BY <2>1, <2>2
<1>8. \A c, n, e : e \in Slots /\ Origin(c, n, e) => Origin(c, n, e)'
  BY <1>0, OriginKept
<1>9. CopyInv'
  <2>1. \A n \in Shards, e \in Slots : Origin(store[n][e], n, e)'
    BY <1>0, <1>1, <1>8 DEF CopyInv
  <2>2. QED
    BY <1>0, <1>1, <2>1 DEF CopyInv, Kept
<1>10. DigestCopyInv'
  <2> SUFFICES ASSUME NEW t \in SealEpochs, NEW n \in DOMAIN digest'[t],
                      NEW e \in Slots
               PROVE  /\ Origin(digest[t][n][e], n, e)'
                      /\ \A s \in SealEpochs : s < t /\ n \in stored[s][e] =>
                            Kept(digest'[t][n][e], s)
                      /\ e \in Esns /\ n \in copies[e] =>
                            digest'[t][n][e].kind # "none"
    BY <1>1 DEF DigestCopyInv, Kept
  <2>1. t # z
    BY <1>1 DEF NoDigest
  <2>2. digest'[t] = digest[t]
    BY <1>2, <2>1
  <2>3. /\ Origin(digest[t][n][e], n, e)
        /\ \A s \in SealEpochs : s < t /\ n \in stored[s][e] =>
                Kept(digest[t][n][e], s)
        /\ e \in Esns /\ n \in copies[e] => digest[t][n][e].kind # "none"
    BY <1>0, <2>2 DEF DigestCopyInv
  <2>4. Origin(digest[t][n][e], n, e)'
    BY <1>8, <2>2, <2>3
  <2>5. QED
    BY <2>2, <2>3, <2>4
<1>11. ASSUME NEW t \in SealEpochs PROVE ShapeOf(t)' /\ PlanOf(t)'
  <2>1. CASE t = z
    BY <1>3, <1>4, <2>1
  <2>2. CASE t # z /\ Proposed(t)
    BY <1>0, <2>2, ShapeKept, PlanKept DEF ShapeInv, PlanInv
  <2>3. CASE t # z /\ ~Proposed(t)
    BY <1>2, <2>3, Unproposed
  <2>4. QED
    BY <2>1, <2>2, <2>3
<1>12. ASSUME NEW y \in SealEpochs, NEW w \in SealEpochs, y < w
       PROVE  ChoiceOf(y, w)'
  <2> SUFFICES ASSUME Proposed(y)', Proposed(w)'
               PROVE  ChoiceOf(y, w)'
    BY DEF ChoiceOf
  <2>0. y \in Nat /\ w \in Nat
    BY NumberFacts
  <2>1. CASE w = z
    <3>1. Proposed(y)
      BY <1>2, <1>12, <2>0, <2>1
    <3>2. QED
      BY <1>5, <1>12, <2>1, <3>1, NewChoiceOf
  <2>2. CASE y = z
    <3>1. Proposed(w)
      BY <1>2, <1>12, <2>0, <2>2
    <3>2. \A e \in Slots : ~Open(y, e)'
      BY <1>12, <2>2, <3>1, NothingOpen
    <3>3. PICK k \in Slots : settled'[y][k].kind # "none"
      BY DEF Proposed
    <3>4. AllMutated(y)' => k \in mutators'[y]
      BY <3>3 DEF AllMutated
    <3>5. \A e \in mutators'[y] : e \in Slots
      BY DEF TypeOK
    <3>6. QED
      BY <3>2, <3>4, <3>5 DEF ChoiceOf
  <2>3. CASE y # z /\ w # z
    BY <1>0, <1>2, <1>12, <2>3, ChoiceKept DEF ChoiceInv
  <2>4. QED
    BY <2>1, <2>2, <2>3
<1>13. QED
  BY <1>7, <1>9, <1>10, <1>11, <1>12 DEF AgreementInv, ShapeInv, PlanInv, ChoiceInv

LEMMA AgreementStep ==
    ASSUME NoRestart, BridgeForEmptyEpoch, TypeOK, TypeOK', DurabilityInv,
           DurabilityInv', LngSound, LngSound', PrecedenceInv, Majorities',
           AgreementInv, Next
    PROVE  AgreementInv'
<1>1. Growth
  BY StepGrowth DEF AgreementInv
<1>2. CASE Append \/ \E e \in Esns : Acknowledge(e)
  <2>1. UNCHANGED <<copies, store, settled, mutators, stored, digest, phase>>
    BY <1>2 DEF Append, Acknowledge, shardVars, machineVars
  <2>2. QED
    BY <1>1, <2>1, QuietAgreement
<1>3. CASE \E e \in Esns, n \in Shards, l \in 0 .. MaxEsn : StoreRecord(e, n, l)
  BY <1>1, <1>3, StoreAgreement
<1>4. ASSUME NEW s \in SealEpochs, MachineNext(s) PROVE AgreementInv'
  <2>0. phase \in [SealEpochs -> Phases] /\ digest = [t \in SealEpochs |-> digest[t]]
    BY DEF TypeOK
  <2>1. CASE \E n \in Shards : Seal(s, n) \/ SealReplyLost(s, n)
    <3>1. UNCHANGED <<copies, store, settled, mutators, stored, digest, phase>>
      BY <2>1 DEF Seal, SealReplyLost, seqVars, machineVars
    <3>2. QED
      BY <1>1, <3>1, QuietAgreement
  <2>2. ASSUME Preempted(s), UNCHANGED <<copies, store>> PROVE AgreementInv'
    <3>1. /\ UNCHANGED <<copies, store, settled, mutators, stored>>
          /\ \A t \in SealEpochs :
                /\ digest'[t] = digest[t] \/ digest'[t] = NoDigest
                /\ phase'[t] = phase[t] \/ phase'[t] = "PREEMPTED"
      BY <2>0, <2>2 DEF Preempted
    <3>2. QED
      BY <1>1, <3>1, QuietAgreement DEF Settling, Finished
  <2>3. CASE \E n \in Shards : SealPreempted(s, n)
    BY <2>2, <2>3 DEF SealPreempted, seqVars, shardVars
  <2>4. CASE \E e \in Slots, n \in Shards : MutatePreempted(s, e, n)
    BY <2>2, <2>4 DEF MutatePreempted, seqVars, shardVars
  <2>5. CASE StartDigest(s)
    <3>1. /\ UNCHANGED <<copies, store, settled, mutators, stored, digest>>
          /\ \A t \in SealEpochs : phase'[t] = phase[t] \/
                (phase[t] = "SEAL" /\ phase'[t] = "DIGEST")
      BY <2>0, <2>5 DEF StartDigest, seqVars, shardVars
    <3>2. QED
      BY <1>1, <3>1, QuietAgreement DEF Settling, Finished
  <2>6. CASE \E n \in Shards : DigestShard(s, n)
    BY <1>1, <2>6, DigestAgreement
  <2>7. CASE \E D \in SUBSET DOMAIN digest[s] : \E M \in SUBSET D :
                \E r \in Selections(digest[s]) : StartMutations(s, D, M, r)
    BY <1>1, <2>7, StartAgreement
  <2>8. CASE \E e \in Slots, n \in Shards : MutateShard(s, e, n)
    BY <1>1, <2>8, MutateAgreement
  <2>9. CASE MutationComplete(s)
    <3>1. /\ UNCHANGED <<copies, store, settled, mutators, stored, digest>>
          /\ phase[s] = "MUTATION" /\ phase'[s] = "CLEAN"
          /\ \A t \in SealEpochs : t # s => phase'[t] = phase[t]
      BY <2>0, <2>9 DEF MutationComplete, seqVars, shardVars
    <3>2. Proposed(s)
      BY <3>1 DEF AgreementInv, ProposalInv, Settling
    <3>3. Decided(s)
      BY <2>9, <3>2 DEF MutationComplete, MutationDone, CanReplicate, Decided, Chosen
    <3>4. QED
      BY <1>1, <3>1, <3>3, QuietAgreement DEF Settling, Finished
  <2>10. CASE \E n \in Shards : Clean(s, n)
    <3>1. PICK n \in Shards : Clean(s, n)
      BY <2>10
    <3>2. UNCHANGED <<copies, store>> /\ phase[s] = "CLEAN"
      BY <3>1 DEF Clean, seqVars
    <3>3. CASE Preempted(s)
      BY <2>2, <3>2, <3>3
    <3>4. CASE ~Preempted(s)
      <4>1. /\ UNCHANGED <<settled, mutators, stored, digest>>
            /\ phase'[s] \in {"ADVANCE_LCE", "CLEAN"}
            /\ \A t \in SealEpochs : t # s => phase'[t] = phase[t]
        BY <2>0, <3>1, <3>4 DEF Clean
      <4>2. QED
        BY <1>1, <3>2, <4>1, QuietAgreement DEF Settling, Finished
    <3>5. QED
      BY <3>3, <3>4
  <2>11. CASE AdvanceLCE(s) \/ AdvanceLCEReplyLost(s)
    <3>1. /\ UNCHANGED <<copies, store, settled, mutators, stored, digest>>
          /\ \A t \in SealEpochs : phase'[t] = phase[t] \/
                (phase[t] = "ADVANCE_LCE" /\ phase'[t] = "RECOVERED")
      BY <2>0, <2>11 DEF AdvanceLCE, AdvanceLCEReplyLost, seqVars, shardVars,
                         machineVars
    <3>2. QED
      BY <1>1, <3>1, QuietAgreement DEF Settling, Finished
  <2>12. ~Restart(s)
    BY DEF Restart, NoRestart, TypeOK
  <2>13. QED
    BY <1>4, <2>1, <2>3, <2>4, <2>5, <2>6, <2>7, <2>8, <2>9, <2>10, <2>11, <2>12
       DEF MachineNext
<1>5. QED
  BY <1>2, <1>3, <1>4 DEF Next, SequencerNext

LEMMA AgreementStutter ==
    ASSUME TypeOK, TypeOK', DurabilityInv, AgreementInv, UNCHANGED vars
    PROVE  AgreementInv'
<1>1. UNCHANGED <<copies, seal, store, phase, lng, digest, settled, mutators, stored>>
  BY DEF vars, seqVars, shardVars, machineVars
<1>2. \A t \in SealEpochs : Outcome(t)' = Outcome(t)
  BY <1>1 DEF Outcome
<1>3. Growth
  BY <1>1, <1>2, NumberFacts DEF Growth
<1>4. QED
  BY <1>1, <1>3, QuietAgreement

LEMMA AgreementInvariance ==
    ASSUME NoRestart, BridgeForEmptyEpoch
    PROVE  Spec /\ []Majorities => []AgreementInv
<1>1. TypeOK /\ TypeOK' /\ DurabilityInv /\ DurabilityInv' /\ LngSound
        /\ LngSound' /\ PrecedenceInv /\ Majorities' /\ AgreementInv
        /\ [Next]_vars => AgreementInv'
  BY AgreementStep, AgreementStutter
<1>2. QED
  BY <1>1, AgreementInit, TypeCorrect, Durability, LastKnownGoodSound,
     PrecedenceInvariance, PTL DEF Spec

-----------------------------------------------------------------------------
(* Machines that have decided agree.                                       *)

\* Machine u got ESN e on a copyset.
Carried(u, e) == Proposed(u) /\ e \in mutators[u] /\ Chosen(u, e) /\ Open(u, e)

LEMMA ChosenCarried ==
    ASSUME TypeOK, SealedInv, ProposalInv, NEW u \in SealEpochs, NEW e \in Slots,
           {} \notin CopySets, Chosen(u, e)
    PROVE  Carried(u, e) /\ settled[u][e].kind # "none"
<1>1. PICK c \in CopySets : c \subseteq stored[u][e]
  BY DEF Chosen
<1>2. stored[u][e] # {}
  BY <1>1
<1>3. Open(u, e)
  BY <1>1 DEF Open
<1>4. QED
  BY <1>2, <1>3, StoredProposed DEF Carried

\* Whatever a machine settled that has decided is on a copyset: that of the old
\* sequencer, or that of a machine which settled the same.
LEMMA Voted ==
    ASSUME TypeOK, DurabilityInv, LngSound, AgreementInv, NEW s \in SealEpochs,
           Decided(s), NEW e \in Slots, settled[s][e].kind # "none"
    PROVE  \/ e \in Esns /\ Choosable(e)
           \/ \E u \in SealEpochs : Carried(u, e) /\ Outcome(u)[e] = Outcome(s)[e]
<1>0. /\ SealedInv /\ ProposalInv /\ PlanInv /\ {} \notin CopySets
  BY DEF DurabilityInv, AgreementInv, ProposalInv, Decided
<1>1. CASE e \in mutators[s]
  <2>1. Chosen(s, e)
    BY <1>1 DEF Decided
  <2>2. QED
    BY <1>0, <2>1, ChosenCarried
<1>2. CASE e \notin mutators[s]
  <2>1. Elsewhere(s, e)
    BY <1>0, <1>2 DEF PlanInv, PlanOf
  <2>2. PICK c \in CopySets :
            \/ e \in Esns /\ c \subseteq copies[e] /\ settled[s][e].kind = "record"
            \/ \E u \in SealEpochs : /\ c \subseteq stored[u][e]
                                     /\ settled[u][e].kind = settled[s][e].kind
    BY <2>1 DEF Elsewhere
  <2>3. CASE e \in Esns /\ c \subseteq copies[e]
    BY <2>3 DEF Choosable
  <2>4. ASSUME NEW u \in SealEpochs, c \subseteq stored[u][e],
               settled[u][e].kind = settled[s][e].kind
        PROVE  Carried(u, e) /\ Outcome(u)[e] = Outcome(s)[e]
    <3>1. Chosen(u, e)
      BY <2>4 DEF Chosen
    <3>2. Outcome(u)[e] = settled[u][e].kind /\ Outcome(s)[e] = settled[s][e].kind
      BY <2>4, KindIsOutcome
    <3>3. QED
      BY <1>0, <2>4, <3>1, <3>2, ChosenCarried
  <2>5. QED
    BY <2>2, <2>3, <2>4
<1>3. QED
  BY <1>1, <1>2

\* Machines that were both carried agree, and so does a later proposal.
LEMMA CarriedAgree ==
    ASSUME TypeOK, DurabilityInv, LngSound, AgreementInv,
           NEW u \in SealEpochs, NEW w \in SealEpochs, NEW e \in Slots,
           Carried(u, e), Proposed(w), u =< w \/ Carried(w, e)
    PROVE  Outcome(w)[e] = Outcome(u)[e]
<1>1. u \in Nat /\ w \in Nat /\ ChoiceInv
  BY NumberFacts DEF AgreementInv
<1>2. CASE u =< w
  BY <1>1, <1>2, LaterProposal DEF Carried
<1>3. CASE w =< u /\ Carried(w, e)
  BY <1>1, <1>3, LaterProposal DEF Carried
<1>4. QED
  BY <1>1, <1>2, <1>3

LEMMA DecidedHole ==
    ASSUME TypeOK, DurabilityInv, LngSound, AgreementInv,
           NEW s \in SealEpochs, NEW t \in SealEpochs, Decided(s), Decided(t),
           NEW e \in Slots, settled[s][e].kind = "none", ~(e =< lng[s])
    PROVE  Outcome(t)[e] = "hole"
<1>0. /\ AckedInv /\ ShapeInv /\ PlanInv /\ ProposalInv /\ ChoiceInv
      /\ Proposed(s) /\ Proposed(t) /\ {} \notin CopySets
      /\ Outcome(s)[e] = "hole" /\ s \in Nat /\ t \in Nat
      /\ lng[s] \in Nat /\ e \in Nat
  BY NumberFacts, SlotFacts DEF DurabilityInv, AgreementInv, ProposalInv,
                                Decided, Outcome
<1> SUFFICES ASSUME Outcome(t)[e] = "record" PROVE FALSE
  BY OutcomeValues
<1>1. e =< lng[t] \/ settled[t][e].kind = "record"
  BY DEF Outcome
<1>2. CASE NothingAbove(s)
  <2>1. e \in Esns => copies[e] = {}
    BY <1>0, <1>2 DEF NothingAbove
  <2>2. CASE e =< lng[t]
    <3>1. e \in Esns /\ e \in acked
      BY <1>0, <2>2, BelowLng
    <3>2. PICK c \in CopySets : c \subseteq copies[e]
      BY <1>0, <3>1 DEF AckedInv, CanReplicate
    <3>3. QED
      BY <1>0, <2>1, <3>1, <3>2
  <2>3. CASE settled[t][e].kind = "record"
    BY <1>0, <2>1, <2>3 DEF ShapeInv, ShapeOf
  <2>4. QED
    BY <1>1, <2>2, <2>3
<1>3. ~(e \in Esns /\ Choosable(e))
  BY <1>0, ChoosableOutcome
<1>4. CASE AllMutated(s)
  <2>1. ~(e =< lng[t])
    BY <1>0, <1>3, BelowLng
  <2>2. settled[t][e].kind # "none"
    BY <1>1, <2>1
  <2>3. PICK u \in SealEpochs : Carried(u, e) /\ Outcome(u)[e] = "record"
    BY <1>3, <2>2, Voted
  <2>4. u \in Nat
    BY NumberFacts
  <2>5. CASE u =< s
    BY <1>0, <2>3, <2>5, CarriedAgree
  <2>6. CASE s < u
    <3>1. \A k \in mutators[s] : Open(s, k)
      BY DEF Decided, Chosen, Open
    <3>2. Outcome(u) = Outcome(s)
      BY <1>0, <1>4, <2>3, <2>6, <3>1 DEF ChoiceInv, ChoiceOf, Carried
    <3>3. QED
      BY <1>0, <2>3, <3>2
  <2>7. QED
    BY <1>0, <2>4, <2>5, <2>6
<1>5. QED
  BY <1>0, <1>2, <1>4 DEF PlanInv, PlanOf

LEMMA DecidedAgree ==
    ASSUME TypeOK, DurabilityInv, LngSound, AgreementInv,
           NEW s \in SealEpochs, NEW t \in SealEpochs, Decided(s), Decided(t)
    PROVE  Outcome(s) = Outcome(t)
<1> SUFFICES ASSUME NEW e \in Slots PROVE Outcome(s)[e] = Outcome(t)[e]
  BY OutcomeEqual
<1>0. Proposed(s) /\ Proposed(t)
  BY DEF Decided
<1>1. CASE e \in Esns /\ Choosable(e)
  BY <1>0, <1>1, ChoosableOutcome
<1>2. CASE ~(e \in Esns /\ Choosable(e))
  <2>0. ~(e =< lng[s]) /\ ~(e =< lng[t])
    BY <1>2, BelowLng DEF DurabilityInv
  <2>1. CASE settled[s][e].kind = "none"
    BY <2>0, <2>1, DecidedHole
  <2>2. CASE settled[t][e].kind = "none"
    BY <2>0, <2>2, DecidedHole
  <2>3. CASE settled[s][e].kind # "none" /\ settled[t][e].kind # "none"
    <3>1. PICK u \in SealEpochs : Carried(u, e) /\ Outcome(u)[e] = Outcome(s)[e]
      BY <1>2, <2>3, Voted
    <3>2. PICK w \in SealEpochs : Carried(w, e) /\ Outcome(w)[e] = Outcome(t)[e]
      BY <1>2, <2>3, Voted
    <3>3. Outcome(w)[e] = Outcome(u)[e]
      BY <3>1, <3>2, CarriedAgree DEF Carried
    <3>4. QED
      BY <3>1, <3>2, <3>3
  <2>4. QED
    BY <2>1, <2>2, <2>3
<1>3. QED
  BY <1>1, <1>2

\* What is on record in the epoch store is what some machine has decided.
LceInv == lce # NoOutcome => \E s \in SealEpochs : Decided(s) /\ lce = Outcome(s)

LEMMA LceStep ==
    ASSUME NoRestart, TypeOK, TypeOK', DurabilityInv, DurabilityInv', LngSound',
           AgreementInv, LceInv, Next
    PROVE  LceInv'
<1>1. Growth
  BY StepGrowth DEF AgreementInv
<1>2. \A s \in SealEpochs : Decided(s) => Decided(s)' /\ Outcome(s)' = Outcome(s)
  BY <1>1, DecidedKept DEF Decided, Growth
<1>3. lce' = lce \/ \E s \in SealEpochs : phase[s] = "ADVANCE_LCE" /\ lce' = Outcome(s)
  <2>1. CASE SequencerNext
    BY <2>1 DEF SequencerNext, Append, Acknowledge, StoreRecord
  <2>2. ASSUME NEW s \in SealEpochs, MachineNext(s)
        PROVE  lce' = lce \/ (phase[s] = "ADVANCE_LCE" /\ lce' = Outcome(s))
    <3>1. CASE AdvanceLCE(s) \/ AdvanceLCEReplyLost(s)
      <4>1. phase[s] = "ADVANCE_LCE" /\ RegisterLCE(s)
        BY <3>1 DEF AdvanceLCE, AdvanceLCEReplyLost
      <4>2. lce' = lce \/ lce' = Outcome(s)
        BY <4>1, Zenon DEF RegisterLCE
      <4>3. QED
        BY <4>1, <4>2
    <3>2. CASE \E n \in Shards : Seal(s, n) \/ SealReplyLost(s, n)
                    \/ SealPreempted(s, n) \/ DigestShard(s, n) \/ Clean(s, n)
      BY <3>2 DEF Seal, SealReplyLost, SealPreempted, DigestShard, Clean
    <3>3. CASE StartDigest(s) \/ MutationComplete(s) \/ Restart(s)
      BY <3>3 DEF StartDigest, MutationComplete, Restart
    <3>4. CASE \E e \in Slots, n \in Shards : MutateShard(s, e, n)
                                                \/ MutatePreempted(s, e, n)
      BY <3>4 DEF MutateShard, MutatePreempted
    <3>5. CASE \E D \in SUBSET DOMAIN digest[s] : \E M \in SUBSET D :
                \E r \in Selections(digest[s]) : StartMutations(s, D, M, r)
      BY <3>5, StartFacts
    <3>6. QED
      BY <2>2, <3>1, <3>2, <3>3, <3>4, <3>5 DEF MachineNext
  <2>3. QED
    BY <2>1, <2>2 DEF Next
<1>4. \A s \in SealEpochs : phase[s] = "ADVANCE_LCE" => Decided(s)
  BY DEF AgreementInv, ProposalInv, Finished
<1>5. QED
  BY <1>2, <1>3, <1>4 DEF LceInv

LEMMA LceInvariance ==
    ASSUME NoRestart, BridgeForEmptyEpoch
    PROVE  Spec /\ []Majorities => []LceInv
<1>1. Init => LceInv
  BY DEF Init, LceInv
<1>2. TypeOK /\ TypeOK' /\ DurabilityInv /\ DurabilityInv' /\ LngSound'
        /\ AgreementInv /\ LceInv /\ [Next]_vars => LceInv'
  <2>1. ASSUME LceInv, UNCHANGED vars PROVE LceInv'
    BY <2>1 DEF LceInv, Decided, Proposed, Chosen, Outcome, vars, machineVars
  <2>2. QED
    BY <2>1, LceStep
<1>3. QED
  BY <1>1, <1>2, AgreementInvariance, TypeCorrect, Durability,
     LastKnownGoodSound, PTL DEF Spec

\* EpochRecovery machines that have finished their mutations hold the epoch to
\* be the same, whatever the nodeset, the copysets, the number of machines and
\* the order of their steps, if none is restarted and each mutates a set of
\* shards that meets every copyset.
THEOREM MachinesAgree ==
    ASSUME NoRestart, BridgeForEmptyEpoch
    PROVE  Spec /\ []Majorities => []Agreement
<1>1. TypeOK /\ DurabilityInv /\ LngSound /\ AgreementInv => Agreement
  BY DecidedAgree DEF AgreementInv, ProposalInv, Agreement
<1>2. QED
  BY <1>1, AgreementInvariance, TypeCorrect, Durability, LastKnownGoodSound, PTL

\* A machine that setLastCleanEpoch told OK or STALE holds the epoch to be what
\* is on record in the epoch store, under the same conditions.
THEOREM AgreesWithRegistered ==
    ASSUME NoRestart, BridgeForEmptyEpoch
    PROVE  Spec /\ []Majorities => []AgreesWithLCE
<1>1. TypeOK /\ DurabilityInv /\ LngSound /\ AgreementInv /\ LceInv
        => AgreesWithLCE
  <2> SUFFICES ASSUME TypeOK, DurabilityInv, LngSound, AgreementInv, LceInv,
                      lce # NoOutcome, NEW s \in SealEpochs, phase[s] = "RECOVERED"
               PROVE  Outcome(s) = lce
    BY DEF AgreesWithLCE
  <2>1. PICK t \in SealEpochs : Decided(t) /\ lce = Outcome(t)
    BY DEF LceInv
  <2>2. Decided(s)
    BY DEF AgreementInv, ProposalInv, Finished
  <2>3. QED
    BY <2>1, <2>2, DecidedAgree
<1>2. QED
  BY <1>1, AgreementInvariance, LceInvariance, TypeCorrect, Durability,
     LastKnownGoodSound, PTL

-----------------------------------------------------------------------------
(* The copies on the shards.                                               *)

\* As Elsewhere, and it got there before machine s came.
Found(s, e) ==
    \E c \in CopySets :
        \/ e \in Esns /\ c \subseteq copies[e] /\ settled[s][e].kind = "record"
        \/ \E u \in SealEpochs :
                /\ u < s /\ c \subseteq stored[u][e]
                /\ settled[u][e].kind = settled[s][e].kind

FoundInv ==
    \A s \in SealEpochs, e \in Slots :
        settled[s][e].kind # "none" /\ e \notin mutators[s] => Found(s, e)

\* What a shard sent to machine s it still has, unless s or a later machine has
\* written over it.
FreshInv ==
    \A s \in SealEpochs : \A n \in DOMAIN digest[s], e \in Slots :
        store[n][e] = digest[s][n][e] \/ Kept(store[n][e], s)

\* What the shards of the mutation set hold for ESN e.
MutatedOf(s, e) ==
    /\ stored[s][e] \subseteq mutationSet[s]
    /\ e \in mutators[s] => \A n \in mutationSet[s] :
            \/ store[n][e].kind = "none" \/ Kept(store[n][e], s)
            \/ phase[s] = "MUTATION" /\ n \in required[s][e]
    /\ e \notin mutators[s] /\ settled[s][e].kind # "none" =>
            /\ \A n \in mutationSet[s] :
                \/ store[n][e].kind \in {"none", settled[s][e].kind}
                \/ Kept(store[n][e], s)
            /\ \E c \in CopySets : \A n \in c :
                /\ n \in mutationSet[s]
                /\ \/ store[n][e].kind = settled[s][e].kind
                   \/ Kept(store[n][e], s)
    /\ settled[s][e].kind = "none" => e =< lng[s] \/ \A n \in mutationSet[s] :
            store[n][e].kind = "none" \/ Kept(store[n][e], s)

MutatedInv ==
    \A s \in SealEpochs, e \in Slots : phase[s] \in Settling => MutatedOf(s, e)

\* A shard that takes the epoch for clean holds what some machine has decided.
CleanInv ==
    \A n \in clean : \E s \in SealEpochs :
        /\ Decided(s) /\ seal[n] >= s
        /\ \A e \in Slots : store[n][e].kind \in {"none", Outcome(s)[e]}

ContentInv == FoundInv /\ FreshInv /\ MutatedInv /\ CleanInv

\* A decision that rests on earlier ones binds all later proposals.
LEMMA DecidedCarries ==
    ASSUME TypeOK, DurabilityInv, LngSound, AgreementInv, FoundInv,
           NEW s \in SealEpochs, NEW w \in SealEpochs, s =< w, Decided(s),
           Proposed(w)
    PROVE  Outcome(w) = Outcome(s)
<1>0. /\ SealedInv /\ ShapeInv /\ PlanInv /\ ProposalInv /\ ChoiceInv
      /\ Proposed(s) /\ {} \notin CopySets
      /\ s \in Nat /\ w \in Nat /\ lng[s] \in Nat
  BY NumberFacts DEF DurabilityInv, AgreementInv, ProposalInv, Decided
<1> SUFFICES ASSUME NEW e \in Slots, s < w PROVE Outcome(w)[e] = Outcome(s)[e]
  BY <1>0, OutcomeEqual
<1>1. CASE e \in Esns /\ Choosable(e)
  BY <1>0, <1>1, ChoosableOutcome
<1>2. CASE ~(e \in Esns /\ Choosable(e))
  <2>0. ~(e =< lng[s]) /\ ~(e =< lng[w])
    BY <1>2, BelowLng DEF DurabilityInv
  <2>1. ASSUME NEW u \in SealEpochs, u =< s, Chosen(u, e),
               settled[u][e].kind = settled[s][e].kind
        PROVE  Outcome(w)[e] = Outcome(s)[e]
    <3>1. Carried(u, e) /\ settled[u][e].kind # "none"
      BY <1>0, <2>1, ChosenCarried
    <3>2. Outcome(u)[e] = Outcome(s)[e]
      BY <2>1, <3>1, KindIsOutcome
    <3>3. u =< w
      BY <1>0, <2>1, NumberFacts
    <3>4. QED
      BY <3>1, <3>2, <3>3, CarriedAgree
  <2>2. CASE e \in mutators[s]
    BY <1>0, <2>1, <2>2 DEF Decided
  <2>3. CASE settled[s][e].kind # "none" /\ e \notin mutators[s]
    <3>1. PICK c \in CopySets :
            \/ e \in Esns /\ c \subseteq copies[e] /\ settled[s][e].kind = "record"
            \/ \E u \in SealEpochs :
                    /\ u < s /\ c \subseteq stored[u][e]
                    /\ settled[u][e].kind = settled[s][e].kind
      BY <2>3 DEF FoundInv, Found
    <3>2. ~(e \in Esns /\ c \subseteq copies[e])
      BY <1>2 DEF Choosable
    <3>3. PICK u \in SealEpochs : /\ u < s /\ c \subseteq stored[u][e]
                                  /\ settled[u][e].kind = settled[s][e].kind
      BY <3>1, <3>2
    <3>4. Chosen(u, e) /\ u =< s
      BY <1>0, <3>3, NumberFacts DEF Chosen
    <3>5. QED
      BY <2>1, <3>3, <3>4
  <2>4. CASE settled[s][e].kind = "none"
    <3>1. Outcome(s)[e] = "hole"
      BY <2>0, <2>4 DEF Outcome
    <3>2. CASE NothingAbove(s)
      <4>1. settled[w][e].kind # "record"
        BY <1>0, <2>0, <2>4, <3>2, SlotFacts DEF NothingAbove, ShapeInv, ShapeOf
      <4>2. QED
        BY <2>0, <3>1, <4>1 DEF Outcome
    <3>3. CASE AllMutated(s)
      <4>1. \A k \in mutators[s] : Open(s, k)
        BY DEF Decided, Chosen, Open
      <4>2. QED
        BY <1>0, <3>3, <4>1 DEF ChoiceInv, ChoiceOf
    <3>4. QED
      BY <1>0, <3>2, <3>3 DEF PlanInv, PlanOf
  <2>5. QED
    BY <2>2, <2>3, <2>4
<1>3. QED
  BY <1>1, <1>2

\* A copy from machine s or a later one is what s has decided.
LEMMA KeptKind ==
    ASSUME TypeOK, DurabilityInv, LngSound, AgreementInv, FoundInv,
           NEW s \in SealEpochs, Decided(s), NEW n \in Shards, NEW e \in Slots,
           Kept(store[n][e], s)
    PROVE  store[n][e].kind = Outcome(s)[e]
<1> DEFINE w == store[n][e].wave
<1>1. /\ w \in SealEpochs /\ s =< w /\ settled[w][e].kind = store[n][e].kind
      /\ settled[w][e].kind # "none"
  <2>1. Origin(store[n][e], n, e)
    BY DEF AgreementInv, CopyInv
  <2>2. QED
    BY <2>1 DEF Origin, Kept
<1>2. Proposed(w)
  BY <1>1 DEF Proposed
<1> HIDE DEF w
<1>3. Outcome(w) = Outcome(s)
  BY <1>1, <1>2, DecidedCarries
<1>4. QED
  BY <1>1, <1>3, KindIsOutcome

\* What the shards of the mutation set of a machine that is done hold.
LEMMA MutatedShards ==
    ASSUME TypeOK, DurabilityInv, LngSound, AgreementInv, FoundInv, MutatedInv,
           NEW s \in SealEpochs, phase[s] \in Finished, NEW e \in Slots,
           NEW n \in mutationSet[s]
    PROVE  store[n][e].kind \in {"none", Outcome(s)[e]}
<1>1. n \in Shards /\ Decided(s) /\ MutatedOf(s, e) /\ phase[s] # "MUTATION"
      /\ StoreInv /\ AckedInv
  BY DEF TypeOK, AgreementInv, ProposalInv, MutatedInv, Finished, Settling,
         DurabilityInv
<1>2. CASE Kept(store[n][e], s)
  BY <1>1, <1>2, KeptKind
<1>3. CASE store[n][e].kind # "none" /\ ~Kept(store[n][e], s)
  <2>1. CASE settled[s][e].kind # "none"
    <3>1. store[n][e].kind = settled[s][e].kind
      BY <1>1, <1>3, <2>1 DEF MutatedOf
    <3>2. QED
      BY <2>1, <3>1, KindIsOutcome
  <2>2. CASE settled[s][e].kind = "none"
    <3>1. e =< lng[s]
      BY <1>1, <1>3, <2>2 DEF MutatedOf
    <3>2. e \in Esns /\ Choosable(e) /\ Outcome(s)[e] = "record"
      BY <1>1, <3>1, BelowLng DEF Outcome
    <3>3. store[n][e].kind # "hole" /\ store[n][e].kind \in Kinds
      BY <1>1, <3>2 DEF StoreInv, Harmless, TypeOK, Copy
    <3>4. QED
      BY <1>3, <3>2, <3>3 DEF Kinds
  <2>3. QED
    BY <2>1, <2>2
<1>4. QED
  BY <1>2, <1>3

LEMMA FoundKept ==
    ASSUME Growth, NEW s \in SealEpochs, NEW e \in Slots,
           settled[s][e].kind # "none", Found(s, e)
    PROVE  Found(s, e)'
<1>1. PICK c \in CopySets :
        \/ e \in Esns /\ c \subseteq copies[e] /\ settled[s][e].kind = "record"
        \/ \E u \in SealEpochs : /\ u < s /\ c \subseteq stored[u][e]
                                 /\ settled[u][e].kind = settled[s][e].kind
  BY DEF Found
<1>2. settled'[s] = settled[s]
  BY DEF Growth, Proposed
<1>3. CASE e \in Esns /\ c \subseteq copies[e] /\ settled[s][e].kind = "record"
  <2>1. c \subseteq copies'[e]
    BY <1>3 DEF Growth
  <2>2. QED
    BY <1>2, <1>3, <2>1 DEF Found
<1>4. ASSUME NEW u \in SealEpochs, u < s, c \subseteq stored[u][e],
             settled[u][e].kind = settled[s][e].kind
      PROVE  Found(s, e)'
  <2>1. c \subseteq stored'[u][e] /\ settled'[u] = settled[u]
    BY <1>4 DEF Growth, Proposed
  <2>2. QED
    BY <1>2, <1>4, <2>1 DEF Found
<1>5. QED
  BY <1>1, <1>3, <1>4

LEMMA NewFound ==
    ASSUME TypeOK, SealedInv, ProposalInv, DigestCopyInv, Growth, DigestsInOrder,
           NEW z \in SealEpochs,
           NEW D \in SUBSET DOMAIN digest[z], NEW M \in SUBSET D,
           NEW r \in Selections(digest[z]), StartMutations(z, D, M, r),
           NEW e \in Slots, settled'[z][e].kind # "none", e \notin mutators'[z]
    PROVE  Found(z, e)'
<1> DEFINE d == digest[z]
           p == Planned(d, M, lng[z], r)[e]
<1>1. PICK c \in CopySets : c # {} /\ c \subseteq M /\ \A n \in c : d[n][e] = p
  <2>1. LeftAsFoundFacts(z, D, M, r, e)
    BY LeftAsFound
  <2>2. QED
    BY <2>1 DEF LeftAsFoundFacts
<1>2. PICK m \in c : TRUE
  BY <1>1
<1>3. settled'[z][e].kind = p.kind /\ p.kind # "none"
  BY StartSettled
<1>4. \A n \in c : Origin(p, n, e)
  BY <1>1 DEF DigestCopyInv
<1>5. p.wave =< z
  BY <1>1, <1>2 DEF DigestsInOrder
<1> HIDE DEF p
<1>6. UNCHANGED <<copies, stored>> /\ stored[z] = NoShards
  BY StartFacts DEF ProposalInv
<1>7. CASE p.recovery
  <2>1. /\ p.wave \in SealEpochs /\ c \subseteq stored[p.wave][e]
        /\ settled[p.wave][e].kind = p.kind
    BY <1>2, <1>3, <1>4, <1>7 DEF Origin
  <2>2. p.wave < z
    <3>1. p.wave # z
      BY <1>1, <1>6, <2>1 DEF NoShards
    <3>2. QED
      BY <1>5, <2>1, <3>1, NumberFacts
  <2>3. Proposed(p.wave)
    BY <1>3, <2>1 DEF Proposed
  <2>4. settled'[p.wave] = settled[p.wave]
    BY <2>1, <2>3 DEF Growth
  <2>5. QED
    BY <1>3, <1>6, <2>1, <2>2, <2>4 DEF Found
<1>8. CASE ~p.recovery
  <2>1. e \in Esns /\ c \subseteq copies[e] /\ p.kind = "record"
    BY <1>2, <1>3, <1>4, <1>8 DEF Origin
  <2>2. QED
    BY <1>3, <1>6, <2>1 DEF Found
<1>9. QED
  BY <1>7, <1>8

\* A write to a shard that machine s has sealed is by s or a later machine.
Overwritten ==
    \A n \in Shards, e \in Slots :
        \/ store'[n][e] = store[n][e]
        \/ seal[n] < Epoch
        \/ \E w \in SealEpochs :
                /\ seal[n] =< w /\ settled[w][e].kind # "none"
                /\ store'[n][e].kind = settled[w][e].kind
                /\ store'[n][e].recovery /\ store'[n][e].wave = w

LEMMA OverwrittenKept ==
    ASSUME TypeOK, Overwritten, NEW n \in Shards, NEW e \in Slots,
           NEW s \in SealEpochs, seal[n] >= s
    PROVE  store'[n][e] = store[n][e] \/ Kept(store'[n][e], s)
<1>1. ~(seal[n] < Epoch)
  BY NumberFacts
<1>2. ASSUME NEW w \in SealEpochs, seal[n] =< w, settled[w][e].kind # "none",
             store'[n][e].kind = settled[w][e].kind,
             store'[n][e].recovery, store'[n][e].wave = w
      PROVE  Kept(store'[n][e], s)
  BY <1>2, NumberFacts DEF Kept
<1>3. QED
  BY <1>1, <1>2 DEF Overwritten

LEMMA StepOverwritten ==
    ASSUME TypeOK, DurabilityInv, PrecedenceInv, Next
    PROVE  Overwritten
<1>0. store \in [Shards -> [Slots -> Copy]]
  BY DEF TypeOK
<1>1. ASSUME NEW e \in Esns, NEW n \in Shards, NEW l \in 0 .. MaxEsn,
             StoreRecord(e, n, l)
      PROVE  Overwritten
  <2>1. store' = [store EXCEPT ![n][e] = [kind |-> "record", bridge |-> FALSE,
                                          recovery |-> FALSE, wave |-> 1]]
        /\ e \in Slots
    BY <1>1, SlotFacts DEF StoreRecord
  <2>2. \A m \in Shards, k \in Slots : m # n => store'[m][k] = store[m][k]
    BY <1>0, <2>1, Zenon
  <2>3. seal[n] < Epoch
    BY <1>1, NumberFacts DEF StoreRecord, AcceptsAppends
  <2>4. QED
    BY <2>2, <2>3 DEF Overwritten
<1>2. ASSUME NEW s \in SealEpochs, NEW e \in Slots, NEW n \in Shards,
             MutateShard(s, e, n)
      PROVE  Overwritten
  <2>1. /\ store' = [store EXCEPT ![n][e] =
                        [kind |-> settled[s][e].kind,
                         bridge |-> settled[s][e].bridge,
                         recovery |-> TRUE, wave |-> s]]
        /\ seal[n] =< s /\ settled[s][e].kind # "none"
    BY <1>2 DEF MutateShard, NotPreempted, DurabilityInv, SealedInv
  <2>2. /\ store'[n][e] = [kind |-> settled[s][e].kind,
                           bridge |-> settled[s][e].bridge,
                           recovery |-> TRUE, wave |-> s]
        /\ \A m \in Shards, k \in Slots :
                m # n \/ k # e => store'[m][k] = store[m][k]
    BY <1>0, <2>1, Zenon
  <2>3. QED
    BY <2>1, <2>2 DEF Overwritten
<1>3. CASE store' = store
  BY <1>3 DEF Overwritten
<1>4. CASE Append \/ \E e \in Esns : Acknowledge(e)
  BY <1>3, <1>4 DEF Append, Acknowledge, shardVars
<1>5. ASSUME NEW s \in SealEpochs, MachineNext(s) PROVE Overwritten
  <2>1. CASE \E n \in Shards : Seal(s, n) \/ SealReplyLost(s, n)
                    \/ SealPreempted(s, n) \/ DigestShard(s, n) \/ Clean(s, n)
    BY <1>3, <2>1 DEF Seal, SealReplyLost, SealPreempted, DigestShard, Clean,
                      shardVars
  <2>2. CASE StartDigest(s) \/ MutationComplete(s) \/ Restart(s)
                \/ AdvanceLCE(s) \/ AdvanceLCEReplyLost(s)
    BY <1>3, <2>2 DEF StartDigest, MutationComplete, Restart, AdvanceLCE,
                      AdvanceLCEReplyLost, shardVars
  <2>3. CASE \E e \in Slots, n \in Shards : MutatePreempted(s, e, n)
    BY <1>3, <2>3 DEF MutatePreempted, shardVars
  <2>4. CASE \E D \in SUBSET DOMAIN digest[s] : \E M \in SUBSET D :
                \E r \in Selections(digest[s]) : StartMutations(s, D, M, r)
    BY <1>3, <2>4, StartFacts
  <2>5. QED
    BY <1>2, <1>5, <2>1, <2>2, <2>3, <2>4 DEF MachineNext
<1>6. QED
  BY <1>1, <1>4, <1>5 DEF Next, SequencerNext

LEMMA KeptStays ==
    ASSUME TypeOK, PrecedenceInv, Overwritten, NEW n \in Shards, NEW e \in Slots,
           NEW s \in SealEpochs, Kept(store[n][e], s)
    PROVE  Kept(store'[n][e], s)
<1>1. seal[n] >= s
  <2>1. /\ store[n][e].wave =< seal[n] /\ store[n][e].wave >= s
        /\ store[n][e].wave \in Nat
    BY DEF PrecedenceInv, Kept, TypeOK, Copy
  <2>2. QED
    BY <2>1, NumberFacts
<1>2. QED
  BY <1>1, OverwrittenKept

\* A mutation set while its machine neither starts nor completes.
LEMMA MutatedKept ==
    ASSUME TypeOK, TypeOK', PrecedenceInv, Growth, Overwritten,
           NEW s \in SealEpochs, NEW e \in Slots, Proposed(s), MutatedOf(s, e),
           mutationSet'[s] = mutationSet[s],
           stored'[s][e] \subseteq mutationSet[s],
           \A n \in required[s][e] :
                \/ phase'[s] = "MUTATION" /\ n \in required'[s][e]
                \/ Kept(store[n][e], s) /\ n \in Shards
                \/ e \notin mutators[s]
                \/ phase[s] # "MUTATION"
    PROVE  MutatedOf(s, e)'
<1>1. /\ settled'[s] = settled[s] /\ mutators'[s] = mutators[s]
      /\ lng[s] =< lng'[s] /\ lng[s] \in Nat /\ lng'[s] \in Nat /\ e \in Nat
  BY SlotFacts DEF Growth, TypeOK
<1>2. ASSUME NEW n \in mutationSet[s]
      PROVE  /\ n \in Shards
             /\ Kept(store'[n][e], s) \/ store'[n][e] = store[n][e]
             /\ Kept(store[n][e], s) => Kept(store'[n][e], s)
  <2>1. n \in Shards /\ seal[n] >= s
    BY DEF TypeOK, PrecedenceInv
  <2>2. QED
    BY <2>1, KeptStays, OverwrittenKept
<1>3. e \in mutators[s] => \A n \in mutationSet[s] :
            \/ store'[n][e].kind = "none" \/ Kept(store'[n][e], s)
            \/ phase'[s] = "MUTATION" /\ n \in required'[s][e]
  BY <1>2 DEF MutatedOf
<1>4. e \notin mutators[s] /\ settled[s][e].kind # "none" =>
            /\ \A n \in mutationSet[s] :
                \/ store'[n][e].kind \in {"none", settled[s][e].kind}
                \/ Kept(store'[n][e], s)
            /\ \E c \in CopySets : \A n \in c :
                /\ n \in mutationSet[s]
                /\ \/ store'[n][e].kind = settled[s][e].kind
                   \/ Kept(store'[n][e], s)
  BY <1>2 DEF MutatedOf
<1>5. settled[s][e].kind = "none" => e =< lng'[s] \/ \A n \in mutationSet[s] :
            store'[n][e].kind = "none" \/ Kept(store'[n][e], s)
  BY <1>1, <1>2 DEF MutatedOf
<1>6. QED
  BY <1>1, <1>3, <1>4, <1>5 DEF MutatedOf, Kept

LEMMA NewMutated ==
    ASSUME BridgeForEmptyEpoch, TypeOK, TypeOK', DurabilityInv, LngSound,
           AgreementInv, FreshInv, NEW z \in SealEpochs,
           NEW D \in SUBSET DOMAIN digest[z], NEW M \in SUBSET D,
           NEW r \in Selections(digest[z]), StartMutations(z, D, M, r),
           NEW e \in Slots
    PROVE  MutatedOf(z, e)'
<1> DEFINE d == digest[z]
           p == Planned(d, M, lng[z], r)[e]
<1>0. /\ ProposalInv /\ DigestCopyInv /\ ShapeInv /\ AckedInv
  BY DEF AgreementInv, DurabilityInv
<1>1. /\ UNCHANGED <<store, lng, stored>> /\ phase[z] = "DIGEST"
      /\ mutationSet'[z] = M
  BY StartFacts
<1>2. \A n \in M : n \in DOMAIN d /\ (store[n][e] = d[n][e] \/ Kept(store[n][e], z))
  BY DEF FreshInv
<1>3. stored[z][e] = {}
  BY <1>0, <1>1 DEF ProposalInv, NoShards
<1>4. ASSUME e \in mutators'[z]
      PROVE  \A n \in M : \/ store[n][e].kind = "none" \/ Kept(store[n][e], z)
                          \/ phase'[z] = "MUTATION" /\ n \in required'[z][e]
  <2>1. required'[z][e] = M \cap Senders(d, e)
    BY <1>4, StartRequired
  <2>2. phase'[z] = "MUTATION"
    <3>1. phase'[z] \in Settling /\ (phase'[z] \in Finished => mutators'[z] = {})
      BY StartFacts
    <3>2. QED
      BY <1>4, <3>1 DEF Settling, Finished
  <2>3. QED
    BY <1>2, <2>1, <2>2 DEF Senders
<1>5. ASSUME e \notin mutators'[z], settled'[z][e].kind # "none"
      PROVE  /\ \A n \in M :
                \/ store[n][e].kind \in {"none", settled'[z][e].kind}
                \/ Kept(store[n][e], z)
             /\ \E c \in CopySets : \A n \in c :
                /\ n \in M
                /\ \/ store[n][e].kind = settled'[z][e].kind
                   \/ Kept(store[n][e], z)
  <2>1. LeftAsFoundFacts(z, D, M, r, e)
    BY <1>0, <1>5, LeftAsFound
  <2>2. /\ ConflictCopies(d, M, e, p, z) = {}
        /\ \E c \in CopySets : c \subseteq M /\ \A n \in c : d[n][e] = p
    BY <2>1 DEF LeftAsFoundFacts
  <2>3. settled'[z][e].kind = p.kind
    BY StartSettled
  <2> HIDE DEF p
  <2>4. \A n \in M : d[n][e].kind \in {"none", p.kind}
    BY <1>2, <2>2 DEF ConflictCopies, SuccessfullyStored, Senders
  <2>5. QED
    BY <1>2, <2>2, <2>3, <2>4
<1>6. ASSUME settled'[z][e].kind = "none", ~(e =< lng[z])
      PROVE  \A n \in M : store[n][e].kind = "none" \/ Kept(store[n][e], z)
  <2>1. \A n \in DOMAIN d : d[n][e].kind = "none"
    BY <1>0, <1>6, NothingSent
  <2>2. QED
    BY <1>2, <2>1
<1>7. QED
  BY <1>1, <1>3, <1>4, <1>5, <1>6 DEF MutatedOf, Kept

\* Every step but the start of mutations.
Settles ==
    \A s \in SealEpochs : phase'[s] \in Settling =>
        /\ phase[s] \in Settling /\ mutationSet'[s] = mutationSet[s]
        /\ \A e \in Slots :
            /\ stored'[s][e] \subseteq stored[s][e] \cup mutationSet[s]
            /\ \A n \in required[s][e] :
                \/ phase'[s] = "MUTATION" /\ n \in required'[s][e]
                \/ n \in stored[s][e]
                \/ e \notin mutators[s]
                \/ phase[s] # "MUTATION"

LEMMA MutatedStays ==
    ASSUME TypeOK, TypeOK', PrecedenceInv, AgreementInv, MutatedInv, Growth,
           Overwritten, NEW s \in SealEpochs, NEW e \in Slots,
           phase[s] \in Settling, mutationSet'[s] = mutationSet[s],
           stored'[s][e] \subseteq stored[s][e] \cup mutationSet[s],
           \A n \in required[s][e] :
                \/ phase'[s] = "MUTATION" /\ n \in required'[s][e]
                \/ n \in stored[s][e]
                \/ e \notin mutators[s]
                \/ phase[s] # "MUTATION"
    PROVE  MutatedOf(s, e)'
<1>1. MutatedOf(s, e) /\ Proposed(s) /\ CopyInv
  BY DEF MutatedInv, AgreementInv, ProposalInv
<1>2. stored[s][e] \subseteq mutationSet[s] /\ stored[s][e] \subseteq Shards
  BY <1>1 DEF MutatedOf, TypeOK
<1>3. \A n \in stored[s][e] : Kept(store[n][e], s) /\ n \in Shards
  BY <1>1, <1>2 DEF CopyInv
<1>4. QED
  BY <1>1, <1>2, <1>3, MutatedKept

LEMMA FreshStays ==
    ASSUME TypeOK, SealedInv, PrecedenceInv, FreshInv, Overwritten,
           NEW t \in SealEpochs, NEW n \in DOMAIN digest[t], NEW e \in Slots
    PROVE  store'[n][e] = digest[t][n][e] \/ Kept(store'[n][e], t)
<1>1. n \in Shards /\ seal[n] >= t
  BY DEF SealedInv, TypeOK
<1>2. store[n][e] = digest[t][n][e] \/ Kept(store[n][e], t)
  BY DEF FreshInv
<1>3. QED
  BY <1>1, <1>2, KeptStays, OverwrittenKept

LEMMA QuietContent ==
    ASSUME TypeOK, TypeOK', DurabilityInv, PrecedenceInv, AgreementInv, ContentInv,
           Growth, Overwritten, UNCHANGED <<settled, mutators>>, Settles
    PROVE  FoundInv' /\ MutatedInv'
<1>1. FoundInv'
  BY FoundKept DEF ContentInv, FoundInv
<1>2. MutatedInv'
  BY MutatedStays DEF ContentInv, MutatedInv, Settles
<1>3. QED
  BY <1>1, <1>2

LEMMA CleanKept ==
    ASSUME TypeOK, TypeOK', DurabilityInv, LngSound, AgreementInv, FoundInv, CleanInv,
           Growth, Overwritten, NEW n \in clean
    PROVE  \E s \in SealEpochs :
                /\ Decided(s)' /\ seal'[n] >= s
                /\ \A e \in Slots : store'[n][e].kind \in {"none", Outcome(s)'[e]}
<1>1. PICK s \in SealEpochs :
            /\ Decided(s) /\ seal[n] >= s
            /\ \A e \in Slots : store[n][e].kind \in {"none", Outcome(s)[e]}
  BY DEF CleanInv
<1>2. n \in Shards
  BY DEF TypeOK
<1>3. Decided(s)' /\ Outcome(s)' = Outcome(s)
  BY <1>1, DecidedKept DEF Decided, Growth
<1>4. seal'[n] >= s
  <2>1. seal[n] =< seal'[n] /\ seal[n] \in Nat /\ seal'[n] \in Nat /\ s \in Nat
    BY <1>2, NumberFacts DEF Growth, TypeOK
  <2>2. QED
    BY <1>1, <2>1
<1>5. ASSUME NEW e \in Slots
      PROVE  store'[n][e].kind \in {"none", Outcome(s)[e]}
  <2>1. ~(seal[n] < Epoch)
    BY <1>1, <1>2, NumberFacts
  <2>2. ASSUME NEW w \in SealEpochs, seal[n] =< w, settled[w][e].kind # "none",
               store'[n][e].kind = settled[w][e].kind
        PROVE  store'[n][e].kind = Outcome(s)[e]
    <3>1. s =< w
      BY <1>1, <1>2, <2>2, NumberFacts
    <3>2. Proposed(w)
      BY <2>2 DEF Proposed
    <3>3. Outcome(w) = Outcome(s)
      BY <1>1, <3>1, <3>2, DecidedCarries
    <3>4. QED
      BY <2>2, <3>3, KindIsOutcome
  <2>3. QED
    BY <1>1, <1>2, <2>1, <2>2 DEF Overwritten
<1>6. QED
  BY <1>3, <1>4, <1>5

LEMMA ContentStep ==
    ASSUME NoRestart, BridgeForEmptyEpoch, TypeOK, TypeOK', DurabilityInv,
           DurabilityInv', LngSound, LngSound', PrecedenceInv, AgreementInv,
           DigestsInOrder, ContentInv, Next
    PROVE  ContentInv'
<1>0. /\ Growth /\ Overwritten
      /\ SealedInv /\ ProposalInv /\ CopyInv /\ DigestCopyInv
      /\ FoundInv /\ FreshInv /\ MutatedInv /\ CleanInv
  BY StepGrowth, StepOverwritten DEF AgreementInv, DurabilityInv, ContentInv
<1>1. phase \in [SealEpochs -> Phases] /\ digest = [t \in SealEpochs |-> digest[t]]
      /\ mutationSet \in [SealEpochs -> SUBSET Shards]
      /\ required \in [SealEpochs -> [Slots -> SUBSET Shards]]
  BY DEF TypeOK
<1>2. ASSUME \A t \in SealEpochs : digest'[t] = digest[t] \/ digest'[t] = NoDigest
      PROVE  FreshInv'
  <2> SUFFICES ASSUME NEW t \in SealEpochs, NEW n \in DOMAIN digest'[t],
                      NEW e \in Slots
               PROVE  store'[n][e] = digest'[t][n][e] \/ Kept(store'[n][e], t)
    BY DEF FreshInv, Kept
  <2>1. digest'[t] = digest[t]
    BY <1>2 DEF NoDigest
  <2>2. QED
    BY <1>0, <2>1, FreshStays
<1>3. ASSUME clean' = clean PROVE CleanInv'
  <2>1. \A n \in clean : \E s \in SealEpochs :
                /\ Decided(s)' /\ seal'[n] >= s
                /\ \A e \in Slots : store'[n][e].kind \in {"none", Outcome(s)'[e]}
    BY <1>0, CleanKept
  <2>2. QED
    BY <1>3, <2>1 DEF CleanInv
<1>4. ASSUME UNCHANGED <<settled, mutators, stored, clean>>,
             \A t \in SealEpochs :
                /\ digest'[t] = digest[t] \/ digest'[t] = NoDigest
                /\ \/ phase'[t] = "PREEMPTED"
                   \/ /\ phase'[t] \in Settling => phase[t] \in Settling
                      /\ phase[t] = "MUTATION" => phase'[t] = "MUTATION"
                      /\ mutationSet'[t] = mutationSet[t]
                      /\ required'[t] = required[t]
      PROVE  ContentInv'
  <2>1. Settles
    BY <1>4 DEF Settles, Settling
  <2>2. FoundInv' /\ MutatedInv'
    BY <1>0, <1>4, <2>1, QuietContent
  <2>3. QED
    BY <1>2, <1>3, <1>4, <2>2 DEF ContentInv
<1>5. CASE SequencerNext
  <2>1. UNCHANGED <<settled, mutators, stored, clean, digest, phase, mutationSet,
                    required>>
    BY <1>5 DEF SequencerNext, Append, Acknowledge, StoreRecord, shardVars,
                machineVars
  <2>2. QED
    BY <1>4, <2>1
<1>6. ASSUME NEW s \in SealEpochs, MachineNext(s) PROVE ContentInv'
  <2>1. CASE \E n \in Shards : Seal(s, n) \/ SealReplyLost(s, n)
    <3>1. UNCHANGED <<settled, mutators, stored, clean, digest, phase,
                      mutationSet, required>>
      BY <2>1 DEF Seal, SealReplyLost, machineVars
    <3>2. QED
      BY <1>4, <3>1
  <2>2. ASSUME Preempted(s)
        PROVE  /\ UNCHANGED <<settled, mutators, stored>>
               /\ \A t \in SealEpochs :
                    /\ digest'[t] = digest[t] \/ digest'[t] = NoDigest
                    /\ \/ phase'[t] = "PREEMPTED"
                       \/ /\ phase'[t] = phase[t]
                          /\ mutationSet'[t] = mutationSet[t]
                          /\ required'[t] = required[t]
    BY <1>1, <2>2 DEF Preempted
  <2>3. CASE \/ \E n \in Shards : SealPreempted(s, n)
             \/ \E e \in Slots, n \in Shards : MutatePreempted(s, e, n)
    <3>1. Preempted(s) /\ clean' = clean
      BY <2>3 DEF SealPreempted, MutatePreempted, shardVars
    <3>2. QED
      BY <1>4, <2>2, <3>1
  <2>4. CASE StartDigest(s) \/ AdvanceLCE(s) \/ AdvanceLCEReplyLost(s)
    <3>1. /\ UNCHANGED <<settled, mutators, stored, clean, digest, mutationSet,
                         required>>
          /\ \A t \in SealEpochs : \/ phase'[t] = phase[t]
                                   \/ phase[t] = "SEAL" /\ phase'[t] = "DIGEST"
                                   \/ phase[t] = "ADVANCE_LCE"
      BY <1>1, <2>4 DEF StartDigest, AdvanceLCE, AdvanceLCEReplyLost, shardVars,
                        machineVars
    <3>2. QED
      BY <1>4, <3>1 DEF Settling
  <2>5. CASE \E n \in Shards : DigestShard(s, n)
    <3>1. PICK n \in Shards : DigestShard(s, n)
      BY <2>5
    <3>2. UNCHANGED <<settled, mutators, stored, clean, phase, mutationSet,
                      required, store>>
      BY <3>1 DEF DigestShard, shardVars
    <3>3. Settles
      BY <3>2 DEF Settles
    <3>4. FoundInv' /\ MutatedInv'
      BY <1>0, <3>2, <3>3, QuietContent
    <3>5. /\ \A t \in SealEpochs : t # s => digest'[t] = digest[t]
          /\ digest'[s] = [m \in DOMAIN digest[s] \cup {n} |->
                                IF m = n THEN store[n] ELSE digest[s][m]]
      BY <1>1, <3>1 DEF DigestShard
    <3>6. FreshInv'
      BY <1>0, <3>2, <3>5 DEF FreshInv, Kept
    <3>7. QED
      BY <1>3, <3>2, <3>4, <3>6 DEF ContentInv
  <2>6. ASSUME NEW D \in SUBSET DOMAIN digest[s], NEW M \in SUBSET D,
               NEW r \in Selections(digest[s]), StartMutations(s, D, M, r)
        PROVE  ContentInv'
    <3>1. /\ UNCHANGED <<store, stored, clean, lng>> /\ digest'[s] = NoDigest
          /\ \A t \in SealEpochs : t # s =>
                /\ settled'[t] = settled[t] /\ mutators'[t] = mutators[t]
                /\ digest'[t] = digest[t] /\ phase'[t] = phase[t]
                /\ mutationSet'[t] = mutationSet[t] /\ required'[t] = required[t]
      BY <2>6, StartFacts
    <3>2. ASSUME NEW t \in SealEpochs, NEW e \in Slots,
                 settled'[t][e].kind # "none", e \notin mutators'[t]
          PROVE  Found(t, e)'
      <4>1. CASE t = s
        BY <1>0, <2>6, <3>2, <4>1, NewFound
      <4>2. CASE t # s
        BY <1>0, <3>1, <3>2, <4>2, FoundKept DEF FoundInv
      <4>3. QED
        BY <4>1, <4>2
    <3>3. ASSUME NEW t \in SealEpochs, NEW e \in Slots, phase'[t] \in Settling
          PROVE  MutatedOf(t, e)'
      <4>1. CASE t = s
        BY <1>0, <2>6, <4>1, NewMutated
      <4>2. CASE t # s
        <5>1. /\ phase'[t] = phase[t] /\ mutationSet'[t] = mutationSet[t]
              /\ required'[t] = required[t] /\ stored' = stored
          BY <3>1, <4>2
        <5>2. QED
          BY <1>0, <3>3, <5>1, MutatedStays
      <4>3. QED
        BY <4>1, <4>2
    <3>4. FreshInv'
      BY <1>2, <3>1
    <3>5. QED
      BY <1>3, <3>1, <3>2, <3>3, <3>4 DEF ContentInv, FoundInv, MutatedInv
  <2>7. CASE \E e \in Slots, n \in Shards : MutateShard(s, e, n)
    <3>1. PICK e \in Slots, n \in Shards : MutateShard(s, e, n)
      BY <2>7
    <3>2. /\ UNCHANGED <<settled, mutators, clean, digest, phase, mutationSet,
                         required>>
          /\ n \in mutationSet[s]
          /\ stored' = [stored EXCEPT ![s][e] = @ \cup {n}]
      BY <3>1 DEF MutateShard
    <3>3. \A t \in SealEpochs, k \in Slots :
                stored'[t][k] \subseteq stored[t][k] \cup mutationSet[t]
      <4>1. stored \in [SealEpochs -> [Slots -> SUBSET Shards]]
        BY DEF TypeOK
      <4>2. /\ stored'[s][e] = stored[s][e] \cup {n}
            /\ \A t \in SealEpochs, k \in Slots :
                    t # s \/ k # e => stored'[t][k] = stored[t][k]
        BY <3>2, <4>1, Zenon
      <4>3. QED
        BY <3>2, <4>2
    <3>4. Settles
      BY <3>2, <3>3 DEF Settles
    <3>5. FoundInv' /\ MutatedInv'
      BY <1>0, <3>2, <3>4, QuietContent
    <3>6. QED
      BY <1>2, <1>3, <3>2, <3>5 DEF ContentInv
  <2>8. CASE MutationComplete(s)
    <3>1. /\ UNCHANGED <<settled, mutators, stored, clean, digest, mutationSet>>
          /\ phase[s] = "MUTATION"
          /\ \A e \in mutators[s] : required[s][e] \subseteq stored[s][e]
          /\ \A t \in SealEpochs : t # s =>
                phase'[t] = phase[t] /\ required'[t] = required[t]
      BY <1>1, <2>8 DEF MutationComplete, MutationDone, shardVars
    <3>2. Settles
      BY <3>1 DEF Settles, Settling
    <3>3. FoundInv' /\ MutatedInv'
      BY <1>0, <3>1, <3>2, QuietContent
    <3>4. QED
      BY <1>2, <1>3, <3>1, <3>3 DEF ContentInv
  <2>9. ASSUME NEW n \in Shards, Clean(s, n) PROVE ContentInv'
    <3>1. /\ UNCHANGED <<seal, store>> /\ phase[s] = "CLEAN" /\ n \in mutationSet[s]
          /\ clean' = clean \cup {n}
      BY <2>9 DEF Clean
    <3>2. UNCHANGED <<settled, mutators, stored>> /\ \A t \in SealEpochs :
                /\ digest'[t] = digest[t] \/ digest'[t] = NoDigest
                /\ \/ phase'[t] = "PREEMPTED"
                   \/ /\ phase'[t] \in Settling => phase[t] \in Settling
                      /\ phase[t] = "MUTATION" => phase'[t] = "MUTATION"
                      /\ mutationSet'[t] = mutationSet[t]
                      /\ required'[t] = required[t]
      <4>1. CASE Preempted(s)
        BY <2>2, <4>1
      <4>2. CASE ~Preempted(s)
        <5>1. /\ UNCHANGED <<settled, mutators, stored, digest, mutationSet, required>>
              /\ \A t \in SealEpochs : phase'[t] = phase[t] \/ phase[t] = "CLEAN"
          BY <1>1, <2>9, <4>2 DEF Clean
        <5>2. QED
          BY <5>1 DEF Settling
      <4>3. QED
        BY <4>1, <4>2
    <3>3. Settles
      BY <3>2 DEF Settles, Settling
    <3>4. FoundInv' /\ MutatedInv' /\ FreshInv'
      BY <1>0, <1>2, <3>2, <3>3, QuietContent
    <3>5. Decided(s) /\ seal[n] >= s /\ phase[s] \in Finished
      BY <1>0, <3>1 DEF ProposalInv, Finished, PrecedenceInv
    <3>6. \A e \in Slots : store[n][e].kind \in {"none", Outcome(s)[e]}
      BY <1>0, <3>1, <3>5, MutatedShards
    <3>7. Decided(s)' /\ Outcome(s)' = Outcome(s)
      BY <1>0, <3>5, DecidedKept DEF Decided, Growth
    <3>8. \A m \in clean : \E t \in SealEpochs :
                /\ Decided(t)' /\ seal'[m] >= t
                /\ \A e \in Slots : store'[m][e].kind \in {"none", Outcome(t)'[e]}
      BY <1>0, CleanKept
    <3>9. CleanInv'
      BY <3>1, <3>5, <3>6, <3>7, <3>8 DEF CleanInv
    <3>10. QED
      BY <3>4, <3>9 DEF ContentInv
  <2>10. ~Restart(s)
    BY DEF Restart, NoRestart, TypeOK
  <2>11. QED
    BY <1>6, <2>1, <2>3, <2>4, <2>5, <2>6, <2>7, <2>8, <2>9, <2>10 DEF MachineNext
<1>7. QED
  BY <1>5, <1>6 DEF Next

LEMMA ContentInit == Init => ContentInv
<1> SUFFICES ASSUME Init PROVE ContentInv
  OBVIOUS
<1>1. /\ \A s \in SealEpochs : /\ phase[s] = "SEAL" /\ settled[s] = NoChange
                               /\ digest[s] = NoDigest
      /\ clean = {}
  BY DEF Init, MachinesInit
<1>2. FoundInv /\ FreshInv
  BY <1>1 DEF FoundInv, FreshInv, NoChange, NoDigest
<1>3. MutatedInv /\ CleanInv
  BY <1>1 DEF MutatedInv, CleanInv, Settling
<1>4. QED
  BY <1>2, <1>3 DEF ContentInv

LEMMA ContentInvariance ==
    ASSUME NoRestart, BridgeForEmptyEpoch
    PROVE  Spec /\ []Majorities /\ []DigestsInOrder => []ContentInv
<1>1. ASSUME ContentInv, UNCHANGED vars PROVE ContentInv'
  <2>1. UNCHANGED <<copies, seal, store, clean, phase, lng, digest, mutationSet,
                    settled, mutators, required, stored>>
    BY <1>1 DEF vars, seqVars, shardVars, machineVars
  <2>2. FoundInv' /\ FreshInv'
    BY <1>1, <2>1 DEF ContentInv, FoundInv, Found, FreshInv, Kept
  <2>3. MutatedInv'
    BY <1>1, <2>1 DEF ContentInv, MutatedInv, MutatedOf, Kept
  <2>4. \A s \in SealEpochs : Outcome(s)' = Outcome(s) /\ (Decided(s)' <=> Decided(s))
    BY <2>1 DEF Outcome, Decided, Proposed, Chosen
  <2>5. CleanInv'
    BY <1>1, <2>1, <2>4 DEF ContentInv, CleanInv
  <2>6. QED
    BY <2>2, <2>3, <2>5 DEF ContentInv
<1>2. TypeOK /\ TypeOK' /\ DurabilityInv /\ DurabilityInv' /\ LngSound
        /\ LngSound' /\ PrecedenceInv /\ AgreementInv /\ DigestsInOrder
        /\ ContentInv /\ [Next]_vars => ContentInv'
  BY <1>1, ContentStep
<1>3. QED
  BY <1>2, ContentInit, AgreementInvariance, TypeCorrect, Durability,
     LastKnownGoodSound, PrecedenceInvariance, PTL DEF Spec

\* When an EpochRecovery machine is past its mutations, what it settled for an
\* ESN is on a copyset of its mutation set and nothing on that set contradicts
\* it, whatever later machines have written there since; under the same
\* conditions, and if no machine digests what a later one has stored.
THEOREM RecoveredIsReplicated ==
    ASSUME NoRestart, BridgeForEmptyEpoch
    PROVE  Spec /\ []Majorities /\ []DigestsInOrder => []RecoveredReplicated
<1>1. TypeOK /\ DurabilityInv /\ LngSound /\ AgreementInv /\ ContentInv
        => RecoveredReplicated
  <2> SUFFICES ASSUME TypeOK, DurabilityInv, LngSound, AgreementInv, ContentInv,
                      NEW s \in SealEpochs, phase[s] \in Finished,
                      NEW e \in Slots, settled[s][e].kind # "none"
               PROVE  /\ CanReplicate({n \in mutationSet[s] :
                                store[n][e].kind = settled[s][e].kind})
                      /\ \A n \in mutationSet[s] :
                            store[n][e].kind \in {"none", settled[s][e].kind}
    BY DEF RecoveredReplicated
  <2>1. /\ FoundInv /\ MutatedInv /\ CopyInv /\ Decided(s) /\ MutatedOf(s, e)
        /\ \A n \in mutationSet[s] : n \in Shards
    BY DEF ContentInv, AgreementInv, ProposalInv, MutatedInv, Finished, Settling,
           TypeOK
  <2>2. Outcome(s)[e] = settled[s][e].kind
    BY KindIsOutcome
  <2>3. \A n \in mutationSet[s] : store[n][e].kind \in {"none", settled[s][e].kind}
    BY <2>1, <2>2, MutatedShards
  <2>4. ASSUME NEW n \in mutationSet[s], Kept(store[n][e], s)
        PROVE  store[n][e].kind = settled[s][e].kind
    BY <2>1, <2>2, <2>4, KeptKind
  <2>5. CASE e \in mutators[s]
    <3>1. PICK c \in CopySets : c \subseteq stored[s][e]
      BY <2>1, <2>5 DEF Decided, Chosen
    <3>2. \A n \in c : n \in mutationSet[s]
      BY <2>1, <3>1 DEF MutatedOf
    <3>3. \A n \in c : Kept(store[n][e], s)
      BY <2>1, <3>1, <3>2 DEF CopyInv
    <3>4. c \subseteq {n \in mutationSet[s] : store[n][e].kind = settled[s][e].kind}
      BY <2>4, <3>2, <3>3
    <3>5. QED
      BY <2>3, <3>4 DEF CanReplicate
  <2>6. CASE e \notin mutators[s]
    <3>1. PICK c \in CopySets : \A n \in c :
                /\ n \in mutationSet[s]
                /\ \/ store[n][e].kind = settled[s][e].kind
                   \/ Kept(store[n][e], s)
      BY <2>1, <2>6 DEF MutatedOf
    <3>2. c \subseteq {n \in mutationSet[s] : store[n][e].kind = settled[s][e].kind}
      BY <2>4, <3>1
    <3>3. QED
      BY <2>3, <3>2 DEF CanReplicate
  <2>7. QED
    BY <2>5, <2>6
<1>2. QED
  BY <1>1, ContentInvariance, AgreementInvariance, TypeCorrect, Durability,
     LastKnownGoodSound, PTL

\* A shard that PurgeCoordinator::onCleanMessage marked clean holds no copy that
\* contradicts the outcome on record, also when the CLEAN was that of a machine
\* which lost the race; under the conditions of RecoveredIsReplicated.
THEOREM CleanShardsHoldOutcome ==
    ASSUME NoRestart, BridgeForEmptyEpoch
    PROVE  Spec /\ []Majorities /\ []DigestsInOrder => []CleanShardsAgree
<1>1. TypeOK /\ DurabilityInv /\ LngSound /\ AgreementInv /\ ContentInv /\ LceInv
        => CleanShardsAgree
  <2> SUFFICES ASSUME TypeOK, DurabilityInv, LngSound, AgreementInv, ContentInv,
                      LceInv, lce # NoOutcome, NEW n \in clean, NEW e \in Slots
               PROVE  store[n][e].kind \in {"none", lce[e]}
    BY DEF CleanShardsAgree
  <2>1. PICK t \in SealEpochs : Decided(t) /\ lce = Outcome(t)
    BY DEF LceInv
  <2>2. PICK s \in SealEpochs :
            Decided(s) /\ \A k \in Slots : store[n][k].kind \in {"none", Outcome(s)[k]}
    BY DEF ContentInv, CleanInv
  <2>3. Outcome(s) = Outcome(t)
    BY <2>1, <2>2, DecidedAgree
  <2>4. QED
    BY <2>1, <2>2, <2>3
<1>2. QED
  BY <1>1, ContentInvariance, AgreementInvariance, LceInvariance, TypeCorrect,
     Durability, LastKnownGoodSound, PTL
=============================================================================
