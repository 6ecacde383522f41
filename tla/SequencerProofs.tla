-------------------------- MODULE SequencerProofs --------------------------
(***************************************************************************)
(* Proofs about Sequencer, for any bounds: any number of epochs, of ESNs   *)
(* in each of them, of activations in flight and of stops.                 *)
(***************************************************************************)
EXTENDS Sequencer, Extrema, SequenceTheorems

Labels == {"idle", "called", "disabled", "targeted", "check", "quiescent",
           "notify", "return", "done", "reap", "release", "advance"}

Activated == {e \in Epochs : epochState[e] # "NONE"}

\* What a caller of transitionTo() may have left to do.
Calls == [op : Transitions, epoch : Epochs]
Rests == {<< >>, <<Recover>>} \cup {<<c>> : c \in Calls}

TypeInv ==
    /\ epochState \in [Epochs -> {"NONE", "ACTIVE", "DRAINING", "DYING",
                                  "QUIESCENT"}]
    /\ open \in [Epochs -> BOOLEAN]
    /\ issued \in [Epochs -> Nat]
    /\ replicated \in [Epochs -> SUBSET Nat]
    /\ aborted \in [Epochs -> SUBSET Nat]
    /\ lng \in [Epochs -> Nat]
    /\ lastReaped \in [Epochs -> Nat]
    /\ target \in [Epochs -> Nat]
    /\ lngChanged \in [Epochs -> BOOLEAN]

ThreadTypes ==
    /\ pc \in [Epochs -> [Actors -> Labels]]
    /\ rest \in [Epochs -> [Transitions -> Rests]]

\* Every epoch is activated at most once, and what refers to an epoch refers to
\* one that was.
EpochInv ==
    /\ bound \in Bounds
    /\ storeEpoch \in 0 .. bound.epochs
    /\ replies \subseteq 1 .. storeEpoch
    /\ Activated \subseteq 1 .. storeEpoch
    /\ replies \cap Activated = {}
    /\ {current, draining} \subseteq Activated \cup {0}

RecoveryInv ==
    /\ requests \subseteq Activated
    /\ running \in Activated \cup {0}

\* An epoch that was never activated is untouched, and nobody will call it.
FreshInv ==
    \A e \in Epochs : epochState[e] = "NONE" =>
        /\ ~open[e]
        /\ issued[e] = 0
        /\ \A n \in Transitions :
            /\ pc[e][n] = "idle"
            /\ \A f \in Epochs, m \in Transitions :
                    rest[f][m] # <<Call(n, e)>>

\* The LNG of an epoch covers replicated records only, and the reaper of an
\* epoch that has moved the LNG has moved it to the element it reaps.
LngAt(e) ==
    /\ 1 .. lng[e] \subseteq replicated[e]
    /\ replicated[e] \cup aborted[e] \subseteq 1 .. issued[e]
    /\ pc[e]["reaper"] = "reap" =>
        /\ lastReaped[e] + 1 \in replicated[e] \cup aborted[e]
        /\ lngChanged[e] = TRUE => lng[e] = lastReaped[e] + 1
    /\ pc[e]["reaper"] \in {"check", "quiescent", "notify", "release"} =>
        (lngChanged[e] = TRUE => lng[e] = lastReaped[e])
    /\ pc[e]["reaper"] = "advance" => lng[e] = lastReaped[e]

LngInv == \A e \in Epochs : LngAt(e)

ReleaseInv ==
    /\ lastReleased \in [epoch : 0 .. MaxEpoch, esn : Nat]
    /\ lastReleased.epoch # 0 => lastReleased.esn =< lng[lastReleased.epoch]
    /\ completing # None => current # 0 /\ completing \in 0 .. lng[current]

\* The draining target is set once the window is closed, and then it is final.
TargetInv ==
    \A e \in Epochs :
        /\ issued[e] =< MaxEsn
        /\ lastReaped[e] =< issued[e]
        /\ target[e] # LsnMax => ~open[e] /\ target[e] = issued[e]
        /\ \A n \in Transitions :
                pc[e][n] \in {"disabled", "targeted"} => ~open[e]
        /\ \A a \in Actors : pc[e][a] = "quiescent" =>
                target[e] # LsnMax /\ lastReaped[e] = target[e]
        /\ epochState[e] = "QUIESCENT" =>
                target[e] # LsnMax /\ lastReaped[e] = target[e]

\* EpochSequencer::state_mutex_: one transition at a time, and a forward one.
MutexInv ==
    \A e \in Epochs :
        /\ \A n \in Transitions : pc[e][n] \in {"disabled", "targeted"} =>
                Rank(epochState[e]) < Rank(n)
        /\ \A m, n \in Transitions :
                pc[e][m] \in {"disabled", "targeted"}
                    /\ pc[e][n] \in {"disabled", "targeted"} => m = n

Busy(e, n) == pc[e][n] \notin {"idle", "done"}

\* A thread will call transition op of epoch f when the transition it is in
\* returns.
Promises(e, n, op, f) == Busy(e, n) /\ rest[e][n] = <<Call(op, f)>>

\* The transition will be called when the epoch stops to be the current or the
\* draining one.
Due(op, f) == f # 0 /\ (f = current \/ (f = draining /\ op = "DYING"))

\* A transition of an epoch is called once: first it is due, then it is called
\* or promised by one thread, which will call it.
CallInv ==
    /\ current # 0 => current # draining
    /\ \A op \in Transitions, f \in Epochs : Due(op, f) =>
        /\ pc[f][op] = "idle"
        /\ \A e \in Epochs, n \in Transitions : ~Promises(e, n, op, f)
    /\ \A e, f \in Epochs, n, op \in Transitions :
        Promises(e, n, op, f) =>
            /\ pc[f][op] = "idle"
            /\ \A g \in Epochs, m \in Transitions :
                    Promises(g, m, op, f) => g = e /\ m = n

\* The target of an epoch that is still ACTIVE was set by a thread that is about
\* to store the new state.
AfterTargetInv ==
    \A e \in Epochs :
        target[e] # LsnMax /\ Rank(epochState[e]) < Rank("DRAINING") =>
            \E n \in Transitions : pc[e][n] = "targeted"

\* With ordered replies the current epoch is the last one that was activated.
OrderInv ==
    /\ \A e \in Activated : \A r \in replies : e < r
    /\ current # 0 => \A e \in Activated : e =< current
    /\ completing # None => current =< running

Inv == /\ TypeInv /\ ThreadTypes /\ EpochInv /\ RecoveryInv /\ FreshInv /\ LngInv
       /\ ReleaseInv /\ TargetInv /\ MutexInv /\ CallInv /\ AfterTargetInv
       /\ (OrderedReplies => OrderInv)


-----------------------------------------------------------------------------
(* The operators the model is built from.                                  *)

LEMMA RankValues ==
    /\ Rank("NONE") = 1 /\ Rank("ACTIVE") = 2 /\ Rank("DRAINING") = 3
    /\ Rank("DYING") = 4 /\ Rank("QUIESCENT") = 5
<1>1. DOMAIN EpochStates = 1 .. 5
  BY DEF EpochStates
<1>2. /\ EpochStates[1] = "NONE" /\ EpochStates[2] = "ACTIVE"
      /\ EpochStates[3] = "DRAINING" /\ EpochStates[4] = "DYING"
      /\ EpochStates[5] = "QUIESCENT"
  BY DEF EpochStates
<1>3. \A i \in 1 .. 5 : i = 1 \/ i = 2 \/ i = 3 \/ i = 4 \/ i = 5
  OBVIOUS
<1>4. QED
  BY <1>1, <1>2, <1>3 DEF Rank

LEMMA MaxEpochBounds ==
    MaxEpoch \in Nat /\ \A b \in Bounds : b.epochs \in 1 .. MaxEpoch
<1> DEFINE S == {b.epochs : b \in Bounds}
<1>1. PICK h : h = [b \in Bounds |-> b.epochs]
  OBVIOUS
<1>2. S \subseteq Int /\ S # {} /\ DrawnFrom(S, 0, h, Bounds)
  BY <1>1, BoundsAssumption DEF DrawnFrom
<1>3. \A b \in Bounds : b.epochs \in S /\ b.epochs \in Nat /\ b.epochs >= 1
  BY BoundsAssumption
<1>4. IsMaximum(Max(S), S)
  <2> HIDE DEF S
  <2>1. QED
    BY <1>2, MaxOfImage, BoundsAssumption
<1>5. MaxEpoch = Max(S)
  BY DEF MaxEpoch
<1>6. QED
  <2>1. PICK b \in Bounds : TRUE
    BY BoundsAssumption
  <2> HIDE DEF S
  <2>2. MaxEpoch \in Int /\ \A c \in Bounds : MaxEpoch >= c.epochs
    BY <1>2, <1>3, <1>4, <1>5 DEF IsMaximum
  <2>3. QED
    BY <1>3, <2>1, <2>2

LEMMA MaxEsnBounds ==
    /\ MaxEsn \in Nat
    /\ \A b \in Bounds : \A e \in 1 .. b.epochs : b.esns[e] \in 0 .. MaxEsn
<1> DEFINE S == {0} \cup UNION {Range(b.esns) : b \in Bounds}
           T == Bounds \X (1 .. MaxEpoch)
<1>1. PICK h : h = [p \in T |-> p[1].esns[p[2]]]
  OBVIOUS
<1>2. \A b \in Bounds : \A e \in 1 .. b.epochs :
            b.esns[e] \in Nat /\ b.esns[e] \in S
  BY BoundsAssumption DEF Range
<1>3. \A x \in S : x = 0 \/ \E b \in Bounds : \E e \in 1 .. b.epochs :
                                x = b.esns[e]
  BY BoundsAssumption DEF Range
<1>4. S \subseteq Int /\ 0 \in S
  <2>1. 0 \in S
    OBVIOUS
  <2> HIDE DEF S
  <2>2. SUFFICES ASSUME NEW x \in S PROVE x \in Int
    BY <2>1
  <2>3. CASE x = 0
    BY <2>3
  <2>4. CASE x # 0
    <3>1. PICK b \in Bounds : \E e \in 1 .. b.epochs : x = b.esns[e]
      BY <1>3, <2>4
    <3>2. PICK e \in 1 .. b.epochs : x = b.esns[e]
      BY <3>1
    <3>3. QED
      BY <1>2, <3>2
  <2>5. QED
    BY <2>3, <2>4
<1>5. DrawnFrom(S, 0, h, T)
  <2> SUFFICES ASSUME NEW x \in S, x # 0 PROVE \E p \in T : h[p] = x
    BY DEF DrawnFrom
  <2>0. PICK b \in Bounds : \E e \in 1 .. b.epochs : x = b.esns[e]
    BY <1>3
  <2>1. PICK e \in 1 .. b.epochs : x = b.esns[e]
    BY <2>0
  <2>2. <<b, e>> \in T /\ h[<<b, e>>] = x
    BY <1>1, <2>1, MaxEpochBounds
  <2>3. QED
    BY <2>2
<1>6. IsFiniteSet(T)
  <2>1. IsFiniteSet(1 .. MaxEpoch)
    BY MaxEpochBounds, FS_Interval
  <2>2. QED
    BY <2>1, BoundsAssumption, FS_Product
<1>7. MaxEsn = Max(S)
  BY DEF MaxEsn
<1> HIDE DEF S, T
<1>8. IsMaximum(Max(S), S)
  BY <1>4, <1>5, <1>6, MaxOfImage
<1>9. MaxEsn \in Int /\ \A x \in S : MaxEsn >= x
  BY <1>4, <1>7, <1>8 DEF IsMaximum
<1>10. QED
  <2>1. MaxEsn \in Nat
    BY <1>4, <1>9
  <2>2. SUFFICES ASSUME NEW b \in Bounds, NEW e \in 1 .. b.epochs
                 PROVE  b.esns[e] \in 0 .. MaxEsn
    BY <2>1
  <2>3. QED
    BY <1>2, <1>9

LEMMA GotoEffect ==
    ASSUME pc \in [Epochs -> [Actors -> Labels]],
           NEW e \in Epochs, NEW a \in Actors, NEW l \in Labels, Goto(e, a, l)
    PROVE  /\ pc' \in [Epochs -> [Actors -> Labels]]
           /\ \A f \in Epochs, b \in Actors :
                pc'[f][b] = IF f = e /\ b = a THEN l ELSE pc[f][b]
BY DEF Goto

\* The thread goes on with a call of transition op of epoch f, and will do r
\* when that returns; p is pc without the new call.
Calling(op, f, r, p) ==
    /\ \A g \in Epochs, b \in Actors :
            pc'[g][b] = IF g = f /\ b = op THEN "called" ELSE p[g][b]
    /\ \A g \in Epochs, m \in Transitions :
            rest'[g][m] = IF g = f /\ m = op THEN r ELSE rest[g][m]

LEMMA ProceedWithout ==
    ASSUME NEW cs \in {<< >>, <<Recover>>}, NEW p, Proceed(cs, p)
    PROVE  pc' = p /\ rest' = rest
<1>1. Head(<<Recover>>) = Recover /\ <<Recover>> # << >>
  OBVIOUS
<1>2. QED
  BY <1>1 DEF Proceed

LEMMA RestsMembers ==
    /\ << >> \in Rests /\ <<Recover>> \in Rests
    /\ \A op \in Transitions, f \in Epochs : <<Call(op, f)>> \in Rests
BY DEF Rests, Calls, Call

LEMMA ProceedWithCall ==
    ASSUME NEW p \in [Epochs -> [Actors -> Labels]],
           rest \in [Epochs -> [Transitions -> Rests]],
           NEW op \in Transitions, NEW f \in Epochs, NEW r \in Rests,
           NEW cs, cs # << >>, Head(cs) = Call(op, f), Tail(cs) = r,
           Proceed(cs, p)
    PROVE  /\ Calling(op, f, r, p)
           /\ pc' \in [Epochs -> [Actors -> Labels]]
           /\ rest' \in [Epochs -> [Transitions -> Rests]]
<1>1. Head(cs) # Recover
  BY DEF Recover, Call, Transitions
<1>2. Head(cs).op = op /\ Head(cs).epoch = f
  BY DEF Call
<1>3. /\ pc' = [p EXCEPT ![f][op] = "called"]
      /\ rest' = [rest EXCEPT ![f][op] = r]
  BY <1>1, <1>2 DEF Proceed
<1>4. op \in Actors /\ "called" \in Labels
  BY DEF Transitions, Actors, Labels
<1>5. QED
  BY <1>3, <1>4 DEF Calling

LEMMA CallSequences ==
    ASSUME NEW c, NEW d
    PROVE  /\ << >> \o << >> = << >>
           /\ << >> \o <<c>> = <<c>> /\ <<c>> \o << >> = <<c>>
           /\ <<c>> \o <<d>> = <<c, d>>
           /\ <<c>> # << >> /\ Head(<<c>>) = c /\ Tail(<<c>>) = << >>
           /\ <<c, d>> # << >> /\ Head(<<c, d>>) = c /\ Tail(<<c, d>>) = <<d>>
<1>1. << >> \o << >> = << >>
  OBVIOUS
<1>2. << >> \o <<c>> = <<c>> /\ <<c>> \o << >> = <<c>>
  OBVIOUS
<1>3. <<c>> \o <<d>> = <<c, d>>
  <2>1. PICK S : S = {c, d}
    OBVIOUS
  <2>2. <<c>> \in Seq(S) /\ <<d>> \in Seq(S) /\ <<c, d>> \in Seq(S)
    BY <2>1
  <2>3. /\ Len(<<c>> \o <<d>>) = 2
        /\ (<<c>> \o <<d>>)[1] = c /\ (<<c>> \o <<d>>)[2] = d
    BY <2>2
  <2>4. <<c>> \o <<d>> \in Seq(S)
    BY <2>2
  <2>5. \A i \in 1 .. 2 : (<<c>> \o <<d>>)[i] = <<c, d>>[i]
    BY <2>3
  <2>6. QED
    BY <2>2, <2>3, <2>4, <2>5, SeqEqual
<1>4. <<c>> # << >> /\ Head(<<c>>) = c
  OBVIOUS
<1>5. Tail(<<c>>) = << >>
  OBVIOUS
<1>6. <<c, d>> # << >> /\ Head(<<c, d>>) = c
  OBVIOUS
<1>7. Tail(<<c, d>>) = <<d>>
  OBVIOUS
<1>8. QED
  BY <1>1, <1>2, <1>3, <1>4, <1>5, <1>6, <1>7

-----------------------------------------------------------------------------
(* Activation is never stuck.                                              *)

ActivatingInv ==
    /\ pending \in [0 .. MaxEpoch -> Nat]
    /\ failing \in Nat
    /\ NeverStuckActivating

LEMMA ActivatingStep == ActivatingInv /\ [Next]_vars => ActivatingInv'
<1> SUFFICES ASSUME ActivatingInv, [Next]_vars PROVE ActivatingInv'
  OBVIOUS
<1> USE DEF ActivatingInv, NeverStuckActivating
<1>1. CASE UNCHANGED <<state, pending, replies, failing>>
  BY <1>1
<1>2. ASSUME NEW a \in 0 .. MaxEpoch, StartActivation(a) PROVE ActivatingInv'
  BY <1>2 DEF StartActivation
<1>3. ASSUME NEW a \in 0 .. MaxEpoch, EpochStoreReply(a) PROVE ActivatingInv'
  BY <1>3 DEF EpochStoreReply, Answered, parentVars
<1>4. ASSUME NEW a \in 0 .. MaxEpoch, EpochStoreError(a) PROVE ActivatingInv'
  BY <1>4 DEF EpochStoreError, Answered, parentVars
<1>5. ASSUME NEW a \in 0 .. MaxEpoch, EpochStoreAborted(a)
      PROVE  ActivatingInv'
  BY <1>5 DEF EpochStoreAborted, Answered
<1>6. ASSUME NEW a \in 0 .. MaxEpoch, OnPermanentError(a) PROVE ActivatingInv'
  BY <1>6 DEF OnPermanentError, Answered
<1>7. ASSUME NEW e \in Epochs, CompleteActivation(e) PROVE ActivatingInv'
  BY <1>7 DEF CompleteActivation, parentVars
<1>8. CASE OnActivationFailed
  BY <1>8 DEF OnActivationFailed, FailedState
<1>9. ASSUME NEW drain \in BOOLEAN, SetUnavailable(drain)
      PROVE  ActivatingInv'
  BY <1>9 DEF SetUnavailable, activationVars
<1>10. CASE PreemptionStep
  <2>1. UNCHANGED <<pending, replies, failing>> /\ state' \in {state, "PREEMPTED"}
    BY <1>10 DEF PreemptionStep, OtherNodeActivates, OtherNodeSeals,
                 NotePreempted, EnterPreempted, parentVars, activationVars
  <2>2. QED
    BY <2>1
<1>11. CASE AppenderStep
  BY <1>1, <1>11 DEF AppenderStep, RunAppender, RetireReplicated,
                     RetireAborted, parentVars, activationVars
<1>12. CASE \E e \in Epochs : EpochStep(e) \/ OnDrainingTimerExpired(e)
  <2>1. PICK e \in Epochs : EpochStep(e) \/ OnDrainingTimerExpired(e)
    BY <1>12
  <2>2. CASE OnDrainingTimerExpired(e)
    BY <1>1, <2>2 DEF OnDrainingTimerExpired, activationVars
  <2>3. CASE ReapLng(e) \/ ReapStore(e) \/ Release(e) \/ AdvanceLastReleased(e)
    BY <1>1, <2>3 DEF ReapLng, ReapStore, Release, AdvanceLastReleased,
                      parentVars, activationVars
  <2>4. ASSUME NEW n \in Transitions,
               \/ TransitionTo(e, n) \/ SetTarget(e, n) \/ SetState(e, n)
               \/ ReturnFromTransition(e, n)
        PROVE  ActivatingInv'
    BY <1>1, <2>4 DEF TransitionTo, SetTarget, SetState, ReturnFromTransition,
                      parentVars, activationVars
  <2>5. ASSUME NEW a \in Actors,
               \/ CheckQuiescent(e, a) \/ OnEpochQuiescent(e, a)
               \/ NoteDrainingCompleted(e, a)
        PROVE  ActivatingInv'
    BY <1>1, <2>5 DEF CheckQuiescent, OnEpochQuiescent, NoteDrainingCompleted,
                      parentVars, activationVars
  <2>6. QED
    BY <2>1, <2>2, <2>3, <2>4, <2>5 DEF EpochStep
<1>13. CASE RecoveryStep
  BY <1>1, <1>13 DEF RecoveryStep, StartRecovery, PopRecoveryRequest,
        DropRecovery, RunRecovery, QueueRecovery, RecoveryCompleted,
        FinishRecovery, RecoveryFailed, SealEpochs, RecoveryPreempted,
        parentVars, activationVars
<1>14. CASE UNCHANGED vars
  BY <1>1, <1>14 DEF vars, parentVars, activationVars
<1>15. QED
  BY <1>2, <1>3, <1>4, <1>5, <1>6, <1>7, <1>8, <1>9, <1>10, <1>11, <1>12,
     <1>13, <1>14 DEF Next, Within, Step, ActivationStep

\* A sequencer in ACTIVATING always has an answer on its way that moves it on:
\* an unanswered request to the epoch store, a reply to be handled or a thread
\* about to call onActivationFailed().
THEOREM ActivationMovesOn == Spec => []NeverStuckActivating
<1>1. Init => ActivatingInv
  BY MaxEpochBounds DEF Init, ActivatingInv, NeverStuckActivating
<1>2. ActivatingInv => NeverStuckActivating
  BY DEF ActivatingInv
<1>3. QED
  BY <1>1, <1>2, ActivatingStep, PTL DEF Spec

-----------------------------------------------------------------------------
(* What the actions do to the threads inside the epoch sequencers.         *)

\* A thread inside the sequencer calls a transition that is due no more, or
\* none; what is left for it to do after that is not due any more either.
Handover ==
    \/ pc' = pc /\ rest' = rest
    \/ \E op \in Transitions, f \in Epochs, r \in Rests :
        /\ Calling(op, f, r, pc)
        /\ Due(op, f)
        /\ ~Due(op, f)'
        /\ \A op2 \in Transitions, g \in Epochs : r = <<Call(op2, g)>> =>
            /\ Due(op2, g)
            /\ ~Due(op2, g)'
            /\ g # f

LEMMA RestsDistinct ==
    ASSUME NEW op \in Transitions, NEW f
    PROVE  /\ <<Call(op, f)>> # << >>
           /\ <<Call(op, f)>> # <<Recover>>
           /\ \A op2, g : <<Call(op, f)>> = <<Call(op2, g)>> => op = op2 /\ f = g
<1>1. \A c, d : <<c>> = <<d>> => c = d
  <2>1. \A c : <<c>>[1] = c
    OBVIOUS
  <2>2. QED
    BY <2>1
<1>2. Call(op, f) # Recover
  BY DEF Call, Recover, Transitions
<1>3. ASSUME NEW op2, NEW g, Call(op, f) = Call(op2, g)
      PROVE  op = op2 /\ f = g
  <2>1. Call(op, f).op = Call(op2, g).op /\ Call(op, f).epoch = Call(op2, g).epoch
    BY <1>3
  <2>2. QED
    BY <2>1 DEF Call
<1>4. <<Call(op, f)>> # << >>
  OBVIOUS
<1>5. QED
  BY <1>1, <1>2, <1>3, <1>4

LEMMA TransitionNames == "DYING" \in Transitions /\ "DRAINING" \in Transitions
BY DEF Transitions

LEMMA HandoverOfOne ==
    ASSUME ThreadTypes,
           NEW op \in Transitions, NEW f \in Epochs, NEW r \in {<< >>, <<Recover>>},
           NEW cs, cs # << >>, Head(cs) = Call(op, f), Tail(cs) = r,
           Proceed(cs, pc), Due(op, f), ~Due(op, f)'
    PROVE  Handover /\ ThreadTypes'
<1>1. r \in Rests
  BY RestsMembers
<1>2. Calling(op, f, r, pc) /\ ThreadTypes'
  BY <1>1, ProceedWithCall DEF ThreadTypes
<1>3. \A op2 \in Transitions, g \in Epochs : r # <<Call(op2, g)>>
  BY RestsDistinct
<1>4. QED
  BY <1>1, <1>2, <1>3 DEF Handover

LEMMA HandoverOfTwo ==
    ASSUME ThreadTypes,
           NEW op \in Transitions, NEW f \in Epochs,
           NEW op2 \in Transitions, NEW g \in Epochs, f # g,
           Proceed(<<Call(op, f)>> \o <<Call(op2, g)>>, pc),
           Due(op, f), ~Due(op, f)', Due(op2, g), ~Due(op2, g)'
    PROVE  Handover /\ ThreadTypes'
<1>1. <<Call(op2, g)>> \in Rests
  BY RestsMembers
<1>2. PICK c, d : c = Call(op, f) /\ d = Call(op2, g)
  OBVIOUS
<1>3. PICK cs : cs = <<c, d>>
  OBVIOUS
<1>4. cs # << >> /\ Head(cs) = c /\ Tail(cs) = <<d>>
  BY <1>3, CallSequences
<1>8. <<Call(op, f)>> \o <<Call(op2, g)>> = cs
  BY <1>2, <1>3, CallSequences
<1>9. Proceed(cs, pc)
  BY <1>8
<1>5. Calling(op, f, <<Call(op2, g)>>, pc) /\ ThreadTypes'
  BY <1>1, <1>2, <1>4, <1>9, ProceedWithCall DEF ThreadTypes
<1>6. \A op3 \in Transitions, h \in Epochs :
            <<Call(op2, g)>> = <<Call(op3, h)>> => op3 = op2 /\ h = g
  BY RestsDistinct
<1>7. QED
  BY <1>1, <1>5, <1>6 DEF Handover

\* setUnavailable() and onPermanentError(): first the draining epoch, then the
\* current one.
LEMMA StopHandover ==
    ASSUME ThreadTypes, current \in Epochs \cup {0}, draining \in Epochs \cup {0},
           current # 0 => current # draining,
           NEW op \in Transitions,
           Proceed(CallIf(draining, "DYING") \o CallIf(current, op), pc),
           current' = 0,
           draining' = IF op = "DRAINING" THEN current ELSE 0
    PROVE  Handover /\ ThreadTypes'
<1> USE TransitionNames
<1>0. PICK cur, drn : cur = current /\ drn = draining
  OBVIOUS
<1>1. 0 \notin Epochs
  BY MaxEpochBounds DEF Epochs
<1>2. CASE current = 0 /\ draining = 0
  <2>1. Proceed(<< >>, pc)
    BY <1>2, CallSequences DEF CallIf
  <2>2. QED
    BY <2>1, ProceedWithout DEF Handover, ThreadTypes
<1>3. CASE current = 0 /\ draining # 0
  <2>1. PICK c : c = Call("DYING", drn)
    OBVIOUS
  <2>2. Proceed(<<c>>, pc)
    BY <1>0, <1>3, <2>1, CallSequences DEF CallIf
  <2>3. Due("DYING", drn) /\ ~Due("DYING", drn)'
    BY <1>0, <1>3 DEF Due
  <2>4. <<c>> # << >> /\ Head(<<c>>) = c /\ Tail(<<c>>) = << >>
    BY CallSequences
  <2>5. QED
    BY <1>0, <1>3, <2>1, <2>2, <2>3, <2>4, HandoverOfOne
<1>4. CASE current # 0 /\ draining = 0
  <2>1. PICK c : c = Call(op, cur)
    OBVIOUS
  <2>2. Proceed(<<c>>, pc)
    BY <1>0, <1>4, <2>1, CallSequences DEF CallIf
  <2>3. Due(op, cur) /\ ~Due(op, cur)'
    BY <1>0, <1>4 DEF Due
  <2>4. <<c>> # << >> /\ Head(<<c>>) = c /\ Tail(<<c>>) = << >>
    BY CallSequences
  <2>5. QED
    BY <1>0, <1>4, <2>1, <2>2, <2>3, <2>4, HandoverOfOne
<1>5. CASE current # 0 /\ draining # 0
  <2>1. Proceed(<<Call("DYING", drn)>> \o <<Call(op, cur)>>, pc)
    BY <1>0, <1>5 DEF CallIf
  <2>2. /\ Due("DYING", drn) /\ ~Due("DYING", drn)'
        /\ Due(op, cur) /\ ~Due(op, cur)'
    BY <1>0, <1>5 DEF Due
  <2>3. QED
    BY <1>0, <1>5, <2>1, <2>2, HandoverOfTwo
<1>6. QED
  BY <1>2, <1>3, <1>4, <1>5

\* completeActivationWithMetaData(): the current epoch is drained, the draining
\* one destroyed.
LEMMA ActivationHandover ==
    ASSUME ThreadTypes, current \in Epochs \cup {0}, draining \in Epochs \cup {0},
           current # 0 => current # draining,
           NEW e \in Epochs, e # current, e # draining,
           Proceed(CallIf(current, "DRAINING") \o CallIf(draining, "DYING")
                        \o IF current = 0 THEN <<Recover>> ELSE << >>, pc),
           current' = e,
           draining' = current
    PROVE  Handover /\ ThreadTypes'
<1> USE TransitionNames
<1>0. PICK cur, drn : cur = current /\ drn = draining
  OBVIOUS
<1>1. 0 \notin Epochs
  BY MaxEpochBounds DEF Epochs
<1>2. CASE current = 0 /\ draining = 0
  <2>1. Proceed(<<Recover>>, pc)
    BY <1>2, CallSequences DEF CallIf
  <2>2. QED
    BY <2>1, ProceedWithout DEF Handover, ThreadTypes
<1>3. CASE current = 0 /\ draining # 0
  <2>1. PICK c, d : c = Call("DYING", drn) /\ d = Recover
    OBVIOUS
  <2>6. << >> \o <<c>> = <<c>> /\ <<c>> \o <<d>> = <<c, d>>
    BY CallSequences
  <2>2. Proceed(<<c, d>>, pc)
    BY <1>0, <1>3, <2>1, <2>6 DEF CallIf
  <2>3. Due("DYING", drn) /\ ~Due("DYING", drn)'
    BY <1>0, <1>3 DEF Due
  <2>4. <<c, d>> # << >> /\ Head(<<c, d>>) = c /\ Tail(<<c, d>>) = <<Recover>>
    BY <2>1, CallSequences
  <2>5. QED
    BY <1>0, <1>3, <2>1, <2>2, <2>3, <2>4, HandoverOfOne
<1>4. CASE current # 0 /\ draining = 0
  <2>1. PICK c : c = Call("DRAINING", cur)
    OBVIOUS
  <2>2. Proceed(<<c>>, pc)
    BY <1>0, <1>4, <2>1, CallSequences DEF CallIf
  <2>3. Due("DRAINING", cur) /\ ~Due("DRAINING", cur)'
    BY <1>0, <1>4 DEF Due
  <2>4. <<c>> # << >> /\ Head(<<c>>) = c /\ Tail(<<c>>) = << >>
    BY CallSequences
  <2>5. QED
    BY <1>0, <1>4, <2>1, <2>2, <2>3, <2>4, HandoverOfOne
<1>5. CASE current # 0 /\ draining # 0
  <2>1. PICK cs : cs = <<Call("DRAINING", cur)>> \o <<Call("DYING", drn)>>
    OBVIOUS
  <2>2. cs \o << >> = cs
    BY <2>1, CallSequences
  <2>3. Proceed(<<Call("DRAINING", cur)>> \o <<Call("DYING", drn)>>, pc)
    BY <1>0, <1>5, <2>1, <2>2 DEF CallIf
  <2>4. /\ Due("DRAINING", cur) /\ ~Due("DRAINING", cur)'
        /\ Due("DYING", drn) /\ ~Due("DYING", drn)'
    BY <1>0, <1>5 DEF Due
  <2>5. QED
    BY <1>0, <1>5, <2>3, <2>4, HandoverOfTwo
<1>6. QED
  BY <1>2, <1>3, <1>4, <1>5

\* A thread moves on by one label.
Moved(e, a, l) ==
    /\ rest' = rest
    /\ \A f \in Epochs, b \in Actors :
            pc'[f][b] = IF f = e /\ b = a THEN l ELSE pc[f][b]

\* The thread that made a transition returns, and goes on with another one if
\* it has promised that.
Returned(e, n) ==
    \/ Moved(e, n, "done")
    \/ \E op \in Transitions, f \in Epochs :
        /\ rest[e][n] = <<Call(op, f)>>
        /\ \A g \in Epochs, b \in Actors :
            pc'[g][b] = IF g = f /\ b = op THEN "called"
                        ELSE IF g = e /\ b = n THEN "done" ELSE pc[g][b]
        /\ \A g \in Epochs, m \in Transitions :
            rest'[g][m] = IF g = f /\ m = op THEN << >> ELSE rest[g][m]

LEMMA ReturnEffect ==
    ASSUME ThreadTypes, NEW e \in Epochs, NEW n \in Transitions,
           Proceed(rest[e][n], [pc EXCEPT ![e][n] = "done"])
    PROVE  Returned(e, n) /\ ThreadTypes'
<1>1. PICK p : p = [pc EXCEPT ![e][n] = "done"]
  OBVIOUS
<1>2. n \in Actors /\ "done" \in Labels /\ rest[e][n] \in Rests
  BY DEF ThreadTypes, Actors, Transitions, Labels
<1>3. /\ p \in [Epochs -> [Actors -> Labels]]
      /\ \A g \in Epochs, b \in Actors :
            p[g][b] = IF g = e /\ b = n THEN "done" ELSE pc[g][b]
  BY <1>1, <1>2 DEF ThreadTypes
<1>4. PICK cs \in Rests : cs = rest[e][n]
  BY <1>2
<1>5. Proceed(cs, p)
  BY <1>1, <1>4
<1>6. CASE cs \in {<< >>, <<Recover>>}
  <2>1. pc' = p /\ rest' = rest
    BY <1>5, <1>6, ProceedWithout
  <2>2. QED
    BY <2>1, <1>3 DEF Returned, Moved, ThreadTypes
<1>7. CASE cs \notin {<< >>, <<Recover>>}
  <2>1. PICK c \in Calls : cs = <<c>>
    BY <1>4, <1>7 DEF Rests
  <2>2. PICK op \in Transitions, f \in Epochs : c = Call(op, f)
    BY <2>1 DEF Calls, Call
  <2>3. cs # << >> /\ Head(cs) = Call(op, f) /\ Tail(cs) = << >>
    BY <2>1, <2>2, CallSequences
  <2>4. /\ Calling(op, f, << >>, p)
        /\ pc' \in [Epochs -> [Actors -> Labels]]
        /\ rest' \in [Epochs -> [Transitions -> Rests]]
    BY <1>3, <1>5, <2>3, RestsMembers, ProceedWithCall DEF ThreadTypes
  <2>5. rest[e][n] = <<Call(op, f)>>
    BY <1>4, <2>1, <2>2
  <2>6. \A g \in Epochs, b \in Actors :
            pc'[g][b] = IF g = f /\ b = op THEN "called"
                        ELSE IF g = e /\ b = n THEN "done" ELSE pc[g][b]
    BY <1>3, <2>4 DEF Calling
  <2>7. QED
    BY <2>4, <2>5, <2>6 DEF Returned, Calling, ThreadTypes
<1>8. QED
  BY <1>6, <1>7

LEMMA CallKeptByMove ==
    ASSUME CallInv, NEW e \in Epochs, NEW a \in Actors, NEW l \in Labels,
           a \in Transitions => pc[e][a] \notin {"idle", "done"},
           l \notin {"idle", "done"} \/ a \notin Transitions,
           Moved(e, a, l), current' = current, draining' \in {draining, 0}
    PROVE  CallInv'
<1>1. \A op \in Transitions, f \in Epochs : Due(op, f)' => Due(op, f)
  BY DEF Due
<1>2. \A op, n \in Transitions, f, g \in Epochs :
            Promises(g, n, op, f)' => Promises(g, n, op, f)
  BY DEF Promises, Busy, Moved, Transitions, Actors
<1>3. \A op \in Transitions, f \in Epochs :
            pc[f][op] = "idle" => pc'[f][op] = "idle"
  BY DEF Moved, Transitions, Actors
<1>4. (current # 0 => current # draining)'
  BY DEF CallInv
<1>5. QED
  BY <1>1, <1>2, <1>3, <1>4 DEF CallInv

LEMMA CallKeptByHandover ==
    ASSUME CallInv, Handover, (current # 0 => current # draining)',
           \A op \in Transitions, f \in Epochs : Due(op, f)' =>
                \/ Due(op, f)
                \/ /\ pc[f][op] = "idle"
                   /\ \A e \in Epochs, n \in Transitions :
                            rest[e][n] # <<Call(op, f)>>
    PROVE  CallInv'
<1>1. \A op \in Transitions, f \in Epochs : Due(op, f)' =>
            /\ pc[f][op] = "idle"
            /\ \A e \in Epochs, n \in Transitions : ~Promises(e, n, op, f)
  BY DEF CallInv, Promises
<1>2. CASE pc' = pc /\ rest' = rest
  <2>1. \A e, f \in Epochs, n, op \in Transitions :
            /\ Promises(e, n, op, f)' <=> Promises(e, n, op, f)
            /\ pc'[f][op] = pc[f][op]
    BY <1>2 DEF Promises, Busy
  <2>2. QED
    BY <1>1, <2>1 DEF CallInv
<1>3. ASSUME NEW op \in Transitions, NEW f \in Epochs, NEW r \in Rests,
             Calling(op, f, r, pc), Due(op, f), ~Due(op, f)',
             \A op2 \in Transitions, g \in Epochs : r = <<Call(op2, g)>> =>
                Due(op2, g) /\ ~Due(op2, g)' /\ g # f
      PROVE  CallInv'
  <2>1. pc[f][op] = "idle" /\ \A e \in Epochs, n \in Transitions :
                                    ~Promises(e, n, op, f)
    BY <1>3 DEF CallInv
  <2>2. \A e, g \in Epochs, n, o \in Transitions :
            Promises(e, n, o, g)' =>
                \/ (e # f \/ n # op) /\ Promises(e, n, o, g)
                \/ e = f /\ n = op /\ r = <<Call(o, g)>>
    <3>1. \A e \in Epochs, n \in Transitions :
            IF e = f /\ n = op THEN rest'[e][n] = r
            ELSE pc'[e][n] = pc[e][n] /\ rest'[e][n] = rest[e][n]
      BY <1>3 DEF Calling, Transitions, Actors
    <3>2. QED
      BY <3>1 DEF Promises, Busy
  <2>3. \A g \in Epochs, o \in Transitions :
            pc'[g][o] = IF g = f /\ o = op THEN "called" ELSE pc[g][o]
    BY <1>3 DEF Calling, Transitions, Actors
  <2>4. ASSUME NEW g \in Epochs, NEW o \in Transitions, Due(o, g)'
        PROVE  /\ pc'[g][o] = "idle"
               /\ \A e \in Epochs, n \in Transitions : ~Promises(e, n, o, g)'
    BY <1>1, <1>3, <2>2, <2>3, <2>4
  <2>5. ASSUME NEW e \in Epochs, NEW g \in Epochs, NEW n \in Transitions,
               NEW o \in Transitions, Promises(e, n, o, g)'
        PROVE  /\ pc'[g][o] = "idle"
               /\ \A h \in Epochs, m \in Transitions :
                    Promises(h, m, o, g)' => h = e /\ m = n
    <3>1. CASE e = f /\ n = op /\ r = <<Call(o, g)>>
      <4>1. Due(o, g) /\ g # f
        BY <1>3, <3>1
      <4>2. pc[g][o] = "idle" /\ \A h \in Epochs, m \in Transitions :
                                        ~Promises(h, m, o, g)
        BY <4>1 DEF CallInv
      <4>3. QED
        BY <2>2, <2>3, <3>1, <4>1, <4>2
    <3>2. CASE (e # f \/ n # op) /\ Promises(e, n, o, g)
      <4>1. pc[g][o] = "idle" /\ \A h \in Epochs, m \in Transitions :
                                Promises(h, m, o, g) => h = e /\ m = n
        BY <3>2 DEF CallInv
      <4>2. r # <<Call(o, g)>> /\ (g # f \/ o # op)
        BY <1>3, <2>1, <3>2 DEF CallInv
      <4>3. QED
        BY <2>2, <2>3, <4>1, <4>2
    <3>3. QED
      BY <2>2, <2>5, <3>1, <3>2
  <2>6. QED
    BY <2>4, <2>5 DEF CallInv
<1>4. QED
  BY <1>2, <1>3 DEF Handover

LEMMA CallKeptByReturn ==
    ASSUME CallInv, NEW e \in Epochs, NEW n \in Transitions,
           pc[e][n] = "return", Returned(e, n),
           current' = current, draining' = draining
    PROVE  CallInv'
<1>1. \A op \in Transitions, f \in Epochs : Due(op, f)' <=> Due(op, f)
  BY DEF Due
<1>2. CASE Moved(e, n, "done")
  <2>1. \A op, m \in Transitions, f, g \in Epochs :
            Promises(g, m, op, f)' => Promises(g, m, op, f)
    BY <1>2 DEF Promises, Busy, Moved, Transitions, Actors
  <2>2. \A op \in Transitions, f \in Epochs :
            pc[f][op] = "idle" => pc'[f][op] = "idle"
    BY <1>2 DEF Moved, Transitions, Actors
  <2>3. QED
    BY <1>1, <2>1, <2>2 DEF CallInv
<1>3. ASSUME NEW op \in Transitions, NEW f \in Epochs,
             rest[e][n] = <<Call(op, f)>>,
             \A g \in Epochs, b \in Actors :
                pc'[g][b] = IF g = f /\ b = op THEN "called"
                            ELSE IF g = e /\ b = n THEN "done" ELSE pc[g][b],
             \A g \in Epochs, m \in Transitions :
                rest'[g][m] = IF g = f /\ m = op THEN << >> ELSE rest[g][m]
      PROVE  CallInv'
  <2>1. Promises(e, n, op, f)
    BY <1>3 DEF Promises, Busy
  <2>2. ~Due(op, f) /\ \A h \in Epochs, m \in Transitions :
                            Promises(h, m, op, f) => h = e /\ m = n
    BY <2>1 DEF CallInv
  <2>3. \A o \in Transitions, g \in Epochs : <<Call(o, g)>> # << >>
    BY RestsDistinct
  <2>4. \A o, m \in Transitions, g, h \in Epochs :
            Promises(h, m, o, g)' => Promises(h, m, o, g) /\ (h # e \/ m # n)
    BY <1>3, <2>3 DEF Promises, Busy, Transitions, Actors
  <2>5. \A o \in Transitions, g \in Epochs :
            pc[g][o] = "idle" /\ (g # f \/ o # op) => pc'[g][o] = "idle"
    BY <1>3 DEF Transitions, Actors
  <2>6. ASSUME NEW g \in Epochs, NEW o \in Transitions, Due(o, g)'
        PROVE  /\ pc'[g][o] = "idle"
               /\ \A h \in Epochs, m \in Transitions : ~Promises(h, m, o, g)'
    BY <1>1, <2>2, <2>4, <2>5, <2>6 DEF CallInv
  <2>7. ASSUME NEW h \in Epochs, NEW g \in Epochs, NEW m \in Transitions,
               NEW o \in Transitions, Promises(h, m, o, g)'
        PROVE  /\ pc'[g][o] = "idle"
               /\ \A i \in Epochs, k \in Transitions :
                    Promises(i, k, o, g)' => i = h /\ k = m
    <3>1. Promises(h, m, o, g) /\ (h # e \/ m # n)
      BY <2>4, <2>7
    <3>2. pc[g][o] = "idle" /\ \A i \in Epochs, k \in Transitions :
                                    Promises(i, k, o, g) => i = h /\ k = m
      BY <3>1 DEF CallInv
    <3>3. g # f \/ o # op
      BY <2>2, <3>1
    <3>4. QED
      BY <2>4, <2>5, <3>2, <3>3
  <2>8. QED
    BY <2>6, <2>7 DEF CallInv
<1>4. QED
  BY <1>2, <1>3 DEF Returned

\* Threads enter and leave transitions of activated epochs only, and do nothing
\* else.
Benign ==
    /\ \A e \in Epochs, a \in Actors :
        \/ pc'[e][a] = pc[e][a]
        \/ /\ a \in Transitions
           /\ epochState[e] # "NONE"
           /\ pc[e][a] \in {"idle", "return"}
           /\ pc'[e][a] \in {"called", "done"}
    /\ \A e, f \in Epochs, n, m \in Transitions :
        rest'[f][m] = <<Call(n, e)>> =>
            rest[f][m] = <<Call(n, e)>> \/ epochState[e] # "NONE"

LEMMA DueActivated ==
    ASSUME EpochInv, NEW op, NEW f \in Epochs, Due(op, f)
    PROVE  epochState[f] # "NONE"
BY DEF Due, EpochInv, Activated

LEMMA HandoverBenign ==
    ASSUME ThreadTypes, EpochInv, CallInv, Handover
    PROVE  Benign
<1>1. CASE pc' = pc /\ rest' = rest
  BY <1>1 DEF Benign
<1>2. ASSUME NEW op \in Transitions, NEW f \in Epochs, NEW r \in Rests,
             Calling(op, f, r, pc), Due(op, f),
             \A op2 \in Transitions, g \in Epochs :
                r = <<Call(op2, g)>> => Due(op2, g)
      PROVE  Benign
  <2>1. epochState[f] # "NONE" /\ pc[f][op] = "idle"
    BY <1>2, DueActivated DEF CallInv
  <2>2. \A n \in Transitions, e \in Epochs :
            r = <<Call(n, e)>> => epochState[e] # "NONE"
    BY <1>2, DueActivated
  <2>3. \A e, g \in Epochs, n, m \in Transitions :
        rest'[g][m] = <<Call(n, e)>> =>
            rest[g][m] = <<Call(n, e)>> \/ epochState[e] # "NONE"
    <3>1. \A g \in Epochs, m \in Transitions :
            rest'[g][m] = r \/ rest'[g][m] = rest[g][m]
      BY <1>2 DEF Calling
    <3>2. QED
      BY <2>2, <3>1
  <2>4. QED
    BY <1>2, <2>1, <2>3 DEF Benign, Calling
<1>3. QED
  BY <1>1, <1>2 DEF Handover

LEMMA ReturnBenign ==
    ASSUME CallInv, FreshInv, NEW e \in Epochs, NEW n \in Transitions,
           pc[e][n] = "return", Returned(e, n)
    PROVE  Benign
<1>1. epochState[e] # "NONE"
  BY DEF FreshInv
<1>2. CASE Moved(e, n, "done")
  BY <1>1, <1>2 DEF Benign, Moved
<1>3. ASSUME NEW op \in Transitions, NEW f \in Epochs,
             rest[e][n] = <<Call(op, f)>>,
             \A g \in Epochs, b \in Actors :
                pc'[g][b] = IF g = f /\ b = op THEN "called"
                            ELSE IF g = e /\ b = n THEN "done" ELSE pc[g][b],
             \A g \in Epochs, m \in Transitions :
                rest'[g][m] = IF g = f /\ m = op THEN << >> ELSE rest[g][m]
      PROVE  Benign
  <2>1. Promises(e, n, op, f)
    BY <1>3 DEF Promises, Busy
  <2>2. pc[f][op] = "idle"
    BY <2>1 DEF CallInv
  <2>3. epochState[f] # "NONE"
    BY <1>3 DEF FreshInv
  <2>4. \A o \in Transitions, g \in Epochs : <<Call(o, g)>> # << >>
    BY RestsDistinct
  <2>5. \A g, h \in Epochs, k, m \in Transitions :
            rest'[h][m] = <<Call(k, g)>> => rest[h][m] = <<Call(k, g)>>
    BY <1>3, <2>4
  <2>6. QED
    BY <1>1, <1>3, <2>2, <2>3, <2>5 DEF Benign
<1>4. QED
  BY <1>2, <1>3 DEF Returned

\* The variables of epoch sequencers that say how far they got.
progressVars == <<epochState, open, issued, replicated, aborted, lng,
                  lastReaped, target, lngChanged>>

\* A step after which the epoch sequencers are where they were.
Calm == Benign /\ UNCHANGED progressVars

\* A reply of the epoch store becomes the current epoch.
Activates(e) ==
    /\ StateMutexFree
    /\ e \in replies
    /\ OrderedReplies => \A d \in replies : e =< d
    /\ replies' = replies \ {e}
    /\ current < e
    /\ current' = e
    /\ draining' = current
    /\ epochState' = [epochState EXCEPT ![e] = "ACTIVE"]
    /\ open' = [open EXCEPT ![e] = TRUE]
    /\ UNCHANGED <<lastReleased, issued, replicated, aborted, lng, lastReaped,
                   target, lngChanged, storeEpoch, requests, running,
                   completing>>
    /\ Handover

\* The steps of a thread inside an epoch sequencer, up to its return.
ReaperStep(e) ==
    ReapLng(e) \/ ReapStore(e) \/ Release(e) \/ AdvanceLastReleased(e)
TransitionStep(e, n) == TransitionTo(e, n) \/ SetTarget(e, n) \/ SetState(e, n)
QuiescentStep(e, a) ==
    \/ CheckQuiescent(e, a) \/ OnEpochQuiescent(e, a)
    \/ NoteDrainingCompleted(e, a)

LabelStep ==
    \E e \in Epochs :
        \/ ReaperStep(e)
        \/ \E n \in Transitions : TransitionStep(e, n)
        \/ \E a \in Actors : QuiescentStep(e, a)

ReplyStep(e) == Activates(e) /\ Benign /\ CallInv' /\ ThreadTypes'

\* What a step of the sequencer is to the threads of the epoch sequencers.
Kinds ==
    \/ Calm /\ CallInv' /\ ThreadTypes'
    \/ \E e \in Epochs : ReplyStep(e)
    \/ AppenderStep /\ Benign /\ CallInv' /\ ThreadTypes'
    \/ LabelStep /\ CallInv' /\ ThreadTypes'

LEMMA UntouchedThreads ==
    ASSUME ThreadTypes, CallInv, pc' = pc, rest' = rest,
           current' = current, draining' \in {draining, 0}
    PROVE  Benign /\ CallInv' /\ ThreadTypes'
<1>1. \A op \in Transitions, f \in Epochs : Due(op, f)' => Due(op, f)
  BY DEF Due
<1>2. \A e, f \in Epochs, n, op \in Transitions :
            /\ Promises(e, n, op, f)' <=> Promises(e, n, op, f)
            /\ pc'[f][op] = pc[f][op]
  BY DEF Promises, Busy
<1>3. (current # 0 => current # draining)'
  BY DEF CallInv
<1>4. CallInv'
  BY <1>1, <1>2, <1>3 DEF CallInv
<1>5. QED
  BY <1>4 DEF Benign, ThreadTypes

LEMMA EpochValues ==
    ASSUME EpochInv
    PROVE  /\ current \in Epochs \cup {0} /\ draining \in Epochs \cup {0}
           /\ 0 \notin Epochs
           /\ replies \subseteq Epochs
           /\ \A e \in replies : epochState[e] = "NONE" /\ e # current /\ e # draining
<1>1. MaxEpoch \in Nat /\ Epochs = 1 .. MaxEpoch
  BY MaxEpochBounds DEF Epochs
<1>2. storeEpoch =< MaxEpoch /\ storeEpoch \in Nat
  BY <1>1, MaxEpochBounds, BoundsAssumption DEF EpochInv
<1>3. 0 \notin Epochs /\ replies \subseteq Epochs /\ 0 \notin replies
  BY <1>1, <1>2 DEF EpochInv
<1>4. QED
  BY <1>3 DEF EpochInv, Activated

LEMMA ReplyCases ==
    ASSUME ThreadTypes, EpochInv, CallInv, FreshInv, NEW e \in Epochs,
           CompleteActivation(e)
    PROVE  UNCHANGED <<parentVars, epochVars, threadVars>> \/ ReplyStep(e)
<1> USE TransitionNames
<1>1. CASE state # "ACTIVATING" \/ current >= e
  <2>0. current \in Int /\ e \in Int
    BY EpochValues, MaxEpochBounds DEF Epochs
  <2>1. UNCHANGED <<parentVars, epochVars, threadVars>>
    BY <1>1, <2>0 DEF CompleteActivation
  <2>2. QED
    BY <2>1
<1>2. CASE ~(state # "ACTIVATING" \/ current >= e)
  <2>1. e # current /\ e # draining /\ epochState[e] = "NONE"
    BY EpochValues DEF CompleteActivation
  <2>2. /\ Proceed(CallIf(current, "DRAINING") \o CallIf(draining, "DYING")
                      \o IF current = 0 THEN <<Recover>> ELSE << >>, pc)
        /\ current' = e /\ draining' = current
    BY <1>2 DEF CompleteActivation, parentVars
  <2>3. Handover /\ ThreadTypes'
    BY <2>1, <2>2, EpochValues, ActivationHandover DEF CallInv
  <2>4. Activates(e)
    BY <1>2, <2>3 DEF CompleteActivation, Activates, parentVars
  <2>5. \A n \in Transitions :
          /\ pc[e][n] = "idle"
          /\ \A f \in Epochs, m \in Transitions :
                  rest[f][m] # <<Call(n, e)>>
    BY <2>1 DEF FreshInv
  <2>6. \A op \in Transitions, f \in Epochs :
          Due(op, f)' => Due(op, f) \/ f = e
    BY <2>2 DEF Due
  <2>7. CallInv'
    BY <2>1, <2>2, <2>3, <2>5, <2>6, CallKeptByHandover
  <2>8. QED
    BY <2>3, <2>4, <2>7, HandoverBenign DEF ReplyStep
<1>3. QED
  BY <1>1, <1>2

LEMMA StepKinds ==
    ASSUME ThreadTypes, EpochInv, CallInv, FreshInv, Step
    PROVE  Kinds
<1> USE TransitionNames
<1>1. ASSUME pc' = pc, rest' = rest, current' = current,
             draining' \in {draining, 0}, UNCHANGED progressVars
      PROVE  Kinds
  BY <1>1, UntouchedThreads DEF Kinds, Calm
<1>2. ASSUME NEW a \in 0 .. MaxEpoch,
             \/ StartActivation(a) \/ EpochStoreReply(a) \/ EpochStoreError(a)
             \/ EpochStoreAborted(a)
      PROVE  Kinds
  BY <1>1, <1>2 DEF StartActivation, EpochStoreReply, EpochStoreError,
        EpochStoreAborted, NoteSeal, parentVars, epochVars, threadVars,
        progressVars
<1>3. ASSUME NEW op \in Transitions,
             Proceed(CallIf(draining, "DYING") \o CallIf(current, op), pc),
             current' = 0,
             draining' = IF op = "DRAINING" THEN current ELSE 0,
             UNCHANGED epochVars
      PROVE  Kinds
  <2>1. Handover /\ ThreadTypes'
    BY <1>3, EpochValues, StopHandover DEF CallInv
  <2>2. Benign
    BY <2>1, HandoverBenign
  <2>3. \A o \in Transitions, f \in Epochs : Due(o, f)' => Due(o, f)
    BY <1>3 DEF Due
  <2>4. CallInv'
    BY <1>3, <2>1, <2>3, CallKeptByHandover
  <2>5. QED
    BY <1>3, <2>1, <2>2, <2>4 DEF Kinds, Calm, epochVars, progressVars
<1>4. ASSUME NEW a \in 0 .. MaxEpoch, OnPermanentError(a)
      PROVE  Kinds
  BY <1>3, <1>4 DEF OnPermanentError
<1>5. ASSUME NEW drain \in BOOLEAN, SetUnavailable(drain)
      PROVE  Kinds
  <2>1. CASE drain
    BY <1>3, <1>5, <2>1 DEF SetUnavailable
  <2>2. CASE ~drain
    BY <1>3, <1>5, <2>2 DEF SetUnavailable
  <2>3. QED
    BY <2>1, <2>2
<1>6. ASSUME NEW e \in Epochs, CompleteActivation(e)
      PROVE  Kinds
  <2>1. CASE UNCHANGED <<parentVars, epochVars, threadVars>>
    BY <1>1, <2>1 DEF parentVars, epochVars, threadVars, progressVars
  <2>2. QED
    BY <1>6, <2>1, ReplyCases DEF Kinds
<1>7. CASE OnActivationFailed
  BY <1>1, <1>7 DEF OnActivationFailed, epochVars, threadVars, progressVars
<1>8. CASE PreemptionStep
  BY <1>1, <1>8 DEF PreemptionStep, OtherNodeActivates, OtherNodeSeals,
        NotePreempted, EnterPreempted, NoteSeal, parentVars, epochVars,
        threadVars, progressVars
<1>9. CASE AppenderStep
  <2>1. /\ pc' = pc /\ rest' = rest /\ current' = current
        /\ draining' = draining
    BY <1>9 DEF AppenderStep, RunAppender, RetireReplicated, RetireAborted,
                parentVars, threadVars
  <2>2. QED
    BY <1>9, <2>1, UntouchedThreads DEF Kinds
<1>10. ASSUME NEW e \in Epochs, OnDrainingTimerExpired(e)
       PROVE  Kinds
  <2>1. CASE draining # e \/ state = "PERMANENT_ERROR"
    BY <1>1, <1>10, <2>1 DEF OnDrainingTimerExpired, epochVars, progressVars
  <2>2. CASE ~(draining # e \/ state = "PERMANENT_ERROR")
    <3>1. PICK c, d : c = Call("DYING", e) /\ d = Recover
      OBVIOUS
    <3>2. PICK cs : cs = <<c, d>>
      OBVIOUS
    <3>3. /\ draining = e /\ draining' = 0 /\ current' = current
          /\ Proceed(cs, pc)
          /\ UNCHANGED epochVars
      BY <1>10, <2>2, <3>1, <3>2 DEF OnDrainingTimerExpired
    <3>4. cs # << >> /\ Head(cs) = Call("DYING", e) /\ Tail(cs) = <<Recover>>
      BY <3>1, <3>2, CallSequences
    <3>5. Due("DYING", e) /\ ~Due("DYING", e)'
      BY <3>3, EpochValues DEF Due, CallInv
    <3>6. Handover /\ ThreadTypes'
      BY <3>3, <3>4, <3>5, HandoverOfOne
    <3>7. \A o \in Transitions, f \in Epochs : Due(o, f)' => Due(o, f)
      BY <3>3 DEF Due
    <3>8. (current # 0 => current # draining)'
      BY <3>3
    <3>9. CallInv'
      BY <3>6, <3>7, <3>8, CallKeptByHandover
    <3>10. QED
      BY <3>3, <3>6, <3>9, HandoverBenign DEF Kinds, Calm, epochVars,
                                              progressVars
  <2>3. QED
    BY <2>1, <2>2
<1>11. ASSUME NEW e \in Epochs, NEW n \in Transitions,
              ReturnFromTransition(e, n)
       PROVE  Kinds
  <2>1. /\ pc[e][n] = "return"
        /\ Proceed(rest[e][n], [pc EXCEPT ![e][n] = "done"])
        /\ current' = current /\ draining' = draining
        /\ UNCHANGED progressVars
    BY <1>11 DEF ReturnFromTransition, parentVars, epochVars, progressVars
  <2>2. Returned(e, n) /\ ThreadTypes'
    BY <2>1, ReturnEffect
  <2>3. QED
    BY <2>1, <2>2, CallKeptByReturn, ReturnBenign DEF Kinds, Calm
<1>12. ASSUME NEW e \in Epochs, NEW a \in Actors, NEW l \in Labels,
              LabelStep, Goto(e, a, l), rest' = rest,
              a \in Transitions => pc[e][a] \notin {"idle", "done"},
              l \notin {"idle", "done"} \/ a \notin Transitions,
              current' = current, draining' \in {draining, 0}
       PROVE  Kinds
  <2>1. Moved(e, a, l) /\ ThreadTypes'
    BY <1>12, GotoEffect DEF Moved, ThreadTypes
  <2>2. QED
    BY <1>12, <2>1, CallKeptByMove DEF Kinds
<1>13. ASSUME NEW e \in Epochs, ReaperStep(e)
       PROVE  Kinds
  <2>1. /\ LabelStep
        /\ \E l \in Labels : Goto(e, "reaper", l)
        /\ rest' = rest /\ current' = current /\ draining' = draining
    BY <1>13 DEF LabelStep, ReaperStep, ReapLng, ReapStore, Release,
                 AdvanceLastReleased, parentVars, Labels
  <2>2. "reaper" \in Actors /\ "reaper" \notin Transitions
    BY DEF Actors, Transitions
  <2>3. QED
    BY <1>12, <2>1, <2>2
<1>14. ASSUME NEW e \in Epochs, NEW n \in Transitions, TransitionStep(e, n)
       PROVE  Kinds
  <2>1. /\ LabelStep
        /\ \E l \in Labels \ {"idle", "done"} : Goto(e, n, l)
        /\ pc[e][n] \notin {"idle", "done"}
        /\ rest' = rest /\ current' = current /\ draining' = draining
    BY <1>14 DEF LabelStep, TransitionStep, TransitionTo, SetTarget, SetState,
                 parentVars, Labels
  <2>2. n \in Actors
    BY DEF Actors, Transitions
  <2>3. QED
    BY <1>12, <2>1, <2>2
<1>15. ASSUME NEW e \in Epochs, NEW a \in Actors, QuiescentStep(e, a)
       PROVE  Kinds
  <2>1. /\ LabelStep
        /\ \E l \in Labels \ {"idle", "done"} : Goto(e, a, l)
        /\ pc[e][a] \notin {"idle", "done"}
        /\ rest' = rest /\ current' = current /\ draining' \in {draining, 0}
    BY <1>15 DEF LabelStep, QuiescentStep, CheckQuiescent, OnEpochQuiescent,
                 NoteDrainingCompleted, AfterQuiescent, parentVars, Labels
  <2>2. QED
    BY <1>12, <2>1
<1>16. CASE RecoveryStep
  BY <1>1, <1>16 DEF RecoveryStep, StartRecovery, PopRecoveryRequest,
        DropRecovery, RunRecovery, QueueRecovery, RecoveryCompleted,
        FinishRecovery, RecoveryFailed, SealEpochs, RecoveryPreempted,
        NoteSeal, parentVars, epochVars, threadVars, progressVars
<1>17. ASSUME NEW e \in Epochs, EpochStep(e)
       PROVE  Kinds
  BY <1>11, <1>13, <1>14, <1>15, <1>17 DEF EpochStep, ReaperStep,
        TransitionStep, QuiescentStep
<1>18. QED
  BY <1>2, <1>4, <1>5, <1>6, <1>7, <1>8, <1>9, <1>10, <1>16, <1>17
     DEF Step, ActivationStep

-----------------------------------------------------------------------------
(* Steps that leave the epoch sequencers where they are, and steps of the  *)
(* epoch store and of Appenders.                                           *)

ProgressInv ==
    /\ TypeInv /\ FreshInv /\ LngInv /\ TargetInv /\ MutexInv
    /\ AfterTargetInv

LEMMA CalmKeeps ==
    ASSUME ProgressInv, Calm
    PROVE  ProgressInv'
<1> USE DEF ProgressInv
<1>1. TypeInv'
  BY DEF TypeInv, Calm, progressVars
<1>2. \A e \in Epochs : pc'[e]["reaper"] = pc[e]["reaper"]
  BY DEF Calm, Benign, Actors, Transitions
<1>3. LngInv'
  BY <1>2 DEF LngInv, LngAt, Calm, progressVars
<1>4. \A e \in Epochs, a \in Actors :
            pc'[e][a] = pc[e][a] \/ pc'[e][a] \in {"called", "done"}
  BY DEF Calm, Benign
<1>5. \A e \in Epochs, n \in Transitions :
            pc'[e][n] = pc[e][n] \/ pc'[e][n] \in {"called", "done"}
  BY <1>4 DEF Transitions, Actors
<1>6. TargetInv'
  BY <1>4, <1>5 DEF TargetInv, Calm, progressVars
<1>7. MutexInv'
  BY <1>5 DEF MutexInv, Calm, progressVars
<1>8. \A e \in Epochs, n \in Transitions :
            pc[e][n] = "targeted" => pc'[e][n] = "targeted"
  BY DEF Calm, Benign, Transitions, Actors
<1>9. AfterTargetInv'
  BY <1>8 DEF AfterTargetInv, Calm, progressVars
<1>10. FreshInv'
  <2>1. \A e \in Epochs, n \in Transitions :
            epochState[e] = "NONE" => pc'[e][n] = pc[e][n]
    BY DEF Calm, Benign, Transitions, Actors
  <2>2. \A e, f \in Epochs, n, m \in Transitions :
            epochState[e] = "NONE" => rest'[f][m] # <<Call(n, e)>>
    BY DEF Calm, Benign, FreshInv
  <2>3. UNCHANGED <<epochState, open, issued>>
    BY DEF Calm, progressVars
  <2>4. QED
    BY <2>1, <2>2, <2>3 DEF FreshInv
<1>11. QED
  BY <1>1, <1>3, <1>6, <1>7, <1>9, <1>10

LEMMA ReplyKeeps ==
    ASSUME ProgressInv, EpochInv, NEW e \in Epochs, Activates(e), Benign
    PROVE  ProgressInv'
<1> USE DEF ProgressInv
<1>0. epochState[e] = "NONE"
  BY EpochValues DEF Activates
<1>1. /\ epochState' = [epochState EXCEPT ![e] = "ACTIVE"]
      /\ open' = [open EXCEPT ![e] = TRUE]
      /\ UNCHANGED <<issued, replicated, aborted, lng, lastReaped, target,
                     lngChanged>>
  BY DEF Activates
<1>2. /\ epochState'[e] = "ACTIVE" /\ open'[e] = TRUE
      /\ \A f \in Epochs : f # e =>
            epochState'[f] = epochState[f] /\ open'[f] = open[f]
  BY <1>1 DEF TypeInv
<1>3. TypeInv'
  BY <1>1 DEF TypeInv
<1>4. \A f \in Epochs : pc'[f]["reaper"] = pc[f]["reaper"]
  BY DEF Benign, Actors, Transitions
<1>5. LngInv'
  BY <1>1, <1>4 DEF LngInv, LngAt
<1>6. \A f \in Epochs, a \in Actors :
            pc'[f][a] = pc[f][a] \/ pc'[f][a] \in {"called", "done"}
  BY DEF Benign
<1>7. \A f \in Epochs, n \in Transitions :
            pc'[f][n] = pc[f][n] \/ pc'[f][n] \in {"called", "done"}
  BY <1>6 DEF Transitions, Actors
<1>8. \A n \in Transitions : pc'[e][n] = "idle"
  BY <1>0 DEF FreshInv, Benign, Transitions, Actors
<1>9. target[e] = LsnMax
  BY <1>0, RankValues DEF AfterTargetInv, FreshInv
<1>10. TargetInv'
  BY <1>1, <1>2, <1>6, <1>7, <1>8, <1>9 DEF TargetInv
<1>11. MutexInv'
  BY <1>2, <1>7, <1>8 DEF MutexInv
<1>12. \A f \in Epochs, n \in Transitions :
            pc[f][n] = "targeted" => pc'[f][n] = "targeted"
  BY DEF Benign, Transitions, Actors
<1>13. AfterTargetInv'
  BY <1>1, <1>2, <1>9, <1>12 DEF AfterTargetInv
<1>14. FreshInv'
  <2>1. \A f \in Epochs, n \in Transitions :
            epochState[f] = "NONE" => pc'[f][n] = pc[f][n]
    BY DEF Benign, Transitions, Actors
  <2>2. \A f, g \in Epochs, n, m \in Transitions :
            epochState[f] = "NONE" => rest'[g][m] # <<Call(n, f)>>
    BY DEF Benign, FreshInv
  <2>3. QED
    BY <1>1, <1>2, <2>1, <2>2 DEF FreshInv
<1>15. QED
  BY <1>3, <1>5, <1>10, <1>11, <1>13, <1>14

LEMMA AppenderKeeps ==
    ASSUME ProgressInv, EpochInv, AppenderStep
    PROVE  ProgressInv'
<1> USE DEF ProgressInv
<1>1. ASSUME NEW e \in Epochs, RunAppender(e)
      PROVE  ProgressInv'
  <2>1. /\ open[e] /\ issued[e] < bound.esns[e]
        /\ issued' = [issued EXCEPT ![e] = @ + 1]
        /\ UNCHANGED <<epochState, open, replicated, aborted, lng, lastReaped,
                       target, lngChanged, pc, rest>>
    BY <1>1 DEF RunAppender, threadVars
  <2>2. /\ issued'[e] = issued[e] + 1
        /\ \A f \in Epochs : f # e => issued'[f] = issued[f]
    BY <2>1 DEF TypeInv
  <2>3. epochState[e] # "NONE"
    BY <2>1 DEF FreshInv
  <2>4. issued'[e] =< MaxEsn
    <3>1. e \in 1 .. bound.epochs
      BY <2>3, BoundsAssumption DEF EpochInv, Activated
    <3>2. bound.esns[e] \in 0 .. MaxEsn
      BY <3>1, MaxEsnBounds DEF EpochInv
    <3>3. QED
      BY <2>1, <2>2, <3>2, MaxEsnBounds DEF TypeInv
  <2>5. TypeInv'
    BY <2>1 DEF TypeInv
  <2>6. FreshInv'
    BY <2>1, <2>2, <2>3 DEF FreshInv
  <2>7. \A f \in Epochs : issued[f] \in Nat /\ issued'[f] \in Nat
                            /\ issued[f] =< issued'[f]
    BY <2>2 DEF TypeInv
  <2>8. LngInv'
    <3>1. \A f \in Epochs : 1 .. issued[f] \subseteq 1 .. issued'[f]
      BY <2>7
    <3>2. QED
      BY <2>1, <3>1 DEF LngInv, LngAt
  <2>9. TargetInv'
    BY <2>1, <2>2, <2>4, <2>7 DEF TargetInv, TypeInv
  <2>10. MutexInv' /\ AfterTargetInv'
    BY <2>1 DEF MutexInv, AfterTargetInv
  <2>11. QED
    BY <2>5, <2>6, <2>8, <2>9, <2>10
<1>2. ASSUME NEW e \in Epochs, NEW n \in Esns,
             RetireReplicated(e, n) \/ RetireAborted(e, n)
      PROVE  ProgressInv'
  <2>1. /\ n \in 1 .. issued[e]
        /\ UNCHANGED <<epochState, open, issued, lng, lastReaped, target,
                       lngChanged, pc, rest>>
        /\ \/ /\ replicated' = [replicated EXCEPT ![e] = @ \cup {n}]
              /\ aborted' = aborted
           \/ /\ aborted' = [aborted EXCEPT ![e] = @ \cup {n}]
              /\ replicated' = replicated
    BY <1>2 DEF RetireReplicated, RetireAborted, Running, threadVars
  <2>2. n \in Nat
    BY MaxEsnBounds DEF Esns
  <2>3. TypeInv'
    BY <2>1, <2>2 DEF TypeInv
  <2>4. FreshInv' /\ TargetInv' /\ MutexInv' /\ AfterTargetInv'
    BY <2>1 DEF FreshInv, TargetInv, MutexInv, AfterTargetInv
  <2>5. \A f \in Epochs :
            /\ replicated[f] \subseteq replicated'[f]
            /\ aborted[f] \subseteq aborted'[f]
            /\ replicated'[f] \cup aborted'[f]
                    \subseteq replicated[f] \cup aborted[f] \cup 1 .. issued[f]
    BY <2>1 DEF TypeInv
  <2>6. LngInv'
    BY <2>1, <2>5 DEF LngInv, LngAt
  <2>7. QED
    BY <2>3, <2>4, <2>6
<1>3. QED
  BY <1>1, <1>2 DEF AppenderStep

-----------------------------------------------------------------------------
(* Steps of the threads inside an epoch sequencer.                         *)

LEMMA FreshKept ==
    ASSUME FreshInv, NEW e \in Epochs, NEW a \in Actors, NEW l,
           a \in Transitions => pc[e][a] # "idle",
           Moved(e, a, l), issued' = issued,
           \A f \in Epochs :
                /\ epochState'[f] = "NONE" => epochState[f] = "NONE"
                /\ open'[f] => open[f]
    PROVE  FreshInv'
<1>1. \A f \in Epochs, n \in Transitions :
            epochState[f] = "NONE" => pc'[f][n] = pc[f][n]
  BY DEF Moved, FreshInv, Transitions, Actors
<1>2. QED
  BY <1>1 DEF FreshInv, Moved

LEMMA ReaperKeeps ==
    ASSUME ProgressInv, ThreadTypes, NEW e \in Epochs, ReaperStep(e)
    PROVE  ProgressInv'
<1> USE DEF ProgressInv
<1>1. /\ rest' = rest
      /\ UNCHANGED <<epochState, open, issued, replicated, aborted, target>>
      /\ \E l \in Labels \ {"quiescent"} : Goto(e, "reaper", l)
  BY DEF ReaperStep, ReapLng, ReapStore, Release, AdvanceLastReleased,
         epochVars, Labels
<1>2. PICK l \in Labels \ {"quiescent"} : Goto(e, "reaper", l)
  BY <1>1
<1>3. "reaper" \in Actors /\ "reaper" \notin Transitions
  BY DEF Actors, Transitions
<1>4. Moved(e, "reaper", l)
  BY <1>1, <1>2, <1>3, GotoEffect DEF Moved, ThreadTypes
<1>5. /\ pc'[e]["reaper"] = l
      /\ \A f \in Epochs, a \in Actors :
            f # e \/ a # "reaper" => pc'[f][a] = pc[f][a]
      /\ \A f \in Epochs, n \in Transitions : pc'[f][n] = pc[f][n]
      /\ \A f \in Epochs : f # e => pc'[f]["reaper"] = pc[f]["reaper"]
  BY <1>3, <1>4 DEF Moved, Actors, Transitions
<1>6. FreshInv'
  BY <1>1, <1>3, <1>4, FreshKept
<1>7. MutexInv' /\ AfterTargetInv'
  BY <1>1, <1>5 DEF MutexInv, AfterTargetInv
<1>8. CASE Release(e) \/ AdvanceLastReleased(e)
  <2>1. UNCHANGED <<lng, lastReaped, lngChanged>>
    BY <1>8 DEF Release, AdvanceLastReleased, epochVars
  <2>2. \/ pc'[e]["reaper"] = "idle"
        \/ /\ pc'[e]["reaper"] = "advance"
           /\ pc[e]["reaper"] = "release" /\ lngChanged[e]
    BY <1>3, <1>8, GotoEffect DEF Release, AdvanceLastReleased, MayRelease,
                                  ThreadTypes, Labels
  <2>3. TypeInv'
    BY <1>1, <2>1 DEF TypeInv
  <2>4. TargetInv'
    BY <1>1, <1>5, <2>1 DEF TargetInv
  <2>5. LngInv'
    <3>1. ASSUME NEW f \in Epochs, f # e PROVE LngAt(f)'
      BY <1>1, <1>5, <2>1, <3>1 DEF LngInv, LngAt
    <3>2. LngAt(e)'
      BY <1>1, <2>1, <2>2 DEF LngInv, LngAt
    <3>3. QED
      BY <3>1, <3>2 DEF LngInv
  <2>6. QED
    BY <1>6, <1>7, <2>3, <2>4, <2>5
<1>9. CASE ReapLng(e)
  <2>1. PICK n \in Nat : n = lastReaped[e] + 1
    BY DEF TypeInv
  <2>2. PICK c \in BOOLEAN : c = AdvancesLng(e, n)
    BY DEF AdvancesLng
  <2>3. /\ n \in replicated[e] \cup aborted[e]
        /\ lngChanged' = [lngChanged EXCEPT ![e] = c]
        /\ lng' = [lng EXCEPT ![e] = IF c THEN n ELSE @]
        /\ Goto(e, "reaper", "reap")
        /\ lastReaped' = lastReaped
    BY <1>9, <2>1, <2>2 DEF ReapLng
  <2>4. TypeInv'
    BY <1>1, <2>3 DEF TypeInv
  <2>5. pc'[e]["reaper"] = "reap"
    BY <1>3, <2>3, GotoEffect DEF ThreadTypes, Labels
  <2>6. TargetInv'
    BY <1>1, <1>5, <2>3 DEF TargetInv
  <2>7. /\ lng'[e] = IF c THEN n ELSE lng[e]
        /\ lngChanged'[e] = c
        /\ \A f \in Epochs : f # e => lng'[f] = lng[f]
                                        /\ lngChanged'[f] = lngChanged[f]
    BY <2>3 DEF TypeInv
  <2>8. c => n \in replicated[e] /\ lng[e] = n - 1
    BY <2>2 DEF AdvancesLng
  <2>9. 1 .. lng'[e] \subseteq replicated[e]
    BY <2>7, <2>8 DEF LngInv, LngAt, TypeInv
  <2>10. LngInv'
    <3>1. ASSUME NEW f \in Epochs, f # e PROVE LngAt(f)'
      BY <1>1, <1>5, <2>3, <2>7, <3>1 DEF LngInv, LngAt
    <3>2. LngAt(e)'
      BY <1>1, <2>1, <2>3, <2>5, <2>7, <2>9 DEF LngInv, LngAt
    <3>3. QED
      BY <3>1, <3>2 DEF LngInv
  <2>11. QED
    BY <1>6, <1>7, <2>4, <2>6, <2>10
<1>10. CASE ReapStore(e)
  <2>1. /\ pc[e]["reaper"] = "reap"
        /\ lastReaped' = [lastReaped EXCEPT ![e] = @ + 1]
        /\ Goto(e, "reaper", "check")
        /\ UNCHANGED <<lng, lngChanged>>
    BY <1>10 DEF ReapStore
  <2>2. pc'[e]["reaper"] = "check"
    BY <1>3, <2>1, GotoEffect DEF ThreadTypes, Labels
  <2>3. /\ lastReaped'[e] = lastReaped[e] + 1
        /\ \A f \in Epochs : f # e => lastReaped'[f] = lastReaped[f]
    BY <2>1 DEF TypeInv
  <2>4. TypeInv'
    BY <1>1, <2>1 DEF TypeInv
  <2>5. LngInv'
    <3>1. ASSUME NEW f \in Epochs, f # e PROVE LngAt(f)'
      BY <1>1, <1>5, <2>1, <2>3, <3>1 DEF LngInv, LngAt
    <3>2. LngAt(e)'
      BY <1>1, <2>1, <2>2, <2>3 DEF LngInv, LngAt
    <3>3. QED
      BY <3>1, <3>2 DEF LngInv
  <2>6. lastReaped[e] + 1 \in 1 .. issued[e]
    BY <2>1 DEF LngInv, LngAt
  <2>7. epochState[e] # "QUIESCENT" /\ \A a \in Actors : pc[e][a] # "quiescent"
    <3>1. target[e] # LsnMax => target[e] = issued[e]
      BY DEF TargetInv
    <3>2. QED
      BY <2>6, <3>1 DEF TargetInv, TypeInv
  <2>8. TargetInv'
    BY <1>1, <1>5, <2>2, <2>3, <2>6, <2>7 DEF TargetInv
  <2>9. QED
    BY <1>6, <1>7, <2>4, <2>5, <2>8
<1>11. QED
  BY <1>8, <1>9, <1>10 DEF ReaperStep

LEMMA LngKept ==
    ASSUME LngInv, UNCHANGED <<issued, replicated, aborted, lng, lastReaped,
                               lngChanged>>,
           \A e \in Epochs : \/ pc'[e]["reaper"] = pc[e]["reaper"]
                             \/ /\ pc[e]["reaper"] \in {"check", "quiescent", "notify"}
                                /\ pc'[e]["reaper"] \in {"quiescent", "notify",
                                                         "release"}
    PROVE  LngInv'
BY DEF LngInv, LngAt

LEMMA TransitionKeeps ==
    ASSUME ProgressInv, ThreadTypes, NEW e \in Epochs, NEW n \in Transitions,
           TransitionStep(e, n)
    PROVE  ProgressInv'
<1> USE DEF ProgressInv
<1>1. /\ rest' = rest
      /\ UNCHANGED <<issued, replicated, aborted, lng, lastReaped, lngChanged>>
      /\ \E l \in Labels : Goto(e, n, l)
      /\ pc[e][n] # "idle"
  BY DEF TransitionStep, TransitionTo, SetTarget, SetState, Labels
<1>2. PICK l \in Labels : Goto(e, n, l)
  BY <1>1
<1>3. n \in Actors /\ n # "reaper" /\ "reaper" \in Actors
  BY DEF Actors, Transitions
<1>4. Moved(e, n, l)
  BY <1>1, <1>2, <1>3, GotoEffect DEF Moved, ThreadTypes
<1>5. /\ pc'[e][n] = l
      /\ \A f \in Epochs, a \in Actors :
            f # e \/ a # n => pc'[f][a] = pc[f][a]
      /\ \A f \in Epochs, m \in Transitions :
            f # e \/ m # n => pc'[f][m] = pc[f][m]
      /\ \A f \in Epochs : pc'[f]["reaper"] = pc[f]["reaper"]
  BY <1>3, <1>4 DEF Moved, Actors, Transitions
<1>6. LngInv'
  BY <1>1, <1>5, LngKept
<1>7. epochState[e] # "NONE"
  BY <1>1 DEF FreshInv
<1>8. /\ Rank("NONE") = 1 /\ Rank("ACTIVE") = 2 /\ Rank("DRAINING") = 3
      /\ Rank("DYING") = 4 /\ Rank("QUIESCENT") = 5
  BY RankValues
<1>9. epochState[e] \in {"ACTIVE", "DRAINING", "DYING", "QUIESCENT"}
  BY <1>7 DEF TypeInv
<1>10. Rank(epochState[e]) \in 2 .. 5 /\ Rank(n) \in 3 .. 4
  BY <1>8, <1>9 DEF Transitions
<1>11. CASE TransitionTo(e, n) /\ Rank(epochState[e]) >= Rank(n)
  <2>1. l = "return"
    BY <1>2, <1>3, <1>5, <1>10, <1>11, GotoEffect DEF TransitionTo, ThreadTypes,
                                                      Labels
  <2>2. UNCHANGED <<epochState, open, target>>
    BY <1>10, <1>11 DEF TransitionTo
  <2>3. TypeInv'
    BY <1>1, <2>2 DEF TypeInv
  <2>4. FreshInv'
    BY <1>1, <1>3, <1>4, <2>2, FreshKept
  <2>5. TargetInv'
    BY <1>1, <1>5, <2>1, <2>2 DEF TargetInv
  <2>6. MutexInv'
    BY <1>5, <2>1, <2>2 DEF MutexInv
  <2>7. pc[e][n] = "called"
    BY <1>11 DEF TransitionTo
  <2>8. AfterTargetInv'
    BY <1>5, <2>1, <2>2, <2>7 DEF AfterTargetInv
  <2>9. QED
    BY <1>6, <2>3, <2>4, <2>5, <2>6, <2>8
<1>12. CASE TransitionTo(e, n) /\ Rank(epochState[e]) < Rank(n)
  <2>1. /\ pc[e][n] = "called"
        /\ EpochMutexFree(e)
        /\ UNCHANGED <<epochState, target>>
        /\ open' = [open EXCEPT ![e] = FALSE]
    BY <1>10, <1>12 DEF TransitionTo
  <2>2. l \in {"disabled", "targeted"}
    BY <1>2, <1>3, <1>5, <1>10, <1>12, GotoEffect DEF TransitionTo,
                                                      ThreadTypes, Labels
  <2>3. TypeInv'
    BY <1>1, <2>1 DEF TypeInv
  <2>4. open'[e] = FALSE /\ \A f \in Epochs : f # e => open'[f] = open[f]
    BY <2>1 DEF TypeInv
  <2>5. FreshInv'
    BY <1>1, <1>3, <1>4, <2>1, <2>4, FreshKept
  <2>6. TargetInv'
    BY <1>1, <1>5, <2>1, <2>2, <2>4 DEF TargetInv
  <2>7. MutexInv'
    BY <1>5, <1>12, <2>1, <2>2 DEF MutexInv, EpochMutexFree
  <2>8. AfterTargetInv'
    BY <1>5, <2>1, <2>2 DEF AfterTargetInv
  <2>9. QED
    BY <1>6, <2>3, <2>5, <2>6, <2>7, <2>8
<1>13. CASE SetTarget(e, n)
  <2>1. /\ pc[e][n] = "disabled"
        /\ target' = [target EXCEPT ![e] = issued[e]]
        /\ UNCHANGED <<epochState, open>>
    BY <1>13 DEF SetTarget, DrainingTarget
  <2>2. l = "targeted"
    BY <1>3, <1>5, <1>13, GotoEffect DEF SetTarget, ThreadTypes, Labels
  <2>3. TypeInv'
    BY <1>1, <2>1 DEF TypeInv
  <2>4. FreshInv'
    BY <1>1, <1>3, <1>4, <2>1, FreshKept
  <2>5. target'[e] = issued[e] /\ \A f \in Epochs : f # e => target'[f] = target[f]
    BY <2>1 DEF TypeInv
  <2>6. ~open[e] /\ issued[e] # LsnMax /\ (target[e] # LsnMax => target[e] = issued[e])
    BY <2>1, MaxEsnBounds DEF TargetInv, TypeInv, LsnMax
  <2>7. TargetInv'
    <3>1. \A a \in Actors : pc'[e][a] = "quiescent" => lastReaped[e] = issued[e]
      BY <1>5, <2>2, <2>6 DEF TargetInv
    <3>2. QED
      BY <1>1, <1>5, <2>1, <2>2, <2>5, <2>6, <3>1 DEF TargetInv
  <2>8. MutexInv'
    BY <1>5, <2>1, <2>2 DEF MutexInv
  <2>9. AfterTargetInv'
    BY <1>5, <2>1, <2>2, <2>5 DEF AfterTargetInv
  <2>10. QED
    BY <1>6, <2>3, <2>4, <2>7, <2>8, <2>9
<1>14. CASE SetState(e, n)
  <2>1. /\ pc[e][n] = "targeted"
        /\ epochState' = [epochState EXCEPT ![e] = n]
        /\ UNCHANGED <<open, target>>
    BY <1>14 DEF SetState
  <2>2. l = "check"
    BY <1>3, <1>5, <1>14, GotoEffect DEF SetState, ThreadTypes, Labels
  <2>3. TypeInv'
    BY <1>1, <2>1 DEF TypeInv, Transitions
  <2>4. epochState'[e] = n /\ \A f \in Epochs : f # e => epochState'[f] = epochState[f]
    BY <2>1 DEF TypeInv
  <2>5. n # "NONE" /\ n # "QUIESCENT"
    BY DEF Transitions
  <2>6. FreshInv'
    BY <1>1, <1>3, <1>4, <2>1, <2>4, <2>5, FreshKept
  <2>7. TargetInv'
    BY <1>1, <1>5, <2>1, <2>2, <2>4, <2>5 DEF TargetInv
  <2>8. \A m \in Transitions : pc'[e][m] \notin {"disabled", "targeted"}
    BY <1>5, <2>1, <2>2 DEF MutexInv
  <2>9. MutexInv'
    BY <1>5, <2>4, <2>8 DEF MutexInv
  <2>10. AfterTargetInv'
    BY <1>5, <1>8, <1>10, <2>1, <2>4 DEF AfterTargetInv
  <2>11. QED
    BY <1>6, <2>3, <2>6, <2>7, <2>9, <2>10
<1>15. QED
  BY <1>10, <1>11, <1>12, <1>13, <1>14 DEF TransitionStep

LEMMA QuiescentKeeps ==
    ASSUME ProgressInv, ThreadTypes, NEW e \in Epochs, NEW a \in Actors,
           QuiescentStep(e, a)
    PROVE  ProgressInv'
<1> USE DEF ProgressInv
<1>1. /\ rest' = rest
      /\ UNCHANGED <<open, issued, replicated, aborted, lng, lastReaped, target,
                     lngChanged>>
      /\ \E l \in {"quiescent", "notify", "release", "return"} :
            Goto(e, a, l) /\ (a = "reaper" => l # "return")
      /\ pc[e][a] \in {"check", "quiescent", "notify"}
  BY DEF QuiescentStep, CheckQuiescent, OnEpochQuiescent, NoteDrainingCompleted,
         AfterQuiescent, epochVars
<1>2. PICK l \in {"quiescent", "notify", "release", "return"} :
            Goto(e, a, l) /\ (a = "reaper" => l # "return")
  BY <1>1
<1>3. "reaper" \in Actors /\ l \in Labels
  BY DEF Actors, Labels
<1>4. Moved(e, a, l)
  BY <1>1, <1>2, <1>3, GotoEffect DEF Moved, ThreadTypes
<1>5. /\ pc'[e][a] = l
      /\ \A f \in Epochs, b \in Actors :
            f # e \/ b # a => pc'[f][b] = pc[f][b]
      /\ \A f \in Epochs, m \in Transitions :
            f # e \/ m # a => pc'[f][m] = pc[f][m]
  BY <1>4 DEF Moved, Actors, Transitions
<1>6. LngInv'
  <2>1. a = "reaper" => l # "return"
    BY <1>1, <1>2
  <2>2. QED
    BY <1>1, <1>3, <1>5, <2>1, LngKept
<1>7. TypeInv'
  BY <1>1 DEF TypeInv, QuiescentStep, CheckQuiescent, OnEpochQuiescent,
              NoteDrainingCompleted, epochVars
<1>8. \A f \in Epochs :
            \/ epochState'[f] = epochState[f]
            \/ /\ f = e /\ epochState'[e] = "QUIESCENT" /\ EpochMutexFree(e)
               /\ pc[e][a] = "quiescent"
  BY DEF TypeInv, QuiescentStep, CheckQuiescent, OnEpochQuiescent,
         NoteDrainingCompleted, QuiescentLock, epochVars
<1>9. FreshInv'
  <2>1. \A f \in Epochs : epochState'[f] = "NONE" => epochState[f] = "NONE"
    BY <1>8
  <2>2. QED
    BY <1>1, <1>4, <2>1, FreshKept
<1>10. l = "quiescent" => lastReaped[e] = target[e] /\ target[e] # LsnMax
  <2>1. ASSUME l = "quiescent" PROVE lastReaped[e] = target[e]
    BY <1>3, <1>5, <2>1, GotoEffect DEF QuiescentStep, CheckQuiescent,
        OnEpochQuiescent, NoteDrainingCompleted, AfterQuiescent, ThreadTypes,
        Labels
  <2>2. lastReaped[e] # LsnMax
    BY MaxEsnBounds DEF TargetInv, TypeInv, LsnMax
  <2>3. QED
    BY <2>1, <2>2
<1>11. TargetInv'
  BY <1>1, <1>5, <1>8, <1>10 DEF TargetInv
<1>12. MutexInv'
  <2>1. \A f \in Epochs, m \in Transitions :
            pc'[f][m] \in {"disabled", "targeted"} =>
                pc[f][m] \in {"disabled", "targeted"}
                    /\ epochState'[f] = epochState[f]
    BY <1>5, <1>8 DEF EpochMutexFree
  <2>2. QED
    BY <2>1 DEF MutexInv
<1>13. AfterTargetInv'
  <2>1. \A f \in Epochs, m \in Transitions :
            pc[f][m] = "targeted" => pc'[f][m] = "targeted"
    BY <1>1, <1>5
  <2>2. \A f \in Epochs : \/ epochState'[f] = epochState[f]
                          \/ epochState'[f] = "QUIESCENT"
    BY <1>8
  <2>3. QED
    BY <1>1, <2>1, <2>2, RankValues DEF AfterTargetInv
<1>14. QED
  BY <1>6, <1>7, <1>9, <1>11, <1>12, <1>13

LEMMA ProgressStep ==
    ASSUME ProgressInv, ThreadTypes, EpochInv, CallInv, Step
    PROVE  ProgressInv' /\ CallInv' /\ ThreadTypes'
<1>1. Kinds
  BY StepKinds DEF ProgressInv
<1>2. CASE LabelStep /\ CallInv' /\ ThreadTypes'
  BY <1>2, ReaperKeeps, TransitionKeeps, QuiescentKeeps DEF LabelStep
<1>3. QED
  BY <1>1, <1>2, CalmKeeps, ReplyKeeps, AppenderKeeps DEF Kinds, ReplyStep

-----------------------------------------------------------------------------
(* The epochs that the sequencer and log recovery refer to.                *)

\* What all steps but a successful activation do to the sequencer: no epoch is
\* entered, an answer of the epoch store is a new epoch, and the epoch that
\* onRecoveryCompleted() works on stays the current one.
Parent ==
    /\ \/ storeEpoch' = storeEpoch /\ replies' \subseteq replies
       \/ /\ storeEpoch < bound.epochs
          /\ storeEpoch' = storeEpoch + 1
          /\ replies' \subseteq replies \cup {storeEpoch + 1}
    /\ current' \in {current, 0}
    /\ draining' \in {current, draining, 0}
    /\ requests' \subseteq requests \cup ({current} \ {0})
    /\ running' \in {running, 0} \cup requests
    /\ \/ completing' = None
       \/ /\ completing' = completing
          /\ current' = current /\ running' = running
       \/ /\ Completes
          /\ completing' = lng[current]
          /\ current' = current /\ running' = running

LEMMA ParentSteps ==
    ASSUME ThreadTypes, EpochInv, CallInv, FreshInv, Step
    PROVE  Parent \/ \E e \in Epochs : ReplyStep(e)
<1>1. ASSUME UNCHANGED <<storeEpoch, replies, current, requests, running,
                         completing>>,
             draining' \in {draining, 0}
      PROVE  Parent
  BY <1>1 DEF Parent
<1>2. ASSUME NEW a \in 0 .. MaxEpoch,
             \/ StartActivation(a) \/ EpochStoreReply(a) \/ EpochStoreError(a)
             \/ EpochStoreAborted(a)
      PROVE  Parent
  BY <1>2 DEF StartActivation, EpochStoreReply, EpochStoreError, Parent,
        EpochStoreAborted, parentVars, recoveryVars
<1>3. ASSUME NEW a \in 0 .. MaxEpoch, OnPermanentError(a)
      PROVE  Parent
  BY <1>3 DEF OnPermanentError, StateMutexFree, Parent
<1>4. ASSUME NEW drain \in BOOLEAN, SetUnavailable(drain)
      PROVE  Parent
  BY <1>4 DEF SetUnavailable, StateMutexFree, activationVars, Parent
<1>5. ASSUME NEW e \in Epochs, CompleteActivation(e)
      PROVE  Parent \/ ReplyStep(e)
  <2>1. /\ replies' \subseteq replies
        /\ UNCHANGED <<storeEpoch, requests, running, completing>>
    BY <1>5 DEF CompleteActivation
  <2>2. CASE UNCHANGED <<parentVars, epochVars, threadVars>>
    BY <2>1, <2>2 DEF parentVars, Parent
  <2>3. QED
    BY <1>5, <2>2, ReplyCases
<1>6. CASE OnActivationFailed
  BY <1>1, <1>6 DEF OnActivationFailed, recoveryVars
<1>7. CASE PreemptionStep
  <2>1. CASE OtherNodeActivates
    <3>1. bound.epochs \in Nat
      BY BoundsAssumption DEF EpochInv
    <3>2. storeEpoch < bound.epochs
      BY <2>1, <3>1 DEF OtherNodeActivates
    <3>3. QED
      BY <2>1, <3>2 DEF OtherNodeActivates, parentVars, recoveryVars, Parent
  <2>2. QED
    BY <1>1, <1>7, <2>1 DEF PreemptionStep, OtherNodeSeals, NotePreempted,
        EnterPreempted, parentVars, activationVars, recoveryVars
<1>8. CASE AppenderStep
  BY <1>1, <1>8 DEF AppenderStep, RunAppender, RetireReplicated,
        RetireAborted, parentVars, activationVars, recoveryVars
<1>9. ASSUME NEW e \in Epochs, OnDrainingTimerExpired(e)
      PROVE  Parent
  BY <1>1, <1>9 DEF OnDrainingTimerExpired, activationVars
<1>10. ASSUME NEW e \in Epochs, ReaperStep(e)
       PROVE  Parent
  BY <1>1, <1>10 DEF ReaperStep, ReapLng, ReapStore, Release,
        AdvanceLastReleased, parentVars, activationVars, recoveryVars
<1>11. ASSUME NEW e \in Epochs, NEW n \in Transitions,
              TransitionStep(e, n) \/ ReturnFromTransition(e, n)
       PROVE  Parent
  BY <1>1, <1>11 DEF TransitionStep, TransitionTo, SetTarget, SetState,
        ReturnFromTransition, parentVars, activationVars, recoveryVars
<1>12. ASSUME NEW e \in Epochs, NEW a \in Actors, QuiescentStep(e, a)
       PROVE  Parent
  BY <1>1, <1>12 DEF QuiescentStep, CheckQuiescent, OnEpochQuiescent,
        NoteDrainingCompleted, parentVars, activationVars, recoveryVars
<1>13. CASE RecoveryStep
  <2>1. UNCHANGED <<storeEpoch, replies, current, draining>>
    BY <1>13 DEF RecoveryStep, StartRecovery, PopRecoveryRequest,
        DropRecovery, RunRecovery, QueueRecovery, RecoveryCompleted,
        FinishRecovery, RecoveryFailed, SealEpochs, RecoveryPreempted,
        parentVars, activationVars
  <2>2. /\ requests' \subseteq requests \cup ({current} \ {0})
        /\ running' \in {running, 0} \cup requests
    BY <1>13 DEF RecoveryStep, StartRecovery, PopRecoveryRequest,
        DropRecovery, RunRecovery, QueueRecovery, RecoveryCompleted,
        FinishRecovery, RecoveryFailed, SealEpochs, RecoveryPreempted,
        recoveryVars
  <2>3. \/ completing' = None
        \/ completing' = completing /\ running' = running
        \/ Completes /\ completing' = lng[current] /\ running' = running
    BY <1>13 DEF RecoveryStep, StartRecovery, PopRecoveryRequest,
        DropRecovery, RunRecovery, QueueRecovery, RecoveryCompleted,
        FinishRecovery, RecoveryFailed, SealEpochs, RecoveryPreempted,
        GetLastKnownGood, StateMutexFree, recoveryVars
  <2>4. QED
    BY <2>1, <2>2, <2>3 DEF Parent
<1>14. ASSUME NEW e \in Epochs, EpochStep(e)
       PROVE  Parent
  BY <1>10, <1>11, <1>12, <1>14 DEF EpochStep, ReaperStep, TransitionStep,
        QuiescentStep
<1>15. QED
  BY <1>2, <1>3, <1>4, <1>5, <1>6, <1>7, <1>8, <1>9, <1>13, <1>14
     DEF Step, ActivationStep

LEMMA ActivatedSteps ==
    ASSUME ProgressInv, ThreadTypes, EpochInv, CallInv, Step
    PROVE  \/ /\ Parent
              /\ Activated' = Activated
           \/ \E e \in Epochs : /\ ReplyStep(e)
                                /\ Activated' = Activated \cup {e}
<1> USE DEF ProgressInv
<1>1. ASSUME NEW e \in Epochs, ReplyStep(e)
      PROVE  Activated' = Activated \cup {e}
  <2>1. epochState' = [epochState EXCEPT ![e] = "ACTIVE"]
    BY <1>1 DEF ReplyStep, Activates
  <2>2. QED
    BY <2>1 DEF Activated, TypeInv
<1>2. epochState' = epochState => Activated' = Activated
  BY DEF Activated
<1>3. ASSUME NEW e \in Epochs, NEW n \in Transitions, TransitionStep(e, n)
      PROVE  Activated' = Activated
  <2>1. epochState[e] # "NONE"
    BY <1>3 DEF FreshInv, TransitionStep, TransitionTo, SetTarget, SetState
  <2>2. epochState' = epochState \/ epochState' = [epochState EXCEPT ![e] = n]
    BY <1>3 DEF TransitionStep, TransitionTo, SetTarget, SetState
  <2>3. n # "NONE"
    BY DEF Transitions
  <2>4. QED
    BY <2>1, <2>2, <2>3 DEF Activated, TypeInv
<1>4. ASSUME NEW e \in Epochs, NEW a \in Actors, QuiescentStep(e, a)
      PROVE  Activated' = Activated
  <2>1. CASE epochState' = epochState
    BY <1>2, <2>1
  <2>2. CASE epochState' # epochState
    <3>1. /\ pc[e][a] = "quiescent"
          /\ epochState' = [epochState EXCEPT ![e] = "QUIESCENT"]
      BY <1>4, <2>2 DEF QuiescentStep, CheckQuiescent, OnEpochQuiescent,
                        NoteDrainingCompleted, epochVars
    <3>2. target[e] # LsnMax
      BY <3>1 DEF TargetInv
    <3>3. epochState[e] # "NONE"
      BY <3>2, RankValues DEF AfterTargetInv, FreshInv
    <3>4. QED
      BY <3>1, <3>3 DEF Activated, TypeInv
  <2>3. QED
    BY <2>1, <2>2
<1>5. ASSUME Calm \/ AppenderStep PROVE Activated' = Activated
  BY <1>2, <1>5 DEF Calm, progressVars, AppenderStep, RunAppender,
                    RetireReplicated, RetireAborted
<1>6. ASSUME LabelStep PROVE Activated' = Activated
  <2>1. ASSUME NEW e \in Epochs, ReaperStep(e) PROVE Activated' = Activated
    BY <1>2, <2>1 DEF ReaperStep, ReapLng, ReapStore, Release,
                      AdvanceLastReleased, epochVars
  <2>2. QED
    BY <1>3, <1>4, <1>6, <2>1 DEF LabelStep
<1>7. (\E e \in Epochs : ReplyStep(e)) \/ Activated' = Activated
  BY <1>5, <1>6, StepKinds DEF Kinds
<1>8. QED
  BY <1>1, <1>7, ParentSteps

LEMMA EpochStepKeeps ==
    ASSUME EpochInv, RecoveryInv, bound' = bound,
           \/ Parent /\ Activated' = Activated
           \/ \E e \in Epochs : Activates(e) /\ Activated' = Activated \cup {e}
    PROVE  EpochInv' /\ RecoveryInv'
<1>0. bound.epochs \in Nat /\ storeEpoch \in Nat
  BY BoundsAssumption DEF EpochInv
<1>1. CASE Parent /\ Activated' = Activated
  <2>1. storeEpoch' \in 0 .. bound'.epochs /\ Activated' \subseteq 1 .. storeEpoch'
    BY <1>0, <1>1 DEF Parent, EpochInv
  <2>2. replies' \subseteq 1 .. storeEpoch' /\ replies' \cap Activated' = {}
    <3>1. storeEpoch + 1 \notin Activated
      BY <1>0 DEF EpochInv
    <3>2. CASE storeEpoch' = storeEpoch /\ replies' \subseteq replies
      BY <1>1, <3>2 DEF EpochInv
    <3>3. CASE /\ storeEpoch' = storeEpoch + 1
               /\ replies' \subseteq replies \cup {storeEpoch + 1}
      <4>1. 1 .. storeEpoch' = 1 .. storeEpoch \cup {storeEpoch + 1}
        BY <1>0, <3>3
      <4>2. QED
        BY <1>1, <3>1, <3>3, <4>1 DEF EpochInv
    <3>4. QED
      BY <1>1, <3>2, <3>3 DEF Parent
  <2>3. /\ {current', draining'} \subseteq Activated' \cup {0}
        /\ requests' \subseteq Activated'
        /\ running' \in Activated' \cup {0}
    BY <1>1 DEF Parent, EpochInv, RecoveryInv
  <2>4. QED
    BY <2>1, <2>2, <2>3 DEF EpochInv, RecoveryInv
<1>2. ASSUME NEW e \in Epochs, Activates(e), Activated' = Activated \cup {e}
      PROVE  EpochInv' /\ RecoveryInv'
  <2>1. /\ e \in replies /\ replies' = replies \ {e} /\ storeEpoch' = storeEpoch
        /\ current' = e /\ draining' = current
        /\ requests' = requests /\ running' = running
    BY <1>2 DEF Activates
  <2>2. QED
    BY <1>2, <2>1 DEF EpochInv, RecoveryInv
<1>3. QED
  BY <1>1, <1>2

LEMMA OrderStepKeeps ==
    ASSUME OrderedReplies, EpochInv, OrderInv,
           \/ Parent /\ Activated' = Activated
           \/ \E e \in Epochs : Activates(e) /\ Activated' = Activated \cup {e}
    PROVE  OrderInv'
<1>1. storeEpoch \in Nat /\ Activated \subseteq 1 .. storeEpoch
  BY BoundsAssumption DEF EpochInv
<1>2. CASE Parent /\ Activated' = Activated
  <2>1. \A e \in Activated' : \A r \in replies' : e < r
    BY <1>1, <1>2 DEF Parent, OrderInv
  <2>2. current' # 0 => \A e \in Activated' : e =< current'
    BY <1>2 DEF Parent, OrderInv
  <2>3. completing' # None => current' =< running'
    BY <1>2 DEF Parent, OrderInv, Completes
  <2>4. QED
    BY <2>1, <2>2, <2>3 DEF OrderInv
<1>3. ASSUME NEW e \in Epochs, Activates(e), Activated' = Activated \cup {e}
      PROVE  OrderInv'
  <2>1. /\ e \in replies /\ replies' = replies \ {e} /\ current' = e
        /\ \A d \in replies : e =< d
        /\ completing' = None
    BY <1>3 DEF Activates, StateMutexFree
  <2>2. replies \subseteq Int /\ Activated \subseteq Int
    BY <1>1 DEF EpochInv
  <2>3. \A f \in Activated : f < e
    BY <2>1 DEF OrderInv
  <2>4. \A f \in Activated' : \A r \in replies' : f < r
    BY <1>3, <2>1, <2>2 DEF OrderInv
  <2>5. \A f \in Activated' : f =< current'
    BY <1>3, <2>1, <2>2, <2>3
  <2>6. QED
    BY <2>1, <2>4, <2>5 DEF OrderInv
<1>4. QED
  BY <1>2, <1>3

\* lng never goes back.
LEMMA LngGrows ==
    ASSUME ProgressInv, ThreadTypes, EpochInv, CallInv, Step
    PROVE  \A e \in Epochs : lng[e] =< lng'[e]
<1> USE DEF ProgressInv
<1>1. \A e \in Epochs : lng[e] \in Nat
  BY DEF TypeInv
<1>2. CASE lng' = lng
  BY <1>1, <1>2
<1>3. ASSUME NEW e \in Epochs, ReapLng(e)
      PROVE  \A f \in Epochs : lng[f] =< lng'[f]
  <2>1. PICK n : n = lastReaped[e] + 1
    OBVIOUS
  <2>2. lng' = [lng EXCEPT ![e] = IF AdvancesLng(e, n) THEN n ELSE @]
    BY <1>3, <2>1 DEF ReapLng
  <2>3. n \in Nat
    BY <2>1 DEF TypeInv
  <2>4. CASE AdvancesLng(e, n)
    BY <1>1, <2>2, <2>3, <2>4 DEF AdvancesLng, TypeInv
  <2>5. CASE ~AdvancesLng(e, n)
    BY <1>1, <2>2, <2>5 DEF TypeInv
  <2>6. QED
    BY <2>4, <2>5
<1>4. CASE Calm \/ AppenderStep \/ \E e \in Epochs : ReplyStep(e)
  BY <1>2, <1>4 DEF Calm, progressVars, AppenderStep, RunAppender,
        RetireReplicated, RetireAborted, ReplyStep, Activates
<1>5. CASE LabelStep
  BY <1>2, <1>3, <1>5 DEF LabelStep, ReaperStep, ReapStore, Release,
        AdvanceLastReleased, TransitionStep, TransitionTo, SetTarget, SetState,
        QuiescentStep, CheckQuiescent, OnEpochQuiescent, NoteDrainingCompleted,
        epochVars
<1>6. QED
  BY <1>4, <1>5, StepKinds DEF Kinds

\* Only the reaper of the epoch of last_released_ and the end of a recovery
\* change last_released_.
ReleaseMoves ==
    \/ lastReleased' = lastReleased
    \/ \E e \in Epochs :
        /\ pc[e]["reaper"] = "advance"
        /\ lastReleased.epoch = e
        /\ lastReleased' = Lsn(e, lastReaped[e])
    \/ /\ completing # None
       /\ lastReleased.epoch < current
       /\ lastReleased' = Lsn(current, completing)

LEMMA ReleaseSteps ==
    ASSUME Step
    PROVE  ReleaseMoves
<1>1. CASE ActivationStep
  BY <1>1 DEF ActivationStep, StartActivation, EpochStoreReply,
        EpochStoreError, EpochStoreAborted, OnPermanentError,
        CompleteActivation, OnActivationFailed, SetUnavailable, parentVars,
        ReleaseMoves
<1>2. CASE PreemptionStep \/ AppenderStep
  BY <1>2 DEF PreemptionStep, OtherNodeActivates, OtherNodeSeals,
        NotePreempted, EnterPreempted, AppenderStep, RunAppender,
        RetireReplicated, RetireAborted, parentVars, ReleaseMoves
<1>3. ASSUME NEW e \in Epochs, OnDrainingTimerExpired(e) PROVE ReleaseMoves
  BY <1>3 DEF OnDrainingTimerExpired, ReleaseMoves
<1>4. ASSUME NEW e \in Epochs, ReaperStep(e) PROVE ReleaseMoves
  BY <1>4 DEF ReaperStep, ReapLng, ReapStore, Release, AdvanceLastReleased,
        MayAdvance, parentVars, ReleaseMoves
<1>5. ASSUME NEW e \in Epochs, NEW n \in Transitions,
             TransitionStep(e, n) \/ ReturnFromTransition(e, n)
      PROVE  ReleaseMoves
  BY <1>5 DEF TransitionStep, TransitionTo, SetTarget, SetState,
        ReturnFromTransition, parentVars, ReleaseMoves
<1>6. ASSUME NEW e \in Epochs, NEW a \in Actors, QuiescentStep(e, a)
      PROVE  ReleaseMoves
  BY <1>6 DEF QuiescentStep, CheckQuiescent, OnEpochQuiescent,
        NoteDrainingCompleted, parentVars, ReleaseMoves
<1>7. CASE RecoveryStep
  BY <1>7 DEF RecoveryStep, StartRecovery, PopRecoveryRequest, DropRecovery,
        RunRecovery, QueueRecovery, RecoveryCompleted, FinishRecovery,
        RecoveryFailed, SealEpochs, RecoveryPreempted, parentVars, ReleaseMoves
<1>8. QED
  BY <1>1, <1>2, <1>3, <1>4, <1>5, <1>6, <1>7 DEF Step, EpochStep, ReaperStep,
        TransitionStep, QuiescentStep

LEMMA ReleaseStepKeeps ==
    ASSUME ProgressInv, ProgressInv', EpochInv, ReleaseInv, ReleaseMoves,
           \A e \in Epochs : lng[e] =< lng'[e],
           \/ Parent
           \/ \E e \in Epochs : Activates(e)
    PROVE  ReleaseInv' /\ AtMost(lastReleased, lastReleased')
<1> USE DEF ProgressInv
<1>1. /\ Epochs = 1 .. MaxEpoch /\ MaxEpoch \in Nat
      /\ current \in Epochs \cup {0}
      /\ \A e \in Epochs : lng[e] \in Nat /\ lng'[e] \in Nat
  BY EpochValues, MaxEpochBounds DEF Epochs, TypeInv
<1>2. (completing # None => current # 0 /\ completing \in 0 .. lng[current])'
  <2>1. CASE completing' = None
    BY <2>1
  <2>2. CASE completing' # None
    <3>1. Parent
      BY <2>2 DEF Activates, StateMutexFree
    <3>2. current' = current /\ current # 0 /\ completing' \in 0 .. lng[current]
      BY <1>1, <2>2, <3>1 DEF Parent, ReleaseInv, Completes
    <3>3. QED
      BY <1>1, <3>2
  <2>3. QED
    BY <2>1, <2>2
<1>3. CASE lastReleased' = lastReleased
  <2>1. /\ lastReleased.epoch \in 0 .. MaxEpoch /\ lastReleased.esn \in Nat
        /\ lastReleased.epoch # 0 => lastReleased.epoch \in Epochs
    BY <1>1 DEF ReleaseInv
  <2>2. (lastReleased.epoch # 0 =>
                lastReleased.esn =< lng[lastReleased.epoch])'
    BY <1>1, <1>3, <2>1 DEF ReleaseInv
  <2>3. QED
    BY <1>2, <1>3, <2>1, <2>2 DEF ReleaseInv, AtMost
<1>4. ASSUME NEW e \in Epochs, pc[e]["reaper"] = "advance",
             lastReleased.epoch = e, lastReleased' = Lsn(e, lastReaped[e])
      PROVE  ReleaseInv' /\ AtMost(lastReleased, lastReleased')
  <2>1. lng[e] = lastReaped[e]
    BY <1>4 DEF LngInv, LngAt
  <2>2. lastReleased'.epoch = e /\ lastReleased'.esn = lng[e]
    BY <1>4, <2>1 DEF Lsn
  <2>3. lastReleased' \in [epoch : 0 .. MaxEpoch, esn : Nat]
    BY <1>1, <1>4, <2>1 DEF Lsn
  <2>4. e # 0 /\ lastReleased.esn =< lng[e]
    BY <1>1, <1>4 DEF ReleaseInv
  <2>5. QED
    BY <1>1, <1>2, <1>4, <2>2, <2>3, <2>4 DEF ReleaseInv, AtMost
<1>5. CASE /\ completing # None
           /\ lastReleased.epoch < current
           /\ lastReleased' = Lsn(current, completing)
  <2>1. current \in Epochs /\ completing \in 0 .. lng[current]
    BY <1>1, <1>5 DEF ReleaseInv
  <2>2. PICK c \in Epochs, n \in Nat : c = current /\ n = completing /\ n =< lng[c]
    BY <1>1, <2>1
  <2>3. lastReleased' = Lsn(c, n) /\ lastReleased.epoch < c
    BY <1>5, <2>2
  <2>4. /\ lastReleased'.epoch = c /\ lastReleased'.esn = n
        /\ lastReleased' \in [epoch : 0 .. MaxEpoch, esn : Nat]
    BY <1>1, <2>3 DEF Lsn
  <2>5. n =< lng'[c]
    BY <1>1, <2>2
  <2>6. QED
    BY <1>2, <2>3, <2>4, <2>5 DEF ReleaseInv, AtMost
<1>6. QED
  BY <1>3, <1>4, <1>5 DEF ReleaseMoves

-----------------------------------------------------------------------------
(* The theorems.                                                           *)

LEMMA InvInit == Init => Inv
<1> SUFFICES ASSUME Init PROVE Inv
  OBVIOUS
<1> USE DEF Init
<1>1. MaxEpoch \in Nat /\ MaxEsn \in Nat
  BY MaxEpochBounds, MaxEsnBounds
<1>2. Activated = {}
  BY DEF Activated
<1>3. TypeInv
  BY <1>1 DEF TypeInv, LsnMax
<1>4. ThreadTypes
  BY RestsMembers DEF ThreadTypes, Labels
<1>5. EpochInv /\ RecoveryInv
  BY <1>2, BoundsAssumption DEF EpochInv, RecoveryInv
<1>6. \A e \in Epochs : \A a \in Actors : pc[e][a] = "idle"
  OBVIOUS
<1>7. \A e \in Epochs, n \in Transitions : pc[e][n] = "idle" /\ rest[e][n] = << >>
  BY DEF Actors, Transitions
<1>8. FreshInv
  BY <1>7, RestsDistinct DEF FreshInv
<1>9. LngInv
  BY <1>6 DEF LngInv, LngAt, Actors
<1>10. ReleaseInv
  BY <1>1 DEF ReleaseInv, Lsn, None
<1>11. TargetInv /\ MutexInv /\ AfterTargetInv
  <2>1. TargetInv
    BY <1>1, <1>6, <1>7 DEF TargetInv
  <2>2. MutexInv
    BY <1>7 DEF MutexInv
  <2>3. AfterTargetInv
    BY DEF AfterTargetInv
  <2>4. QED
    BY <2>1, <2>2, <2>3
<1>12. CallInv
  BY <1>7 DEF CallInv, Due, Promises, Busy
<1>13. OrderInv
  BY <1>2 DEF OrderInv
<1>14. QED
  BY <1>3, <1>4, <1>5, <1>8, <1>9, <1>10, <1>11, <1>12, <1>13 DEF Inv

LEMMA StepFacts ==
    ASSUME Inv, Next
    PROVE  Inv' /\ AtMost(lastReleased, lastReleased') /\ ReleaseMoves
<1>1. ProgressInv /\ ThreadTypes /\ EpochInv /\ RecoveryInv /\ CallInv /\ ReleaseInv
  BY DEF Inv, ProgressInv
<1>2. Step /\ bound' = bound
  BY DEF Next, Within
<1>3. ProgressInv' /\ CallInv' /\ ThreadTypes'
  BY <1>1, <1>2, ProgressStep
<1>4. \/ Parent /\ Activated' = Activated
      \/ \E e \in Epochs : Activates(e) /\ Activated' = Activated \cup {e}
  BY <1>1, <1>2, ActivatedSteps DEF ReplyStep
<1>5. EpochInv' /\ RecoveryInv'
  BY <1>1, <1>2, <1>4, EpochStepKeeps
<1>6. OrderedReplies => OrderInv'
  BY <1>1, <1>4, OrderStepKeeps DEF Inv
<1>7. ReleaseMoves
  BY <1>2, ReleaseSteps
<1>8. \A e \in Epochs : lng[e] =< lng'[e]
  BY <1>1, <1>2, LngGrows
<1>9. ReleaseInv' /\ AtMost(lastReleased, lastReleased')
  BY <1>1, <1>3, <1>4, <1>7, <1>8, ReleaseStepKeeps
<1>10. QED
  BY <1>3, <1>5, <1>6, <1>7, <1>9 DEF Inv, ProgressInv

LEMMA InvStutter ==
    ASSUME Inv, UNCHANGED vars
    PROVE  Inv'
<1> USE DEF vars, parentVars, epochVars, threadVars, activationVars,
            recoveryVars
<1>1. TypeInv' /\ ThreadTypes'
  BY DEF Inv, TypeInv, ThreadTypes
<1>2. EpochInv' /\ RecoveryInv'
  BY DEF Inv, EpochInv, RecoveryInv, Activated
<1>3. FreshInv' /\ LngInv' /\ ReleaseInv'
  BY DEF Inv, FreshInv, LngInv, LngAt, ReleaseInv
<1>4. TargetInv' /\ MutexInv' /\ AfterTargetInv'
  BY DEF Inv, TargetInv, MutexInv, AfterTargetInv
<1>5. CallInv' /\ (OrderedReplies => OrderInv')
  BY DEF Inv, CallInv, Due, Promises, Busy, OrderInv, Activated
<1>6. QED
  BY <1>1, <1>2, <1>3, <1>4, <1>5 DEF Inv

LEMMA InvHolds == Spec => []Inv
<1>1. Inv /\ [Next]_vars => Inv'
  BY StepFacts, InvStutter
<1>2. QED
  BY <1>1, InvInit, PTL DEF Spec

\* A record is only released when it and all records before it in its epoch are
\* fully replicated, whoever moved last_released_.
THEOREM ReleasesAreReplicated == Spec => []ReleasedReplicated
<1>1. Inv => ReleasedReplicated
  <2> SUFFICES ASSUME Inv, lastReleased.epoch # 0
               PROVE  1 .. lastReleased.esn \subseteq replicated[lastReleased.epoch]
    BY DEF ReleasedReplicated
  <2>1. PICK e \in Epochs, n \in Nat :
            e = lastReleased.epoch /\ n = lastReleased.esn /\ n =< lng[e]
    BY MaxEpochBounds DEF Inv, ReleaseInv, Epochs
  <2>2. 1 .. lng[e] \subseteq replicated[e] /\ lng[e] \in Nat
    BY DEF Inv, LngInv, LngAt, TypeInv
  <2>3. QED
    BY <2>1, <2>2
<1>2. QED
  BY <1>1, InvHolds, PTL

\* last_released_ never goes back.
THEOREM ReleasesOnlyAdvance == Spec => ReleasedMonotone
<1>1. Inv /\ [Next]_vars => [AtMost(lastReleased, lastReleased')]_vars
  BY StepFacts
<1>2. QED
  BY <1>1, InvHolds, PTL DEF Spec, ReleasedMonotone


\* An epoch that is QUIESCENT takes no more Appenders, and has reaped all those
\* it took.
THEOREM QuiescentIsDone == Spec => []QuiescentMeansDone
<1>1. Inv => QuiescentMeansDone
  BY DEF Inv, TargetInv, QuiescentMeansDone
<1>2. QED
  BY <1>1, InvHolds, PTL

\* The state of an epoch sequencer only moves forward, and not from ACTIVE to
\* QUIESCENT.
StateForward ==
    \A e \in Epochs :
        /\ Rank(epochState[e]) =< Rank(epochState'[e])
        /\ epochState'[e] = "QUIESCENT" => epochState[e] # "ACTIVE"

LEMMA StateSteps ==
    ASSUME Inv, Step
    PROVE  StateForward
<1>1. ProgressInv /\ ThreadTypes /\ EpochInv /\ CallInv /\ FreshInv
  BY DEF Inv, ProgressInv
<1> USE <1>1 DEF ProgressInv
<1>2. /\ Rank("NONE") = 1 /\ Rank("ACTIVE") = 2 /\ Rank("DRAINING") = 3
      /\ Rank("DYING") = 4 /\ Rank("QUIESCENT") = 5
  BY RankValues
<1>3. \A e \in Epochs :
            /\ epochState[e] \in {"NONE", "ACTIVE", "DRAINING", "DYING", "QUIESCENT"}
            /\ Rank(epochState[e]) \in 1 .. 5
  BY <1>2 DEF TypeInv
<1>4. ASSUME epochState' = epochState PROVE StateForward
  <2>1. \A e \in Epochs : epochState'[e] = epochState[e]
    BY <1>4
  <2>2. QED
    BY <1>3, <2>1 DEF StateForward
<1>5. ASSUME NEW e \in Epochs, NEW s,
             epochState' = [epochState EXCEPT ![e] = s],
             Rank(epochState[e]) =< Rank(s),
             s = "QUIESCENT" => epochState[e] # "ACTIVE"
      PROVE  StateForward
  <2>1. epochState'[e] = s /\ \A f \in Epochs : f # e => epochState'[f] = epochState[f]
    BY <1>5 DEF TypeInv
  <2>2. QED
    BY <1>3, <1>5, <2>1 DEF StateForward
<1>6. ASSUME NEW e \in Epochs, ReplyStep(e) PROVE StateForward
  <2>1. epochState[e] = "NONE" /\ epochState' = [epochState EXCEPT ![e] = "ACTIVE"]
    BY <1>6, EpochValues DEF ReplyStep, Activates
  <2>2. Rank(epochState[e]) =< Rank("ACTIVE")
    BY <1>2, <2>1
  <2>3. QED
    BY <1>5, <2>1, <2>2
<1>7. ASSUME NEW e \in Epochs, NEW n \in Transitions, TransitionStep(e, n)
      PROVE  StateForward
  <2>1. CASE SetState(e, n)
    <3>1. pc[e][n] = "targeted" /\ epochState' = [epochState EXCEPT ![e] = n]
      BY <2>1 DEF SetState
    <3>2. Rank(epochState[e]) < Rank(n) /\ Rank(n) \in Int /\ n # "QUIESCENT"
      BY <1>2, <3>1 DEF MutexInv, Transitions
    <3>3. Rank(epochState[e]) =< Rank(n)
      BY <1>3, <3>2
    <3>4. QED
      BY <1>5, <3>1, <3>2, <3>3
  <2>2. QED
    BY <1>4, <1>7, <2>1 DEF TransitionStep, TransitionTo, SetTarget
<1>8. ASSUME NEW e \in Epochs, NEW a \in Actors, QuiescentStep(e, a)
      PROVE  StateForward
  <2>1. CASE OnEpochQuiescent(e, a)
    <3>1. /\ pc[e][a] = "quiescent" /\ EpochMutexFree(e)
          /\ epochState' = [epochState EXCEPT ![e] = "QUIESCENT"]
      BY <2>1 DEF OnEpochQuiescent, QuiescentLock
    <3>2. target[e] # LsnMax
      BY <3>1 DEF TargetInv
    <3>3. ~(Rank(epochState[e]) < Rank("DRAINING"))
      BY <3>1, <3>2 DEF AfterTargetInv, EpochMutexFree
    <3>4. epochState[e] # "ACTIVE"
      BY <1>2, <3>3
    <3>5. Rank(epochState[e]) =< Rank("QUIESCENT")
      BY <1>2, <1>3
    <3>6. QED
      BY <1>5, <3>1, <3>4, <3>5
  <2>2. QED
    BY <1>4, <1>8, <2>1 DEF QuiescentStep, CheckQuiescent,
                            NoteDrainingCompleted, epochVars
<1>9. ASSUME NEW e \in Epochs, ReaperStep(e) PROVE StateForward
  BY <1>4, <1>9 DEF ReaperStep, ReapLng, ReapStore, Release,
                    AdvanceLastReleased, epochVars
<1>10. CASE Calm \/ AppenderStep
  BY <1>4, <1>10 DEF Calm, progressVars, AppenderStep, RunAppender,
                     RetireReplicated, RetireAborted
<1>11. QED
  BY <1>6, <1>7, <1>8, <1>9, <1>10, StepKinds DEF Kinds, LabelStep

\* An epoch sequencer only moves forward, and becomes QUIESCENT only after the
\* transition to DRAINING or DYING is complete: the ld_check in
\* onEpochQuiescent() holds, although the reaper may find the target reached
\* before the new state is stored.
THEOREM StatesAdvance == Spec => EpochStateAdvances
<1>1. Inv /\ [Next]_vars => [StateForward]_vars
  BY StateSteps DEF Next, Within
<1>2. EpochStateAdvances <=> [][StateForward]_vars
  BY DEF EpochStateAdvances, StateForward
<1>3. QED
  BY <1>1, <1>2, InvHolds, PTL DEF Spec

\* last_released_ enters an epoch only when a log recovery that has run up to
\* this epoch ends, provided that the replies of the epoch store are handled in
\* the order in which it gave out the epochs.
THEOREM ReleasesEnterRecovered ==
    ASSUME OrderedReplies
    PROVE  Spec => ReleaseEntersRecovered
<1> DEFINE Enters == lastReleased'.epoch # lastReleased.epoch =>
                        running = lastReleased'.epoch
<1>1. Inv /\ [Next]_vars => [Enters]_vars
  <2> SUFFICES ASSUME Inv, Next PROVE Enters
    OBVIOUS
  <2>1. ReleaseMoves
    BY StepFacts
  <2>2. CASE lastReleased' = lastReleased
    BY <2>2
  <2>3. ASSUME NEW e \in Epochs, lastReleased.epoch = e,
               lastReleased' = Lsn(e, lastReaped[e])
        PROVE  Enters
    BY <2>3 DEF Lsn
  <2>4. CASE completing # None /\ lastReleased' = Lsn(current, completing)
    <3>1. lastReleased'.epoch = current
      BY <2>4 DEF Lsn
    <3>2. current # 0 /\ current \in Epochs
      BY <2>4, EpochValues DEF Inv, ReleaseInv
    <3>3. current =< running /\ \A e \in Activated : e =< current
      BY <2>4, <3>2 DEF Inv, OrderInv
    <3>4. running \in Activated \cup {0} /\ Activated \subseteq Epochs
      BY DEF Inv, RecoveryInv, Activated
    <3>5. running = current
      BY <3>2, <3>3, <3>4, MaxEpochBounds DEF Epochs
    <3>6. QED
      BY <3>1, <3>5
  <2>5. QED
    BY <2>1, <2>2, <2>3, <2>4 DEF ReleaseMoves
<1>2. ReleaseEntersRecovered <=> [][Enters]_vars
  BY DEF ReleaseEntersRecovered
<1>3. QED
  BY <1>1, <1>2, InvHolds, PTL DEF Spec
=============================================================================
