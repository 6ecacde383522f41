------------------------------ MODULE Sequencer ------------------------------
(***************************************************************************)
(* The sequencer of one log on one node (common/Sequencer.cpp) and its     *)
(* epoch sequencers (common/EpochSequencer.cpp): activation through the    *)
(* epoch store, draining and destruction of old epochs, reaping and        *)
(* release of records, preemption by other nodes, and the log recovery     *)
(* that lets the last released LSN enter a new epoch.                      *)
(*                                                                         *)
(* A step is one atomic operation or one section under a mutex.  The       *)
(* window of an epoch is the one of OrderedWindow: SlidingWindow shows     *)
(* that elements are reaped in order and by one thread at a time.          *)
(***************************************************************************)
EXTENDS Integers, Sequences, FiniteSets, FiniteSetsExt, Functions

CONSTANTS
    Bounds,         \* what a behaviour may use up, one of:
                    \*   epochs    the epochs the epoch store gives out
                    \*   esns      the number of ESNs issued in each epoch
                    \*   inFlight  the activations of this node in flight
                    \*   foreign   the epochs that other nodes get
                    \*   stops     how often the sequencer becomes unavailable
    OrderedReplies  \* whether replies of the epoch store are handled in the
                    \* order in which it gave out the epochs

ASSUME BoundsAssumption ==
    /\ IsFiniteSet(Bounds) /\ Bounds # {}
    /\ \A b \in Bounds :
        /\ b.epochs \in Nat \ {0}
        /\ b.esns \in [1 .. b.epochs -> Nat]
        /\ {b.inFlight, b.foreign, b.stops} \subseteq Nat
ASSUME OrderedRepliesAssumption == OrderedReplies \in BOOLEAN

MaxEpoch == Max({b.epochs : b \in Bounds})
Epochs == 1 .. MaxEpoch
MaxEsn == Max({0} \cup UNION {Range(b.esns) : b \in Bounds})
Esns == 1 .. MaxEsn

VARIABLES
    bound,          \* the bounds of this behaviour
    \* Sequencer
    state,          \* state_
    current,        \* epoch of epoch_seqs_->current, 0 if there is none
    draining,       \* epoch of epoch_seqs_->draining, 0 if there is none
    preempted,      \* preempted_epoch_
    preempting,     \* epochs for which notePreempted() waits for the mutex
    lastReleased,   \* last_released_
    stops,          \* number of calls of setUnavailable()
    \* EpochSequencer, by epoch
    epochState,     \* state_
    open,           \* whether window_ is not disabled
    issued,         \* the last ESN of window_
    replicated,     \* ESNs whose Appender retired fully replicated
    aborted,        \* ESNs whose Appender retired otherwise
    lng,            \* lng_
    lastReaped,     \* last_reaped_
    target,         \* draining_target_, LsnMax until it is set
    aborting,       \* the epochs abortAppenders() was called for
    lngChanged,     \* lng_changed_out of the thread that reaps
    \* threads inside an epoch sequencer: the reaper, and the ones in
    \* transitionTo(DRAINING) and in transitionTo(DYING)
    pc,
    rest,           \* what the caller of transitionTo() does next
    timers,         \* the epochs with a draining timer
    \* activation
    pending,        \* the requests to the epoch store without an answer, by
                    \* acceptable_activation_epoch; AnyEpoch if there is none
    storeEpoch,     \* the last epoch the epoch store gave out
    foreign,        \* the epochs it gave to other nodes
    replies,        \* epochs on their way to completeActivationWithMetaData()
    failing,        \* number of threads about to call onActivationFailed()
    seals,          \* epochs that the recovery of some node has sealed
    \* recovery
    recoverCalls,   \* number of threads about to call startRecovery()
    requests,       \* epochs with a LogRecoveryRequest to be executed
    queued,         \* whether the log is in the worker's recovery queue
    running,        \* next_epoch_ of the running LogRecoveryRequest, 0 if none
    completing      \* lng read by onRecoveryCompleted(), or None

parentVars == <<state, current, draining, preempted, preempting, lastReleased,
                stops>>
epochVars == <<epochState, open, issued, replicated, aborted, lng, lastReaped,
               target, aborting, lngChanged>>
threadVars == <<pc, rest, timers>>
activationVars == <<pending, storeEpoch, foreign, replies, failing, seals>>
recoveryVars == <<recoverCalls, requests, queued, running, completing>>
vars == <<bound, parentVars, epochVars, threadVars, activationVars,
          recoveryVars>>

States == {"UNAVAILABLE", "ACTIVATING", "ACTIVE", "PREEMPTED",
           "PERMANENT_ERROR"}

\* EpochSequencer::State, in order; "NONE" before the object is created.
EpochStates == <<"NONE", "ACTIVE", "DRAINING", "DYING", "QUIESCENT">>
Rank(s) == CHOOSE i \in DOMAIN EpochStates : EpochStates[i] = s

LsnMax == MaxEsn + 1
None == -1
AnyEpoch == 0

Actors == {"reaper", "DRAINING", "DYING"}
Transitions == {"DRAINING", "DYING"}

Call(op, epoch) == [op |-> op, epoch |-> epoch]
Recover == Call("recover", 0)

Lsn(epoch, esn) == [epoch |-> epoch, esn |-> esn]
AtMost(a, b) == a.epoch < b.epoch \/ (a.epoch = b.epoch /\ a.esn =< b.esn)

Init ==
    /\ bound \in Bounds
    /\ state = "UNAVAILABLE"
    /\ current = 0
    /\ draining = 0
    /\ preempted = 0
    /\ preempting = {}
    /\ lastReleased = Lsn(0, 0)
    /\ stops = 0
    /\ epochState = [e \in Epochs |-> "NONE"]
    /\ open = [e \in Epochs |-> FALSE]
    /\ issued = [e \in Epochs |-> 0]
    /\ replicated = [e \in Epochs |-> {}]
    /\ aborted = [e \in Epochs |-> {}]
    /\ lng = [e \in Epochs |-> 0]
    /\ lastReaped = [e \in Epochs |-> 0]
    /\ target = [e \in Epochs |-> LsnMax]
    /\ aborting = {}
    /\ lngChanged = [e \in Epochs |-> FALSE]
    /\ pc = [e \in Epochs |-> [a \in Actors |-> "idle"]]
    /\ rest = [e \in Epochs |-> [a \in Transitions |-> << >>]]
    /\ timers = {}
    /\ pending = [a \in 0 .. MaxEpoch |-> 0]
    /\ storeEpoch = 0
    /\ foreign = {}
    /\ replies = {}
    /\ failing = 0
    /\ seals = {}
    /\ recoverCalls = 0
    /\ requests = {}
    /\ queued = FALSE
    /\ running = 0
    /\ completing = None

-----------------------------------------------------------------------------
\* onRecoveryCompleted() holds Sequencer::state_mutex_ for more than one step,
\* and transitionTo() holds EpochSequencer::state_mutex_.
StateMutexFree == completing = None

EpochMutexFree(e) ==
    \A n \in Transitions : pc[e][n] \notin {"disabled", "targeted"}

\* A thread goes on with the calls cs; p is pc without the new call.
Proceed(cs, p) ==
    IF cs = << >>
    THEN pc' = p /\ UNCHANGED <<rest, recoverCalls>>
    ELSE IF Head(cs) = Recover
         THEN /\ pc' = p
              /\ recoverCalls' = recoverCalls + 1
              /\ UNCHANGED rest
         ELSE LET c == Head(cs)
              IN  /\ pc' = [p EXCEPT ![c.epoch][c.op] = "called"]
                  /\ rest' = [rest EXCEPT ![c.epoch][c.op] = Tail(cs)]
                  /\ UNCHANGED recoverCalls

CallIf(epoch, op) == IF epoch = 0 THEN << >> ELSE <<Call(op, epoch)>>

Goto(e, a, label) == pc' = [pc EXCEPT ![e][a] = label]

-----------------------------------------------------------------------------
(* Activation.                                                             *)

\* Sequencer::startActivation; a request goes to the epoch store.  The one of a
\* reconfiguration accepts the epoch after the current one only.
StartActivation(acceptable) ==
    /\ StateMutexFree
    /\ state \in {"UNAVAILABLE", "ACTIVE", "PREEMPTED"}
    /\ acceptable # AnyEpoch => current # 0 /\ acceptable = current + 1
    /\ storeEpoch < bound.epochs
    /\ SumFunction(pending) + Cardinality(replies) + failing < bound.inFlight
    /\ state' = "ACTIVATING"
    /\ pending' = [pending EXCEPT ![acceptable] = @ + 1]
    /\ UNCHANGED <<current, draining, preempted, preempting, lastReleased,
                   stops, epochVars, threadVars, storeEpoch, foreign, replies,
                   failing, seals, recoveryVars>>

Answered(acceptable) ==
    /\ pending[acceptable] > 0
    /\ pending' = [pending EXCEPT ![acceptable] = @ - 1]

\* The epoch store increments the epoch for a request of this node,
EpochStoreReply(acceptable) ==
    /\ Answered(acceptable)
    /\ storeEpoch < bound.epochs
    /\ acceptable \in {AnyEpoch, storeEpoch + 1}
    /\ storeEpoch' = storeEpoch + 1
    /\ replies' = replies \cup {storeEpoch'}
    /\ UNCHANGED <<parentVars, epochVars, threadVars, foreign, failing, seals,
                   recoveryVars>>

\* or cannot,
EpochStoreError(acceptable) ==
    /\ Answered(acceptable)
    /\ failing' = failing + 1
    /\ UNCHANGED <<parentVars, epochVars, threadVars, storeEpoch, foreign,
                   replies, seals, recoveryVars>>

\* or gives an epoch to another node.
OtherNodeActivates ==
    /\ storeEpoch \in 1 .. bound.epochs - 1
    /\ Cardinality(foreign) < bound.foreign
    /\ storeEpoch' = storeEpoch + 1
    /\ foreign' = foreign \cup {storeEpoch'}
    /\ UNCHANGED <<parentVars, epochVars, threadVars, pending, replies,
                   failing, seals, recoveryVars>>

\* The recovery of another node seals the epochs below its own.
OtherNodeSeals(e) ==
    /\ e \in foreign
    /\ seals' = seals \cup {e - 1}
    /\ UNCHANGED <<parentVars, epochVars, threadVars, pending, storeEpoch,
                   foreign, replies, failing, recoveryVars>>

\* notePreempted(), up to the mutex.
NoteSeal(p) ==
    /\ preempted' = IF p > preempted THEN p ELSE preempted
    /\ preempting' = preempting
                        \cup IF p >= preempted /\ p >= current THEN {p} ELSE {}

\* E::ABORTED, the next epoch of the epoch store is not the acceptable one: the
\* sequencer is preempted, up to that next epoch, if another node was the last
\* to write to the epoch store.
EpochStoreAborted(acceptable) ==
    /\ Answered(acceptable)
    /\ acceptable \notin {AnyEpoch, storeEpoch + 1}
    /\ \/ storeEpoch \in foreign /\ NoteSeal(storeEpoch + 1)
       \/ storeEpoch \notin foreign /\ UNCHANGED <<preempted, preempting>>
    /\ failing' = failing + 1
    /\ UNCHANGED <<state, current, draining, lastReleased, stops, epochVars,
                   threadVars, storeEpoch, foreign, replies, seals,
                   recoveryVars>>

\* The mutex section of completeActivationWithMetaData, and the calls after it:
\* the previous epoch is drained, the one before that is destroyed.  Without a
\* previous epoch, finalizeActivation starts recovery.
CompleteActivation(e) ==
    /\ StateMutexFree
    /\ e \in replies
    /\ OrderedReplies => \A d \in replies : e =< d
    /\ replies' = replies \ {e}
    /\ \/ /\ state # "ACTIVATING" \/ current >= e
          /\ failing' = failing + 1
          /\ UNCHANGED <<parentVars, epochVars, threadVars, recoverCalls>>
       \/ /\ state = "ACTIVATING"
          /\ current < e
          /\ state' = "ACTIVE"
          /\ current' = e
          /\ draining' = current
          /\ epochState' = [epochState EXCEPT ![e] = "ACTIVE"]
          /\ open' = [open EXCEPT ![e] = TRUE]
          /\ Proceed(CallIf(current, "DRAINING") \o CallIf(draining, "DYING")
                        \o IF current = 0 THEN <<Recover>> ELSE << >>, pc)
          /\ UNCHANGED <<preempted, preempting, lastReleased, issued, stops,
                         replicated, aborted, lng, lastReaped, target,
                         aborting, lngChanged, timers, failing>>
    /\ UNCHANGED <<pending, storeEpoch, foreign, seals, requests, queued,
                   running, completing>>

\* Sequencer::isPreempted
IsPreempted == preempted # 0 /\ current =< preempted

\* Bug: a preempted sequencer is left as it is.
FailedUnlessPreempted ==
    IF IsPreempted THEN state
    ELSE IF current = 0 THEN "UNAVAILABLE"
    ELSE "ACTIVE"

\* The state after a failed activation.
FailedState ==
    IF IsPreempted THEN "PREEMPTED"
    ELSE IF current = 0 THEN "UNAVAILABLE"
    ELSE "ACTIVE"

OnActivationFailed ==
    /\ StateMutexFree
    /\ failing > 0
    /\ failing' = failing - 1
    /\ state' = IF state = "ACTIVATING" THEN FailedState ELSE state
    /\ UNCHANGED <<current, draining, preempted, preempting, lastReleased,
                   stops, epochVars, threadVars, pending, storeEpoch, foreign,
                   replies, seals, recoveryVars>>

\* setUnavailable(); the current epoch is drained if the node is healthy.
SetUnavailable(drain) ==
    /\ StateMutexFree
    /\ state \notin {"UNAVAILABLE", "PERMANENT_ERROR"}
    /\ stops < bound.stops
    /\ stops' = stops + 1
    /\ state' = "UNAVAILABLE"
    /\ current' = 0
    /\ draining' = IF drain THEN current ELSE 0
    /\ Proceed(CallIf(draining, "DYING")
                \o CallIf(current, IF drain THEN "DRAINING" ELSE "DYING"), pc)
    /\ UNCHANGED <<preempted, preempting, lastReleased, epochVars, timers,
                   activationVars, requests, queued, running, completing>>

\* The epoch store answers with a permanent error.
OnPermanentError(acceptable) ==
    /\ StateMutexFree
    /\ Answered(acceptable)
    /\ state' = "PERMANENT_ERROR"
    /\ current' = 0
    /\ draining' = 0
    /\ Proceed(CallIf(draining, "DYING") \o CallIf(current, "DYING"), pc)
    /\ UNCHANGED <<preempted, preempting, lastReleased, stops, epochVars,
                   timers, storeEpoch, foreign, replies, failing, seals,
                   requests, queued, running, completing>>

-----------------------------------------------------------------------------
(* Preemption.                                                             *)

\* An Appender of this node meets a seal.
NotePreempted(p) ==
    /\ p \in seals
    /\ p >= preempted
    /\ NoteSeal(p)
    /\ UNCHANGED <<state, current, draining, lastReleased, stops, epochVars,
                   threadVars, activationVars, recoveryVars>>

\* The second check, under the mutex.
EnterPreempted(p) ==
    /\ StateMutexFree
    /\ p \in preempting
    /\ preempting' = preempting \ {p}
    /\ state' = IF p >= current /\ state = "ACTIVE" THEN "PREEMPTED" ELSE state
    /\ UNCHANGED <<current, draining, preempted, lastReleased, stops,
                   epochVars, threadVars, activationVars, recoveryVars>>

-----------------------------------------------------------------------------
(* Appenders.                                                              *)

\* EpochSequencer::runAppender: the window is disabled before the state
\* changes, so that it alone decides.
RunAppender(e) ==
    /\ open[e]
    /\ issued[e] < bound.esns[e]
    /\ issued' = [issued EXCEPT ![e] = @ + 1]
    /\ UNCHANGED <<parentVars, epochState, open, replicated, aborted, lng,
                   lastReaped, target, aborting, lngChanged, threadVars,
                   activationVars, recoveryVars>>

Running(e) == (1 .. issued[e]) \ (replicated[e] \cup aborted[e])

RetireReplicated(e, n) ==
    /\ n \in Running(e)
    /\ replicated' = [replicated EXCEPT ![e] = @ \cup {n}]
    /\ UNCHANGED <<parentVars, epochState, open, issued, aborted, lng,
                   lastReaped, target, aborting, lngChanged, threadVars,
                   activationVars, recoveryVars>>

\* The Appender was aborted or its epoch preempted.
RetireAborted(e, n) ==
    /\ n \in Running(e)
    /\ e \in aborting \/ e =< preempted
    /\ aborted' = [aborted EXCEPT ![e] = @ \cup {n}]
    /\ UNCHANGED <<parentVars, epochState, open, issued, replicated, lng,
                   lastReaped, target, aborting, lngChanged, threadVars,
                   activationVars, recoveryVars>>

-----------------------------------------------------------------------------
(* Reaping: noteAppenderReaped() of EpochSequencer and of Sequencer.       *)

\* Bug: the LNG jumps over Appenders that were aborted earlier.
AdvancesLngOverGap(e, n) == n \in replicated[e]

AdvancesLng(e, n) == n \in replicated[e] /\ lng[e] = n - 1

\* Step 1: the last known good.
ReapLng(e) ==
    LET n == lastReaped[e] + 1
    IN  /\ pc[e]["reaper"] = "idle"
        /\ n \in replicated[e] \cup aborted[e]
        /\ lngChanged' = [lngChanged EXCEPT ![e] = AdvancesLng(e, n)]
        /\ lng' = [lng EXCEPT ![e] = IF AdvancesLng(e, n) THEN n ELSE @]
        /\ Goto(e, "reaper", "reap")
        /\ UNCHANGED <<parentVars, epochState, open, issued, replicated,
                       aborted, lastReaped, target, aborting, rest, timers,
                       activationVars, recoveryVars>>

\* Step 2: last_reaped_.
ReapStore(e) ==
    /\ pc[e]["reaper"] = "reap"
    /\ lastReaped' = [lastReaped EXCEPT ![e] = @ + 1]
    /\ Goto(e, "reaper", "check")
    /\ UNCHANGED <<parentVars, epochState, open, issued, replicated, aborted,
                   lng, target, aborting, lngChanged, rest, timers,
                   activationVars, recoveryVars>>

MayRelease(e) == lngChanged[e] /\ e > preempted

\* Step 3: Sequencer::noteAppenderReaped, first its check for preemption.
Release(e) ==
    /\ pc[e]["reaper"] = "release"
    /\ Goto(e, "reaper", IF MayRelease(e) THEN "advance" ELSE "idle")
    /\ UNCHANGED <<parentVars, epochVars, rest, timers, activationVars,
                   recoveryVars>>

\* Bug: the epoch of last_released_ is not checked.
MayAdvanceAny(e) == e \in Epochs

MayAdvance(e) == lastReleased.epoch = e

\* The compare-and-swap loop on last_released_.
AdvanceLastReleased(e) ==
    /\ pc[e]["reaper"] = "advance"
    /\ lastReleased' = IF MayAdvance(e) THEN Lsn(e, lastReaped[e])
                       ELSE lastReleased
    /\ Goto(e, "reaper", "idle")
    /\ UNCHANGED <<state, current, draining, preempted, preempting, stops,
                   epochVars, rest, timers, activationVars, recoveryVars>>

-----------------------------------------------------------------------------
(* EpochSequencer::transitionTo(n), n is DRAINING or DYING.                *)

AfterQuiescent(a) == IF a = "reaper" THEN "release" ELSE "return"

\* The mutex is taken and the window disabled, unless there is nothing to do.
TransitionTo(e, n) ==
    /\ pc[e][n] = "called"
    /\ \/ /\ Rank(epochState[e]) >= Rank(n)
          /\ Goto(e, n, "return")
          /\ UNCHANGED open
       \/ /\ Rank(epochState[e]) < Rank(n)
          /\ EpochMutexFree(e)
          /\ Goto(e, n, IF epochState[e] = "ACTIVE" THEN "disabled"
                                                    ELSE "targeted")
          /\ open' = [open EXCEPT ![e] = FALSE]
    /\ UNCHANGED <<parentVars, epochState, issued, replicated, aborted, lng,
                   lastReaped, target, aborting, lngChanged, rest, timers,
                   activationVars, recoveryVars>>

\* Bug: Appenders that still run are not waited for.
TargetLastReaped(e) == lastReaped[e]

\* The value of window_.disable(), less one.
DrainingTarget(e) == issued[e]

SetTarget(e, n) ==
    /\ pc[e][n] = "disabled"
    /\ target' = [target EXCEPT ![e] = DrainingTarget(e)]
    /\ Goto(e, n, "targeted")
    /\ UNCHANGED <<parentVars, epochState, open, issued, replicated, aborted,
                   lng, lastReaped, aborting, lngChanged, rest, timers,
                   activationVars, recoveryVars>>

\* Bug: the epoch may have become quiescent before its target was set.
SetStateAndReturn(e, n) ==
    /\ pc[e][n] = "targeted"
    /\ epochState' = [epochState EXCEPT ![e] = n]
    /\ Goto(e, n, "return")
    /\ UNCHANGED <<parentVars, open, issued, replicated, aborted, lng,
                   lastReaped, target, aborting, lngChanged, rest, timers,
                   activationVars, recoveryVars>>

\* The state is stored last, and the mutex released.
SetState(e, n) ==
    /\ pc[e][n] = "targeted"
    /\ epochState' = [epochState EXCEPT ![e] = n]
    /\ Goto(e, n, "check")
    /\ UNCHANGED <<parentVars, open, issued, replicated, aborted, lng,
                   lastReaped, target, aborting, lngChanged, rest, timers,
                   activationVars, recoveryVars>>

\* epochQuiescent(), by the thread of the transition or by the reaper.
CheckQuiescent(e, a) ==
    /\ pc[e][a] = "check"
    /\ \/ /\ lastReaped[e] = target[e]
          /\ Goto(e, a, "quiescent")
          /\ UNCHANGED aborting
       \/ /\ lastReaped[e] # target[e]
          /\ Goto(e, a, AfterQuiescent(a))
          /\ aborting' = aborting \cup IF a = "DYING" THEN {e} ELSE {}
    /\ UNCHANGED <<parentVars, epochState, open, issued, replicated, aborted,
                   lng, lastReaped, target, lngChanged, rest, timers,
                   activationVars, recoveryVars>>

\* Bug: onEpochQuiescent() does not take the mutex.
NoQuiescentLock(e) == e \in Epochs

\* onEpochQuiescent(): the first thread to get here after DRAINING reports it.
QuiescentLock(e) == EpochMutexFree(e)

OnEpochQuiescent(e, a) ==
    /\ pc[e][a] = "quiescent"
    /\ QuiescentLock(e)
    /\ epochState' = [epochState EXCEPT ![e] = "QUIESCENT"]
    /\ Goto(e, a, IF epochState[e] = "DRAINING" THEN "notify"
                                               ELSE AfterQuiescent(a))
    /\ UNCHANGED <<parentVars, open, issued, replicated, aborted, lng,
                   lastReaped, target, aborting, lngChanged, rest, timers,
                   activationVars, recoveryVars>>

\* Sequencer::noteDrainingCompleted for an epoch that is QUIESCENT, whether or
\* not all its Appenders were replicated: the epoch is evicted (its destruction
\* is a no-op), and recovery is started if it was still the draining one.
NoteDrainingCompleted(e, a) ==
    /\ pc[e][a] = "notify"
    /\ StateMutexFree
    /\ draining' = IF draining = e THEN 0 ELSE draining
    /\ recoverCalls' = recoverCalls + IF draining = e THEN 1 ELSE 0
    /\ Goto(e, a, AfterQuiescent(a))
    /\ UNCHANGED <<state, current, preempted, preempting, lastReleased, stops,
                   epochVars, rest, timers, activationVars, requests, queued,
                   running, completing>>

\* startDraining() returns to Sequencer, which starts a timer unless draining
\* is over already; then the thread goes on.
ReturnFromTransition(e, n) ==
    /\ pc[e][n] = "return"
    /\ timers' = timers \cup IF n = "DRAINING" /\ epochState[e] # "QUIESCENT"
                             THEN {e} ELSE {}
    /\ Proceed(rest[e][n], [pc EXCEPT ![e][n] = "done"])
    /\ UNCHANGED <<parentVars, epochVars, activationVars, requests, queued,
                   running, completing>>

\* onDrainingTimerExpired: noteDrainingCompleted(e, TIMEDOUT) destroys the
\* epoch if it is still draining, and then starts recovery.
OnDrainingTimerExpired(e) ==
    /\ e \in timers
    /\ StateMutexFree
    /\ timers' = timers \ {e}
    /\ \/ /\ draining = e /\ state # "PERMANENT_ERROR"
          /\ draining' = 0
          /\ Proceed(<<Call("DYING", e), Recover>>, pc)
       \/ /\ draining # e \/ state = "PERMANENT_ERROR"
          /\ UNCHANGED <<draining, pc, rest, recoverCalls>>
    /\ UNCHANGED <<state, current, preempted, preempting, lastReleased, stops,
                   epochVars, activationVars, requests, queued, running,
                   completing>>

-----------------------------------------------------------------------------
(* Log recovery.                                                           *)

\* Sequencer::startRecovery posts a LogRecoveryRequest for the epoch that is
\* current by now.  There is nothing to recover below epoch 1: that is
\* onRecoveryCompleted(OK) right away, in RecoveryCompleted.
StartRecovery ==
    /\ recoverCalls > 0
    /\ recoverCalls' = recoverCalls - 1
    /\ requests' = requests \cup IF current = 0 THEN {} ELSE {current}
    /\ UNCHANGED <<parentVars, epochVars, threadVars, activationVars, queued,
                   running, completing>>

\* LogRecoveryRequest::execute on the worker of the log.  A request that comes
\* too late is dropped,
DropRecovery(e) ==
    /\ completing = None
    /\ e \in requests
    /\ running >= e \/ lastReleased.epoch >= e
    /\ requests' = requests \ {e}
    /\ running' = IF running < e THEN 0 ELSE running
    /\ UNCHANGED <<parentVars, epochVars, threadVars, activationVars,
                   recoverCalls, queued, completing>>

\* any other one replaces the request of an older epoch and runs,
RunRecovery(e) ==
    /\ completing = None
    /\ e \in requests
    /\ running < e /\ lastReleased.epoch < e
    /\ requests' = requests \ {e}
    /\ running' = e
    /\ UNCHANGED <<parentVars, epochVars, threadVars, activationVars,
                   recoverCalls, queued, completing>>

\* or its log is queued if the worker has too many recoveries of other logs.
QueueRecovery(e) ==
    /\ completing = None
    /\ e \in requests
    /\ running < e /\ lastReleased.epoch < e
    /\ e > 1
    /\ requests' = requests \ {e}
    /\ running' = 0
    /\ queued' = TRUE
    /\ UNCHANGED <<parentVars, epochVars, threadVars, activationVars,
                   recoverCalls, completing>>

\* Worker::popRecoveryRequest
PopRecoveryRequest ==
    /\ queued
    /\ queued' = FALSE
    /\ recoverCalls' = recoverCalls + 1
    /\ UNCHANGED <<parentVars, epochVars, threadVars, activationVars, requests,
                   running, completing>>

\* Bug: recovery of the current epoch is taken for a stale one.
CompletesLater ==
    /\ state \notin {"PERMANENT_ERROR", "UNAVAILABLE"}
    /\ current # 0
    /\ current < running

\* Bug: recovery up to an epoch that is not the current one any more counts.
CompletesStale ==
    /\ state \notin {"PERMANENT_ERROR", "UNAVAILABLE"}
    /\ current # 0

\* onRecoveryCompleted() goes on for the current epoch only.
Completes ==
    /\ state \notin {"PERMANENT_ERROR", "UNAVAILABLE"}
    /\ current # 0
    /\ current =< running

\* The LNG of the current epoch.
GetLastKnownGood == lng[current]

\* Recovery succeeded: the LNG is read under the mutex,
RecoveryCompleted ==
    /\ running # 0
    /\ StateMutexFree
    /\ \/ /\ Completes
          /\ completing' = GetLastKnownGood
          /\ UNCHANGED running
       \/ /\ ~Completes
          /\ running' = 0
          /\ UNCHANGED completing
    /\ UNCHANGED <<parentVars, epochVars, threadVars, activationVars,
                   recoverCalls, requests, queued>>

\* and becomes the last released one.
FinishRecovery ==
    /\ completing # None
    /\ lastReleased' = IF lastReleased.epoch < current
                       THEN Lsn(current, completing) ELSE lastReleased
    /\ completing' = None
    /\ running' = 0
    /\ UNCHANGED <<state, current, draining, preempted, preempting, stops,
                   epochVars, threadVars, activationVars, recoverCalls,
                   requests, queued>>

\* A running recovery seals the epochs below its own.
SealEpochs ==
    /\ running > 1
    /\ seals' = seals \cup {running - 1}
    /\ UNCHANGED <<parentVars, epochVars, threadVars, pending, storeEpoch,
                   foreign, replies, failing, recoveryVars>>

\* Recovery failed and is started again,
RecoveryFailed ==
    /\ running > 1
    /\ StateMutexFree
    /\ running' = 0
    /\ recoverCalls' = recoverCalls + IF Completes THEN 1 ELSE 0
    /\ UNCHANGED <<parentVars, epochVars, threadVars, activationVars, requests,
                   queued, completing>>

\* or it met a higher seal, or only a higher last clean epoch.
RecoveryPreempted(p) ==
    /\ running # 0
    /\ StateMutexFree
    /\ p \in seals
    /\ p >= running
    /\ running' = 0
    /\ \/ NoteSeal(p)
       \/ UNCHANGED <<preempted, preempting>>
    /\ UNCHANGED <<state, current, draining, lastReleased, stops, epochVars,
                   threadVars, activationVars, recoverCalls, requests, queued,
                   completing>>

-----------------------------------------------------------------------------
\* What a thread inside an epoch sequencer does next.
EpochStep(e) ==
    \/ ReapLng(e) \/ ReapStore(e) \/ Release(e) \/ AdvanceLastReleased(e)
    \/ \E n \in Transitions :
        \/ TransitionTo(e, n) \/ SetTarget(e, n) \/ SetState(e, n)
        \/ ReturnFromTransition(e, n)
    \/ \E a \in Actors :
        \/ CheckQuiescent(e, a) \/ OnEpochQuiescent(e, a)
        \/ NoteDrainingCompleted(e, a)

ActivationStep ==
    \/ \E a \in 0 .. MaxEpoch :
        \/ StartActivation(a) \/ EpochStoreReply(a) \/ EpochStoreError(a)
        \/ EpochStoreAborted(a) \/ OnPermanentError(a)
    \/ \E e \in Epochs : CompleteActivation(e)
    \/ OnActivationFailed
    \/ \E drain \in BOOLEAN : SetUnavailable(drain)

PreemptionStep ==
    \/ OtherNodeActivates
    \/ \E e \in Epochs : OtherNodeSeals(e) \/ NotePreempted(e)
    \/ \E p \in 1 .. MaxEpoch + 1 : EnterPreempted(p)

AppenderStep ==
    \E e \in Epochs :
        \/ RunAppender(e)
        \/ \E n \in Esns : RetireReplicated(e, n) \/ RetireAborted(e, n)

RecoveryStep ==
    \/ StartRecovery \/ PopRecoveryRequest
    \/ \E e \in Epochs : DropRecovery(e) \/ RunRecovery(e) \/ QueueRecovery(e)
    \/ RecoveryCompleted \/ FinishRecovery \/ RecoveryFailed \/ SealEpochs
    \/ \E p \in Epochs : RecoveryPreempted(p)

Step ==
    \/ ActivationStep
    \/ PreemptionStep
    \/ AppenderStep
    \/ \E e \in Epochs : EpochStep(e) \/ OnDrainingTimerExpired(e)
    \/ RecoveryStep

Within(A) == A /\ UNCHANGED bound

Next == Within(Step)

Spec == Init /\ [][Next]_vars

\* Threads run on, timers fire and aborted Appenders retire.  A recovery that
\* is tried again and again finds room on its worker, and succeeds.
Fairness ==
    /\ \A e \in Epochs :
        /\ WF_vars(Within(EpochStep(e)))
        /\ WF_vars(Within(OnDrainingTimerExpired(e)))
        /\ WF_vars(Within(e \in aborting /\ \E n \in Esns : RetireAborted(e, n)))
        /\ WF_vars(Within(DropRecovery(e)))
        /\ SF_vars(Within(RunRecovery(e)))
    /\ WF_vars(Within(StartRecovery))
    /\ WF_vars(Within(PopRecoveryRequest))
    /\ SF_vars(Within(RecoveryCompleted))
    /\ WF_vars(Within(FinishRecovery))

FairSpec == Spec /\ Fairness

-----------------------------------------------------------------------------
(* Properties.                                                             *)

\* A record is only released if it and all records before it in its epoch are
\* fully replicated, whether the reaper of an Appender (noteAppenderReaped) or
\* the end of log recovery (onRecoveryCompleted) has released it.
ReleasedReplicated ==
    lastReleased.epoch # 0 =>
        1 .. lastReleased.esn \subseteq replicated[lastReleased.epoch]

\* last_released_ never goes back, although a reaper of an old epoch, the
\* reaper of the current one and onRecoveryCompleted() all write it.
ReleasedMonotone == [][AtMost(lastReleased, lastReleased')]_vars

\* last_released_ enters an epoch only when a log recovery that has run up to
\* this epoch ends, however often the sequencer was reactivated meanwhile.
ReleaseEntersRecovered ==
    [][lastReleased'.epoch # lastReleased.epoch =>
            running = lastReleased'.epoch]_vars

\* An epoch is declared QUIESCENT only when its window takes no more Appenders
\* and all those it took have been reaped.
QuiescentMeansDone ==
    \A e \in Epochs : epochState[e] = "QUIESCENT" =>
        /\ ~open[e]
        /\ lastReaped[e] = issued[e]

\* An epoch sequencer only moves forward, and becomes QUIESCENT only after the
\* transition to DRAINING or DYING is complete, although the reaper may find
\* the target reached before that (the ld_check in onEpochQuiescent).
EpochStateAdvances ==
    [][\A e \in Epochs :
        /\ Rank(epochState[e]) =< Rank(epochState'[e])
        /\ epochState'[e] = "QUIESCENT" => epochState[e] # "ACTIVE"]_vars

\* A sequencer in ACTIVATING cannot be activated: the answer to one of its
\* requests must be on the way to move it on, also when it was stopped and
\* activated again before an earlier request was answered.
NeverStuckActivating ==
    state = "ACTIVATING" =>
        (\E a \in 0 .. MaxEpoch : pending[a] > 0) \/ replies # {} \/ failing > 0

\* An epoch that is not current any more becomes quiescent, even if its last
\* Appender is reaped while draining is being set up and even if its Appenders
\* never finish by themselves.
EvictedBecomesQuiescent ==
    \A e \in Epochs :
        (epochState[e] # "NONE" /\ current # e)
            ~> epochState[e] = "QUIESCENT"

\* The last released LSN reaches the current epoch, unless the sequencer leaves
\* the epoch or another node is given a higher one: recovery is not lost on the
\* way through draining, the draining timer, the queue of the worker and
\* retries.
RecoveryHappens ==
    \A e \in Epochs :
        current = e ~> \/ lastReleased.epoch >= e
                       \/ current # e
                       \/ \E f \in foreign : f > e

==============================================================================
