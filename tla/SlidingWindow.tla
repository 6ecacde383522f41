---------------------------- MODULE SlidingWindow ----------------------------
(***************************************************************************)
(* common/SlidingWindowSingleEpoch.h: the lock-free window of outstanding  *)
(* Appenders of an epoch.  A step is one atomic operation of one thread.   *)
(* A compare-and-swap loop that only retries is the step that succeeds.    *)
(*                                                                         *)
(* An LSN is its ESN: the epoch of the window is fixed.  0 stands for      *)
(* LSN_DISABLED in right_ and next_lsn_before_disabled_, and in            *)
(* prev_epoch_tail_ for the tail LSN of the previous epoch.  An Element is *)
(* named by the ESN it is given.                                           *)
(***************************************************************************)
EXTENDS Integers, FiniteSets, Sequences

CONSTANTS
    Threads,
    Capacity,   \* capacity_
    EsnMax,     \* esn_max_
    Unknown,    \* LSN_TAIL_UNKNOWN: also the prev_tail of an unconditional grow
    PrevTails   \* the prev_tail arguments of the callers of grow()

ASSUME ThreadsAssumption == IsFiniteSet(Threads)
ASSUME CapacityAssumption == Capacity \in Nat /\ Capacity >= 2
ASSUME EsnMaxAssumption == EsnMax \in Nat /\ Capacity =< EsnMax
ASSUME UnknownAssumption == Unknown \notin 0 .. EsnMax
ASSUME PrevTailsAssumption == PrevTails \subseteq {Unknown} \cup 0 .. EsnMax

Esns == 1 .. EsnMax

VARIABLES
    size,       \* size_: tokens given out
    right,      \* right_: the next ESN to issue, 0 when disabled
    nextBeforeDisabled, \* next_lsn_before_disabled_
    prevTail,   \* prev_epoch_tail_: Unknown or 0
    slot,       \* state_
    \* the threads
    pc,         \* where a thread is in grow(), retire() or disable()
    r,          \* local r of grow(), current_right of disable()
    cond,       \* argument prev_tail of grow()
    idx,        \* local idx of retire()
    entry,      \* local entry of retire()
    \* history
    issued,     \* the last ESN taken from right_
    grown,      \* grown[e]: the prev_tail argument of the grow() that
                \* returned e, a function on those ESNs
    retired,    \* the ESNs retire() was called for
    reaped      \* the ESNs passed to the deleter, in order

window == <<size, right, nextBeforeDisabled, prevTail, slot>>
threads == <<pc, r, cond, idx, entry>>
history == <<issued, grown, retired, reaped>>
vars == <<window, threads, history>>

Index(e) == e % Capacity
NextIndex(i) == IF i < Capacity - 1 THEN i + 1 ELSE 0
Indexes == 0 .. Capacity - 1

Free == [el |-> 0, retired |-> FALSE, tail |-> FALSE]

Growing == {"grow", "try", "insert"}
Reaping == {"reap", "clear", "token", "tail"}

Init ==
    /\ size = 0
    /\ right = 1
    /\ nextBeforeDisabled = 0
    /\ prevTail = Unknown
    /\ slot = [i \in Indexes |-> [Free EXCEPT !.tail = (i = Index(1))]]
    /\ pc = [t \in Threads |-> "idle"]
    /\ r = [t \in Threads |-> 0]
    /\ cond = [t \in Threads |-> Unknown]
    /\ idx = [t \in Threads |-> 0]
    /\ entry = [t \in Threads |-> Free]
    /\ issued = 0
    /\ grown = << >>
    /\ retired = {}
    /\ reaped = << >>

Goto(t, label) == pc' = [pc EXCEPT ![t] = label]

-----------------------------------------------------------------------------
(* grow()                                                                  *)

\* Bug: one token too many.
HasRoomOffByOne(token) == token =< Capacity

HasRoom(token) == token < Capacity

\* size_.fetch_add(1), and the check of the token.
GrowBegin(t, c) ==
    /\ pc[t] = "idle"
    /\ size' = size + 1
    /\ cond' = [cond EXCEPT ![t] = c]
    /\ Goto(t, IF HasRoom(size) THEN "grow" ELSE "giveback")
    /\ UNCHANGED <<right, nextBeforeDisabled, prevTail, slot, r, idx, entry,
                   history>>

\* grow() fails: size_.fetch_sub(1).
GiveBack(t) ==
    /\ pc[t] = "giveback"
    /\ size' = size - 1
    /\ cond' = [cond EXCEPT ![t] = Unknown]
    /\ Goto(t, "idle")
    /\ UNCHANGED <<right, nextBeforeDisabled, prevTail, slot, r, idx, entry,
                   history>>

GrowLoad(t) ==
    /\ pc[t] = "grow"
    /\ r' = [r EXCEPT ![t] = right]
    /\ Goto(t, "try")
    /\ UNCHANGED <<window, cond, idx, entry, history>>

\* Bug: the tail of the previous epoch is used for all ESNs.
PrevTailAlways(n) == prevTail

ExpectedTail(n) == IF n = 1 THEN prevTail ELSE n - 1

\* The loop body lets ESN n through: neither TOOBIG, DISABLED,
\* COND_WRITE_NOT_READY nor COND_WRITE_FAILED.
MayIssue(n, c) ==
    /\ n =< EsnMax
    /\ n # 0
    /\ c # Unknown => ExpectedTail(n) = c

\* One iteration of the compare-and-swap loop on right_.
GrowTry(t) ==
    /\ pc[t] = "try"
    /\ \/ /\ ~MayIssue(r[t], cond[t])
          /\ r' = [r EXCEPT ![t] = 0]
          /\ Goto(t, "giveback")
          /\ UNCHANGED <<right, issued>>
       \/ /\ MayIssue(r[t], cond[t])
          /\ right = r[t]
          /\ right' = right + 1
          /\ issued' = right
          /\ Goto(t, "insert")
          /\ UNCHANGED r
       \/ /\ MayIssue(r[t], cond[t])
          /\ right # r[t]
          /\ r' = [r EXCEPT ![t] = right]
          /\ UNCHANGED <<pc, right, issued>>
    /\ UNCHANGED <<size, nextBeforeDisabled, prevTail, slot, cond, idx, entry,
                   grown, retired, reaped>>

\* The element is or-ed into its slot, and grow() returns.
Insert(t) ==
    /\ pc[t] = "insert"
    /\ slot' = [slot EXCEPT ![Index(r[t])].el = r[t]]
    /\ grown' = [e \in DOMAIN grown \cup {r[t]} |->
                    IF e = r[t] THEN cond[t] ELSE grown[e]]
    /\ r' = [r EXCEPT ![t] = 0]
    /\ cond' = [cond EXCEPT ![t] = Unknown]
    /\ Goto(t, "idle")
    /\ UNCHANGED <<size, right, nextBeforeDisabled, prevTail, idx, entry,
                   issued, retired, reaped>>

-----------------------------------------------------------------------------
(* disable() and set_prev_tail()                                           *)

\* Bug: a second call overwrites what the first recorded.
DisableAgain(t) ==
    /\ pc[t] = "idle"
    /\ right' = 0
    /\ r' = [r EXCEPT ![t] = right]
    /\ Goto(t, "disable")
    /\ UNCHANGED <<size, nextBeforeDisabled, prevTail, slot, cond, idx, entry,
                   history>>

\* right_.exchange(LSN_DISABLED).  A second call changes nothing.
Disable(t) ==
    /\ pc[t] = "idle"
    /\ right # 0
    /\ right' = 0
    /\ r' = [r EXCEPT ![t] = right]
    /\ Goto(t, "disable")
    /\ UNCHANGED <<size, nextBeforeDisabled, prevTail, slot, cond, idx, entry,
                   history>>

DisableStore(t) ==
    /\ pc[t] = "disable"
    /\ nextBeforeDisabled' = r[t]
    /\ r' = [r EXCEPT ![t] = 0]
    /\ Goto(t, "idle")
    /\ UNCHANGED <<size, right, prevTail, slot, cond, idx, entry, history>>

\* Recovery has told the tail of the previous epoch.
SetPrevTail ==
    /\ prevTail = Unknown
    /\ prevTail' = 0
    /\ UNCHANGED <<size, right, nextBeforeDisabled, slot, threads, history>>

-----------------------------------------------------------------------------
(* retire()                                                                *)

\* The slot is loaded.
Retire(t, e) ==
    /\ pc[t] = "idle"
    /\ e \in DOMAIN grown \ retired
    /\ retired' = retired \cup {e}
    /\ idx' = [idx EXCEPT ![t] = Index(e)]
    /\ entry' = [entry EXCEPT ![t] = slot[Index(e)]]
    /\ Goto(t, IF slot[Index(e)].tail THEN "reap" ELSE "mark")
    /\ UNCHANGED <<window, r, cond, issued, grown, reaped>>

\* Bug: the flag is set without a compare-and-swap.
MarkRetiredBlindly(t) ==
    /\ pc[t] = "mark"
    /\ slot' = [slot EXCEPT ![idx[t]].retired = TRUE]
    /\ Goto(t, "idle")
    /\ entry' = [entry EXCEPT ![t] = Free]
    /\ idx' = [idx EXCEPT ![t] = 0]
    /\ UNCHANGED <<size, right, nextBeforeDisabled, prevTail, r, cond, history>>

\* Compare-and-swap of the RETIRED flag.  When it is lost, TAIL has moved in
\* and this thread takes over reaping.
MarkRetired(t) ==
    /\ pc[t] = "mark"
    /\ \/ /\ slot[idx[t]] = entry[t]
          /\ slot' = [slot EXCEPT ![idx[t]].retired = TRUE]
          /\ Goto(t, "idle")
          /\ entry' = [entry EXCEPT ![t] = Free]
          /\ idx' = [idx EXCEPT ![t] = 0]
       \/ /\ slot[idx[t]] # entry[t]
          /\ entry' = [entry EXCEPT ![t] = slot[idx[t]]]
          /\ Goto(t, "reap")
          /\ UNCHANGED <<slot, idx>>
    /\ UNCHANGED <<size, right, nextBeforeDisabled, prevTail, r, cond, history>>

\* The deleter.
Reap(t) ==
    /\ pc[t] = "reap"
    /\ reaped' = Append(reaped, entry[t].el)
    /\ Goto(t, "clear")
    /\ UNCHANGED <<window, r, cond, idx, entry, issued, grown, retired>>

\* Bug: the TAIL flag is not cleared.
KeepTail(t) ==
    /\ pc[t] = "clear"
    /\ slot' = [slot EXCEPT ![idx[t]] = [Free EXCEPT !.tail = TRUE]]
    /\ Goto(t, "token")
    /\ UNCHANGED <<size, right, nextBeforeDisabled, prevTail, r, cond, idx,
                   entry, history>>

\* The slot is given up, then the token.
ClearSlot(t) ==
    /\ pc[t] = "clear"
    /\ slot' = [slot EXCEPT ![idx[t]] = Free]
    /\ Goto(t, "token")
    /\ UNCHANGED <<size, right, nextBeforeDisabled, prevTail, r, cond, idx,
                   entry, history>>

FreeToken(t) ==
    /\ pc[t] = "token"
    /\ size' = size - 1
    /\ Goto(t, "tail")
    /\ UNCHANGED <<right, nextBeforeDisabled, prevTail, slot, r, cond, idx,
                   entry, history>>

\* Bug: the next slot is left to its owner even if that one is gone.
SetTailAndLeave(t) ==
    /\ pc[t] = "tail"
    /\ slot' = [slot EXCEPT ![NextIndex(idx[t])].tail = TRUE]
    /\ Goto(t, "idle")
    /\ idx' = [idx EXCEPT ![t] = 0]
    /\ entry' = [entry EXCEPT ![t] = Free]
    /\ UNCHANGED <<size, right, nextBeforeDisabled, prevTail, r, cond, history>>

\* set_tail(): TAIL is or-ed into the next slot.  If that one is RETIRED its
\* owner is gone and this thread reaps it, otherwise the baton is passed.
SetTail(t) ==
    LET next == NextIndex(idx[t])
    IN  /\ pc[t] = "tail"
        /\ slot' = [slot EXCEPT ![next].tail = TRUE]
        /\ \/ /\ slot[next].retired
              /\ idx' = [idx EXCEPT ![t] = next]
              /\ entry' = [entry EXCEPT ![t] = [slot[next] EXCEPT !.tail = TRUE]]
              /\ Goto(t, "reap")
           \/ /\ ~slot[next].retired
              /\ idx' = [idx EXCEPT ![t] = 0]
              /\ entry' = [entry EXCEPT ![t] = Free]
              /\ Goto(t, "idle")
        /\ UNCHANGED <<size, right, nextBeforeDisabled, prevTail, r, cond,
                       history>>

-----------------------------------------------------------------------------
\* What a thread does once it is inside grow(), retire() or disable().
Continue(t) ==
    \/ GiveBack(t) \/ GrowLoad(t) \/ GrowTry(t) \/ Insert(t)
    \/ DisableStore(t)
    \/ MarkRetired(t) \/ Reap(t) \/ ClearSlot(t) \/ FreeToken(t) \/ SetTail(t)

Next ==
    \/ \E t \in Threads :
        \/ \E c \in PrevTails : GrowBegin(t, c)
        \/ \E e \in Esns : Retire(t, e)
        \/ Disable(t)
        \/ Continue(t)
    \/ SetPrevTail

Spec == Init /\ [][Next]_vars

\* The threads that are inside an operation run on; nothing makes them start
\* another one.
FairSpec == Spec /\ \A t \in Threads : WF_vars(Continue(t))

-----------------------------------------------------------------------------
(* Properties.                                                             *)

\* At most one thread is reaping: the slot that the owner of an element and the
\* reaper in front of it both try to take goes to one of them.
OneReaper ==
    \A t, u \in Threads : pc[t] \in Reaping /\ pc[u] \in Reaping => t = u

\* grow() always finds its slot free, however far the other threads are with
\* reaping the element that used the slot before (the ld_check in its loop).
SlotIsFree ==
    \A t \in Threads : pc[t] = "insert" =>
        /\ slot[Index(r[t])].el = 0
        /\ ~slot[Index(r[t])].retired

Quiet == \A t \in Threads : pc[t] = "idle"

\* Between operations nothing is left undone: the retired elements at the left
\* edge have all been reaped, TAIL is on the slot of the first other ESN and
\* the tokens given out are those of the elements in the window.
QuietWindow ==
    Quiet =>
        /\ Len(reaped) + 1 \notin retired
        /\ {i \in Indexes : slot[i].tail} = {Index(Len(reaped) + 1)}
        /\ size = issued - Len(reaped)

\* A conditional append that succeeded directly follows the tail its client
\* named; so of several appends conditional on the same tail one at most does.
CondAppendFollowsTail ==
    \A e \in DOMAIN grown : grown[e] # Unknown => grown[e] = e - 1

\* Once disable() has returned, next() is the ESN after the last one issued,
\* whatever calls of grow() and disable() it raced with.
NextIsFinal ==
    right = 0 /\ (\A t \in Threads : pc[t] # "disable")
        => nextBeforeDisabled = issued + 1

\* The window implements OrderedWindow: order, uniqueness and completeness of
\* reaping, the capacity, and nothing issued once it is disabled.
Ordered == INSTANCE OrderedWindow WITH open <- right # 0
ImplementsOrderedWindow == Ordered!Spec
==============================================================================
