---------------------------- MODULE OrderedWindow ----------------------------
(***************************************************************************)
(* What a sliding window of Appenders promises: ESNs are issued in order,  *)
(* at most Capacity of them at a time; they are retired in any order, and  *)
(* reaped in ESN order, each one once and as soon as it and all the ESNs   *)
(* below it are retired; nothing is issued after the window is disabled.   *)
(***************************************************************************)
EXTENDS Integers, Sequences

CONSTANTS
    Capacity,   \* capacity_: the size limit of the window
    EsnMax      \* esn_max_: the largest ESN to issue


VARIABLES
    issued,     \* the last ESN issued
    retired,    \* the ESNs retire() was called for
    reaped,     \* the ESNs reaped, in the order they were
    open        \* whether the window takes new elements

vars == <<issued, retired, reaped, open>>

Init ==
    /\ issued = 0
    /\ retired = {}
    /\ reaped = << >>
    /\ open = TRUE

Grow ==
    /\ open
    /\ issued < EsnMax
    /\ issued - Len(reaped) < Capacity
    /\ issued' = issued + 1
    /\ UNCHANGED <<retired, reaped, open>>

Retire(e) ==
    /\ retired' = retired \cup {e}
    /\ UNCHANGED <<issued, reaped, open>>

Reap ==
    /\ Len(reaped) + 1 \in retired
    /\ reaped' = Append(reaped, Len(reaped) + 1)
    /\ UNCHANGED <<issued, retired, open>>

Disable ==
    /\ open' = FALSE
    /\ UNCHANGED <<issued, retired, reaped>>

Next ==
    \/ Grow
    \/ \E e \in (1 .. issued) \ retired : Retire(e)
    \/ Reap
    \/ Disable

\* The safety part.
SafeSpec == Init /\ [][Next]_vars

Spec == SafeSpec /\ WF_vars(Reap)
==============================================================================
