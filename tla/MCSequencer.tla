---------------------------- MODULE MCSequencer ----------------------------
(***************************************************************************)
(* Sequencer for TLC: the bounds of its behaviours.                        *)
(***************************************************************************)
EXTENDS Sequencer

Bound(n, r, f, s) ==
    [epochs |-> Len(n), esns |-> n, inFlight |-> r, foreign |-> f, stops |-> s]

\* One epoch with several Appenders, which is stopped; a hole in the middle
\* needs three ESNs.
Stop == Bound(<<3>>, 1, 0, 1)

\* Two epochs: the first has an Appender while the second takes over,
Switch == Bound(<<1, 0>>, 2, 1, 1)

\* or both have one.
Handover == Bound(<<1, 1>>, 1, 1, 0)

\* Three epochs: activation matters, not Appenders.
Activations == Bound(<<0, 0, 0>>, 1, 1, 0)

SafetyBounds == {Stop, Switch, Activations}
LivenessBounds == {Stop, Handover}
=============================================================================
