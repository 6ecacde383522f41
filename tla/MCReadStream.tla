---------------------------- MODULE MCReadStream ----------------------------
(***************************************************************************)
(* ReadStream for TLC: three shards and what they hold.                    *)
(***************************************************************************)
EXTENDS ReadStream, TLC

a == "a"
b == "b"
c == "c"

Log(cs, lost, trim, partial, f) ==
    [copyset |-> cs, lost |-> lost, trim |-> trim, partial |-> partial, faults |-> f]

Untrimmed == [n \in {a, b, c} |-> 0]

\* A hole, records whose copysets overlap.
Hole == Log(<<<<a, b>>, << >>, <<b, c>>>>, {}, Untrimmed, {1}, 1)
\* A record that has lost one copy, one that has lost both.
Damaged == Log(<<<<a, b>>, <<b, c>>, <<c, a>>>>,
               {<<a, 1>>, <<b, 2>>, <<c, 2>>}, Untrimmed, {}, 1)
\* Trimmed while it is read.
Trimmed == Log(<<<<a, b>>, <<b, c>>, <<c, a>>>>, {},
               (a :> 0 @@ b :> 0 @@ c :> 2), {}, 1)

MCShards == {a, b, c}
MCLogs == {Hole, Damaged, Trimmed}
=============================================================================
