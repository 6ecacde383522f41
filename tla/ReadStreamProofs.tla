-------------------------- MODULE ReadStreamProofs --------------------------
(***************************************************************************)
(* Proofs about a client read stream, for any number of shards, any log,   *)
(* window, replication factor and number of faults.                        *)
(*                                                                         *)
(* The invariant has two halves.  StreamOK is about the stream alone: its  *)
(* buffer lies in the window, each sender is linked to the marker where    *)
(* its gap state changes next (LinkAt), and nobody waits at the front of   *)
(* the buffer of a stream at rest.  ShardInv is about the session with one *)
(* shard: which messages on their way are of the last filter version       *)
(* (Live), that those arrive in the order of their LSNs, and that in       *)
(* ALL_SEND_ALL they account for all that the shard holds, so that no      *)
(* record is passed over (Complete).                                       *)
(***************************************************************************)
EXTENDS ReadStream, Extrema, FiniteSetTheorems, TLAPS

-----------------------------------------------------------------------------
(* Types.                                                                  *)

StartMessage == [lsn : Nat, scd : BOOLEAN, down : SUBSET Shards]

Sender ==
    [conn : {"CONNECTING", "READING", "RECONNECT_PENDING"}, start : StartMessage,
     high : Nat, next : Nat, gap : {"NONE", "GAP", "UNDER"}, slot : Nat, ur : Nat,
     current : BOOLEAN, sentRecord : BOOLEAN, strikes : Nat, down : BOOLEAN,
     urDown : BOOLEAN]

Stream ==
    [next : Nat, low : Nat, recs : SUBSET Nat, marks : SUBSET Nat, gapOut : Nat,
     trim : Nat, snd : [Shards -> Sender], mode : {"SCD", "ALL"},
     down : SUBSET Shards, newDown : SUBSET Shards, toMode : {"SCD", "ALL", "none"},
     due : BOOLEAN, rewound : BOOLEAN, retried : Nat, grace : BOOLEAN,
     redeliver : BOOLEAN, loop : {"idle", "run"}, expired : BOOLEAN,
     redelivering : BOOLEAN, from : Shards \cup {NoShard}]

ServerStream ==
    [on : BOOLEAN, current : BOOLEAN, last : Nat, scd : BOOLEAN, down : SUBSET Shards]

Started == [type : {"STARTED"}, current : BOOLEAN]
Record == [type : {"RECORD"}, lsn : Lsns, under : BOOLEAN]
Gap == [type : {"GAP"}, lsn : Lsns, reason : {"TRIM", "UNDER", "NO_RECORDS"}]
Message == Started \cup Record \cup Gap

Types ==
    /\ log \in Logs
    /\ rs \in Stream
    /\ srv \in [Shards -> ServerStream]
    /\ chan \in [Shards -> Seq(Message)]
    /\ up \in [Shards -> BOOLEAN]
    /\ trimAt \in [Shards -> 0..MaxLsn]
    /\ given \in [Lsns -> {"nothing", "record", "trimmed", "lost"}]

-----------------------------------------------------------------------------
(* The stream.                                                             *)

\* The buffer lies in the window.
Window(r) ==
    /\ r.next \in 1..MaxLsn + 1 /\ r.low \in 1..r.next
    /\ r.recs \cup r.marks \subseteq r.next..High(r)
    /\ r.trim =< MaxLsn
    /\ r.gapOut = 0 \/ r.gapOut \in High(r) + 1..MaxLsn + 1

\* The gap state of a sender and the marker it is linked to, for a stream at x
\* whose window ends at h, with markers M and the end g of a gap behind the
\* window; next, ur, gap and slot are those of the sender.
LinkAt(x, h, M, g, next, ur, gap, slot) ==
    /\ next =< MaxLsn + 1 /\ ur =< next
    /\ gap = "NONE" => slot = 0
    /\ slot # 0 => slot \in M /\ slot =< next /\ (gap = "UNDER" => slot =< ur)
    /\ (gap # "NONE" /\ slot = 0) => next > h /\ (gap = "UNDER" => ur > h)
    /\ (next > h /\ next > x) => g \in 1..next
    /\ (slot # x /\ x =< h) =>
            /\ (gap # "NONE") <=> (next > x)
            /\ (gap = "UNDER") <=> (next > x /\ ur > x)

Link(r, s) ==
    /\ LinkAt(r.next, High(r), r.marks, r.gapOut, s.next, s.ur, s.gap, s.slot)
    /\ s.high =< High(r)

Linked(r) == \A n \in Shards : Link(r, r.snd[n])

\* Nobody waits at the front of the buffer of a stream at rest.
Quiet(r) ==
    /\ \A n \in Shards : r.snd[n].slot = r.next =>
            IF r.redeliver THEN CanSkipTrimmed(r) ELSE r.loop = "run"
    /\ r.loop = "idle" => Done(r) \/ r.next =< High(r)

-----------------------------------------------------------------------------
(* The sessions.                                                           *)

Begins(m) == m.type = "STARTED" /\ m.current

\* What shard n has at position i of its channel, or would add there, is of
\* the last version.
Live(n, i) ==
    \/ ~rs.rewound \/ rs.snd[n].current
    \/ \E j \in 1..Len(chan[n]) : j < i /\ Begins(chan[n][j])

IsData(m) == m.type # "STARTED"

\* A START on its way is for a stream to come, or repeats the one that is on;
\* a STARTED of the last version on its way is the only one.
Session(n) == LET s == rs.snd[n] IN
    /\ s.current => s.conn = "READING"
    /\ s.start # NoStart => /\ s.start.lsn \in 1..s.next
                            /\ s.conn = "CONNECTING" \/ (srv[n].on /\ srv[n].current)
    /\ (s.conn = "CONNECTING" /\ (rs.rewound \/ (s.start # NoStart /\ ~srv[n].on)))
            => s.next =< rs.next
    /\ (s.conn = "RECONNECT_PENDING" \/ ~up[n]) => ~srv[n].on
    /\ ~srv[n].on => chan[n] = << >>
    /\ srv[n].on /\ (s.current \/ ~rs.rewound) => srv[n].current
    /\ \A i \in 1..Len(chan[n]) : Begins(chan[n][i]) =>
            /\ s.conn = "CONNECTING" /\ srv[n].current
            /\ \A j \in 1..Len(chan[n]) : Begins(chan[n][j]) => j = i

\* In ALL_SEND_ALL the shards ship all they hold.
AllSendAll(n) == rs.mode = "ALL" =>
    /\ rs.rewound
    /\ rs.snd[n].start # NoStart => ~rs.snd[n].start.scd
    /\ srv[n].on /\ srv[n].current => ~srv[n].scd

\* Data arrives in the order of the LSNs.
Order(n) == LET s == rs.snd[n] IN
    /\ \A i \in 1..Len(chan[n]) : chan[n][i].type = "RECORD" => chan[n][i].lsn =< High(rs)
    /\ srv[n].last =< MaxLsn
    /\ \A i \in 1..Len(chan[n]) : Live(n, i) /\ IsData(chan[n][i]) =>
            /\ s.next =< chan[n][i].lsn + 1 \/ s.next =< rs.next
            /\ chan[n][i].lsn =< srv[n].last
            /\ \A j \in 1..i : Live(n, j) /\ IsData(chan[n][j]) =>
                    chan[n][j].lsn =< chan[n][i].lsn
    /\ srv[n].on /\ Live(n, Len(chan[n]) + 1) =>
            s.next =< srv[n].last + 1 \/ s.next =< rs.next

\* The message tells what has become of the record at l.
Accounts(m, l) ==
    \/ m.type = "RECORD" /\ m.lsn = l
    \/ m.type = "GAP" /\ m.reason = "TRIM" /\ l =< m.lsn

Accounted(n, l, i) ==
    \E j \in 1..Len(chan[n]) : j =< i /\ Live(n, j) /\ Accounts(chan[n][j], l)

Received(n) ==
    \A l \in Lsns : rs.next =< l /\ l < rs.snd[n].next /\ Holds(n, l)
        => l \in rs.recs \/ l =< rs.trim

InFlight(n) ==
    \A i \in 1..Len(chan[n]) : Live(n, i) /\ IsData(chan[n][i]) =>
        \A l \in Lsns :
            rs.snd[n].next =< l /\ l =< chan[n][i].lsn /\ Holds(n, l) => Accounted(n, l, i)

Sent(n) ==
    srv[n].on /\ Live(n, Len(chan[n]) + 1) =>
        \A l \in Lsns : rs.snd[n].next =< l /\ l =< srv[n].last /\ Holds(n, l)
            => Accounted(n, l, Len(chan[n]))

\* In ALL_SEND_ALL no record that a shard holds is passed over: the stream has
\* it, or it is on its way.
Complete(n) == rs.mode = "ALL" => Received(n) /\ InFlight(n) /\ Sent(n)

-----------------------------------------------------------------------------
(* How a sender is linked, in terms of numbers.                            *)

GapStates == {"NONE", "GAP", "UNDER"}

\* The sender has nothing below l: it goes on from there.
LEMMA LinkBelow ==
    ASSUME NEW x \in Nat, NEW h \in Nat, NEW M, M \subseteq x..h, NEW g \in Nat,
           NEW next \in Nat, NEW ur \in Nat, NEW gap \in GapStates, NEW slot \in Nat,
           LinkAt(x, h, M, g, next, ur, gap, slot),
           NEW l \in Nat, NEW u \in Nat, u = ur \/ u = Larger(ur, l)
    PROVE  /\ (l < next /\ (u = ur \/ next =< x)) => LinkAt(x, h, M, g, next, u, gap, slot)
           /\ (next =< l /\ l =< x /\ l =< MaxLsn + 1) => LinkAt(x, h, M, g, l, u, gap, slot)
BY SizeAssumption DEF LinkAt, Larger, GapStates

\* The LSN behind x where a sender changes that has nothing below l.
Turn(x, u, l) == IF x < u THEN u ELSE l

LEMMA LinkAhead ==
    ASSUME NEW x \in Nat \ {0}, NEW h \in Nat, NEW M, M \subseteq x..h, NEW g \in Nat,
           NEW next \in Nat, NEW ur \in Nat, NEW gap \in GapStates, NEW slot \in Nat,
           LinkAt(x, h, M, g, next, ur, gap, slot),
           NEW l \in Nat, l >= next, l > x, l =< MaxLsn + 1,
           NEW u \in Nat, u = ur \/ u = Larger(ur, l)
    PROVE  LinkAt(x, h, M \cup ({Turn(x, u, l)} \cap 1..h),
                  IF l > h /\ (g = 0 \/ l < g) THEN l ELSE g, l, u,
                  IF x < u THEN "UNDER" ELSE "GAP",
                  IF gap = "NONE" /\ Turn(x, u, l) =< h THEN Turn(x, u, l) ELSE slot)
<1>a. PICK M2, g2, gap2, slot2 :
        /\ M2 = M \cup ({Turn(x, u, l)} \cap 1..h)
        /\ g2 = IF l > h /\ (g = 0 \/ l < g) THEN l ELSE g
        /\ gap2 = IF x < u THEN "UNDER" ELSE "GAP"
        /\ slot2 = IF gap = "NONE" /\ Turn(x, u, l) =< h THEN Turn(x, u, l) ELSE slot
  OBVIOUS
<1> DEFINE t == Turn(x, u, l)
<1>0. t = IF x < u THEN u ELSE l
  BY DEF Turn
<1> HIDE DEF t
<1>1. u =< l
  BY DEF LinkAt, Larger
<1>2. gap2 = "NONE" => slot2 = 0
  BY <1>a
<1>3. slot2 # 0 => slot2 \in M2 /\ slot2 =< l /\ (gap2 = "UNDER" => slot2 =< u)
  <2>1. CASE gap = "NONE"
    BY <1>a, <1>0, <1>1, <2>1 DEF LinkAt, t
  <2>2. CASE gap # "NONE" /\ slot # 0
    BY <1>a, <1>0, <1>1, <2>2 DEF LinkAt, Larger, GapStates, t
  <2>3. QED
    BY <1>a, <2>1, <2>2
<1>4. (gap2 # "NONE" /\ slot2 = 0) => l > h /\ (gap2 = "UNDER" => u > h)
  <2>1. CASE gap = "NONE"
    BY <1>a, <1>0, <1>1, <2>1 DEF LinkAt, t
  <2>2. CASE gap # "NONE" /\ slot = 0
    BY <1>a, <1>0, <1>1, <2>2 DEF LinkAt, Larger, GapStates, t
  <2>3. QED
    BY <1>a, <2>1, <2>2
<1>5. (l > h /\ l > x) => g2 \in 1..l
  BY <1>a
<1>6. (slot2 # x /\ x =< h) =>
            /\ (gap2 # "NONE") <=> (l > x)
            /\ (gap2 = "UNDER") <=> (l > x /\ u > x)
  BY <1>a
<1>7. QED
  BY <1>a, <1>1, <1>2, <1>3, <1>4, <1>5, <1>6 DEF LinkAt

\* A sender does not care for more markers, nor for a gap that ends earlier.
LEMMA LinkOthers ==
    ASSUME NEW x \in Nat, NEW h \in Nat, NEW M, NEW g \in Nat,
           NEW next \in Nat, NEW ur \in Nat, NEW gap \in GapStates, NEW slot \in Nat,
           LinkAt(x, h, M, g, next, ur, gap, slot),
           NEW M2, M \subseteq M2, NEW g2 \in Nat, g # 0 => g2 \in 1..g
    PROVE  LinkAt(x, h, M2, g2, next, ur, gap, slot)
BY DEF LinkAt

\* The stream moves from x to y; a sender that is linked to no marker below y
\* keeps its state.
LEMMA LinkKept ==
    ASSUME NEW x \in Nat \ {0}, NEW h \in Nat, NEW M, M \subseteq x..h, NEW g \in Nat,
           NEW next \in Nat, NEW ur \in Nat, NEW gap \in GapStates, NEW slot \in Nat,
           LinkAt(x, h, M, g, next, ur, gap, slot),
           NEW y \in Nat, x =< y, slot = 0 \/ slot >= y,
           NEW M2, slot # 0 => slot \in M2
    PROVE  LinkAt(y, h, M2, g, next, ur, gap, slot)
BY DEF LinkAt, GapStates

\* The stream is behind the marker hi, and a sender linked there moves on.
LEMMA LinkMoved ==
    ASSUME NEW x \in Nat \ {0}, NEW h \in Nat, NEW M, NEW g \in Nat,
           NEW next \in Nat, NEW ur \in Nat, NEW gap \in GapStates, NEW slot \in Nat,
           LinkAt(x, h, M, g, next, ur, gap, slot),
           NEW hi \in Nat, NEW y \in Nat, x =< hi, y = hi + 1 \/ (y = hi /\ x = hi),
           NEW t \in Nat,
           t = IF next =< hi THEN 0 ELSE IF hi < ur THEN ur ELSE next,
           NEW gap2, gap2 = IF next =< hi THEN "NONE"
                            ELSE IF hi < ur THEN "UNDER" ELSE "GAP",
           NEW slot2, slot2 = IF t =< h THEN t ELSE 0,
           NEW M2, slot2 # 0 => slot2 \in M2
    PROVE  LinkAt(y, h, M2, g, next, ur, gap2, slot2)
BY DEF LinkAt, GapStates

\* The gap states are built anew for a window that ends at h.
LEMMA LinkRebuilt ==
    ASSUME NEW x \in Nat \ {0}, NEW h \in Nat, NEW next \in Nat, NEW ur \in Nat,
           next =< MaxLsn + 1, ur =< next, next > x,
           NEW t \in Nat, t = IF x < ur THEN ur ELSE next,
           NEW slot, slot = IF t =< h THEN t ELSE 0,
           NEW M, slot # 0 => slot \in M,
           NEW g, next > h => g \in 1..next
    PROVE  LinkAt(x, h, M, g, next, ur, IF x < ur THEN "UNDER" ELSE "GAP", slot)
BY DEF LinkAt

LEMMA LinkNone ==
    ASSUME NEW x \in Nat \ {0}, NEW h \in Nat, NEW next \in Nat, NEW ur \in Nat,
           next =< MaxLsn + 1, ur =< next, next =< x, NEW M, NEW g
    PROVE  LinkAt(x, h, M, g, next, ur, "NONE", 0)
BY DEF LinkAt

-----------------------------------------------------------------------------
(* What the operators on the stream leave alone.                           *)

SameBuffer(r, q) ==
    /\ q.next = r.next /\ q.low = r.low /\ q.recs = r.recs /\ q.marks = r.marks
    /\ q.gapOut = r.gapOut /\ q.trim = r.trim

SameMode(r, q) == q.mode = r.mode /\ q.rewound = r.rewound /\ q.redeliver = r.redeliver

SameSession(s, t) ==
    t.current = s.current /\ t.conn = s.conn /\ t.start = s.start /\ t.next = s.next

SameLink(s, t) ==
    t.next = s.next /\ t.ur = s.ur /\ t.gap = s.gap /\ t.slot = s.slot /\ t.high = s.high

\* The two differ in nothing the invariants are about, except loop.
Alike(r, q) ==
    /\ SameBuffer(r, q) /\ SameMode(r, q)
    /\ \A n \in Shards : SameSession(r.snd[n], q.snd[n]) /\ SameLink(r.snd[n], q.snd[n])

LEMMA AlikeTransitive ==
    ASSUME NEW r, NEW q, NEW p, Alike(r, q), Alike(q, p)
    PROVE  Alike(r, p)
BY DEF Alike, SameBuffer, SameMode, SameSession, SameLink

LEMMA SenderOf ==
    ASSUME NEW r \in Stream, NEW n \in Shards
    PROVE  /\ r.snd[n] \in Sender
           /\ r.snd[n].conn \in {"CONNECTING", "READING", "RECONNECT_PENDING"}
           /\ r.snd[n].start \in StartMessage
           /\ r.snd[n].high \in Nat /\ r.snd[n].next \in Nat
           /\ r.snd[n].gap \in GapStates /\ r.snd[n].slot \in Nat /\ r.snd[n].ur \in Nat
           /\ r.snd[n].current \in BOOLEAN
BY DEF Stream, Sender, GapStates

LEMMA StreamFields ==
    ASSUME NEW r \in Stream
    PROVE  /\ r.next \in Nat /\ r.low \in Nat /\ r.recs \subseteq Nat /\ r.marks \subseteq Nat
           /\ r.gapOut \in Nat /\ r.trim \in Nat /\ r.mode \in {"SCD", "ALL"}
           /\ r.rewound \in BOOLEAN /\ r.redeliver \in BOOLEAN /\ r.loop \in {"idle", "run"}
           /\ r.from \in Shards \cup {NoShard} /\ r.due \in BOOLEAN
           /\ r.down \subseteq Shards /\ r.newDown \subseteq Shards
           /\ r.toMode \in {"SCD", "ALL", "none"}
BY DEF Stream

LEMMA WithSenderFields ==
    ASSUME NEW r \in Stream, NEW n \in Shards, NEW s \in Sender,
           NEW q, q = WithSender(r, n, s)
    PROVE  /\ q \in Stream
           /\ q.snd[n] = s /\ \A m \in Shards : m # n => q.snd[m] = r.snd[m]
           /\ SameBuffer(r, q) /\ SameMode(r, q) /\ q.loop = r.loop
BY DEF WithSender, Stream, SameBuffer, SameMode

LEMMA ScheduleRewindAlike ==
    ASSUME NEW r \in Stream, NEW mode \in {"SCD", "ALL"}, NEW q, q = ScheduleRewindToMode(r, mode)
    PROVE  q \in Stream /\ Alike(r, q) /\ q.loop = r.loop
BY DEF ScheduleRewindToMode, Stream, Alike, SameBuffer, SameMode, SameSession, SameLink

LEMMA AddToShardsDownAlike ==
    ASSUME NEW r \in Stream, NEW n \in Shards, NEW q, q = AddToShardsDown(r, n)
    PROVE  q \in Stream /\ Alike(r, q) /\ q.loop = r.loop /\ q.snd = r.snd
BY DEF AddToShardsDown, Stream, Alike, SameBuffer, SameMode, SameSession, SameLink

LEMMA PromoteAlike ==
    ASSUME NEW r \in Stream, NEW q, q = PromoteUnderReplicated(r)
    PROVE  q \in Stream /\ Alike(r, q) /\ q.loop = r.loop
<1> DEFINE S == {n \in Shards : r.snd[n].gap = "UNDER" /\ ~r.snd[n].urDown}
           snd == [n \in Shards |-> [r.snd[n] EXCEPT !.urDown = @ \/ n \in S]]
<1>1. \A n \in Shards : r.snd[n] \in Sender
  BY SenderOf
<1>2. \A n \in Shards : /\ snd[n] \in Sender
                        /\ SameSession(r.snd[n], snd[n]) /\ SameLink(r.snd[n], snd[n])
  <2> SUFFICES ASSUME NEW n \in Shards
               PROVE  /\ snd[n] \in Sender
                      /\ SameSession(r.snd[n], snd[n]) /\ SameLink(r.snd[n], snd[n])
    OBVIOUS
  <2>1. PICK b \in BOOLEAN : b = (r.snd[n].urDown \/ n \in S)
    OBVIOUS
  <2>2. snd[n] = [r.snd[n] EXCEPT !.urDown = b]
    BY <2>1
  <2> HIDE DEF snd, S
  <2>3. QED
    BY <1>1, <2>2 DEF Sender, SameSession, SameLink
<1>3. snd \in [Shards -> Sender]
  BY <1>2
<1>4. PICK b \in BOOLEAN : b = (r.due \/ ~(S \subseteq r.down \cup r.newDown))
  OBVIOUS
<1>5. q = [r EXCEPT !.snd = snd, !.newDown = @ \cup (S \ r.down), !.due = b]
  BY <1>4 DEF PromoteUnderReplicated
<1>6. S \subseteq Shards
  OBVIOUS
<1> HIDE DEF snd, S
<1>7. q \in Stream /\ q.loop = r.loop /\ SameBuffer(r, q) /\ SameMode(r, q) /\ q.snd = snd
  BY <1>3, <1>5, <1>6 DEF Stream, SameBuffer, SameMode
<1>8. QED
  BY <1>2, <1>7 DEF Alike

LEMMA AlikeReflexive ==
    ASSUME NEW r
    PROVE  Alike(r, r)
BY DEF Alike, SameBuffer, SameMode, SameSession, SameLink

LEMMA CheckNeedsRewindAlike ==
    ASSUME NEW r \in Stream, NEW q, q = CheckNeedsRewind(r)
    PROVE  q \in Stream /\ Alike(r, q) /\ q.loop = r.loop
<1>1. q = r \/ q = PromoteUnderReplicated(r) \/ q = ScheduleRewindToMode(r, "ALL")
  BY DEF CheckNeedsRewind
<1>2. QED
  BY <1>1, PromoteAlike, ScheduleRewindAlike, AlikeReflexive

LEMMA RewindIfShardBackUpAlike ==
    ASSUME NEW r \in Stream, NEW n \in Shards, NEW q, q = RewindIfShardBackUp(r, n)
    PROVE  q \in Stream /\ Alike(r, q) /\ q.loop = r.loop
<1>1. q = r \/ q = [r EXCEPT !.newDown = @ \ {n}, !.due = TRUE]
  BY DEF RewindIfShardBackUp
<1>2. CASE q = r
  BY <1>2, AlikeReflexive
<1>3. CASE q = [r EXCEPT !.newDown = @ \ {n}, !.due = TRUE]
  BY <1>3 DEF Stream, Alike, SameBuffer, SameMode, SameSession, SameLink
<1>4. QED
  BY <1>1, <1>2, <1>3

LEMMA EndLoopAlike ==
    ASSUME NEW r \in Stream, NEW q, q = EndLoop(r)
    PROVE  q \in Stream /\ Alike(r, q) /\ q.loop = "idle"
<1>1. PICK c : c = CheckNeedsRewind(r)
  OBVIOUS
<1>2. PICK b : b = IF r.from # NoShard THEN RewindIfShardBackUp(c, r.from) ELSE c
  OBVIOUS
<1>3. c \in Stream /\ Alike(r, c)
  BY <1>1, CheckNeedsRewindAlike
<1>4. b \in Stream /\ Alike(c, b)
  BY <1>2, <1>3, RewindIfShardBackUpAlike, AlikeReflexive, StreamFields
<1>5. q = [b EXCEPT !.loop = "idle", !.expired = FALSE, !.redelivering = FALSE,
                    !.from = NoShard]
  BY <1>1, <1>2 DEF EndLoop
<1>6. q \in Stream /\ Alike(b, q) /\ q.loop = "idle"
  BY <1>4, <1>5 DEF Stream, Alike, SameBuffer, SameMode, SameSession, SameLink
<1>7. QED
  BY <1>3, <1>4, <1>6, AlikeTransitive

LEMMA RunLoopAlike ==
    ASSUME NEW r \in Stream, NEW e \in BOOLEAN, NEW d \in BOOLEAN,
           NEW n \in Shards \cup {NoShard}, NEW q, q = RunLoop(r, e, d, n)
    PROVE  q \in Stream /\ Alike(r, q) /\ q.loop = "run"
BY DEF RunLoop, Stream, Alike, SameBuffer, SameMode, SameSession, SameLink

LEMMA HighType ==
    ASSUME NEW r \in Stream
    PROVE  /\ High(r) \in Nat /\ High(r) =< MaxLsn
           /\ r.low =< MaxLsn => r.low =< High(r)
BY SizeAssumption, StreamFields DEF High

LEMMA HighGrows ==
    ASSUME NEW r \in Stream, NEW q \in Stream, r.low =< q.low
    PROVE  High(r) =< High(q)
BY SizeAssumption, StreamFields DEF High

LEMMA HighSame ==
    ASSUME NEW r, NEW q, r.low = q.low
    PROVE  High(r) = High(q)
BY DEF High

\* The state of a sender to which START is sent.
LEMMA StartingFields ==
    ASSUME NEW r \in Stream, NEW s \in Sender, NEW t, t = Starting(r, s)
    PROVE  /\ t \in Sender
           /\ t.conn = "CONNECTING" /\ t.current = s.current
           /\ t.next = r.next /\ t.gap = "NONE" /\ t.slot = 0 /\ t.ur = 0
           /\ t.high = High(r) /\ t.start.lsn = r.next /\ t.start.scd = (r.mode = "SCD")
<1>1. PICK b \in BOOLEAN : b = ScdActive(r)
  BY DEF ScdActive
<1>2. PICK m : m = [lsn |-> r.next, scd |-> b, down |-> r.down]
  OBVIOUS
<1>3. m \in StartMessage
  BY <1>2, StreamFields DEF StartMessage
<1>4. PICK h \in Nat : h = High(r)
  BY HighType
<1>5. t = [s EXCEPT !.next = r.next, !.gap = "NONE", !.slot = 0, !.ur = 0,
                    !.sentRecord = FALSE, !.strikes = 0, !.conn = "CONNECTING",
                    !.high = h, !.start = m]
  BY <1>1, <1>2, <1>4 DEF Starting, ResetGapParameters, Sender
<1>6. PICK x \in Nat : x = r.next
  BY StreamFields
<1>7. t \in Sender
  <2>1. PICK u : u = ResetGapParameters(s)
    OBVIOUS
  <2>2. u \in Sender
    BY <2>1 DEF ResetGapParameters, Sender
  <2>3. t = [u EXCEPT !.next = x, !.conn = "CONNECTING", !.high = h, !.start = m]
    BY <1>1, <1>2, <1>4, <1>6, <2>1 DEF Starting
  <2>4. QED
    BY <1>3, <2>2, <2>3 DEF Sender
<1>8. /\ t.conn = "CONNECTING" /\ t.current = s.current
      /\ t.next = r.next /\ t.gap = "NONE" /\ t.slot = 0 /\ t.ur = 0
      /\ t.high = h /\ t.start = m
  BY <1>5 DEF Sender
<1>9. QED
  BY <1>1, <1>2, <1>4, <1>7, <1>8 DEF ScdActive

LEMMA SendWindowFields ==
    ASSUME NEW r \in Stream, NEW s \in Sender, NEW t, t = SendWindow(r, s)
    PROVE  /\ t \in Sender /\ SameSession(s, t)
           /\ t.ur = s.ur /\ t.gap = s.gap /\ t.slot = s.slot
           /\ t.high = High(r) \/ t.high = s.high
<1>1. PICK h \in Nat : h = High(r)
  BY HighType
<1>2. t = s \/ t = [s EXCEPT !.high = h]
  BY <1>1 DEF SendWindow
<1>3. QED
  BY <1>1, <1>2 DEF Sender, SameSession

LEMMA ConnectionFailureFields ==
    ASSUME NEW r \in Stream, NEW n \in Shards, NEW q, q = OnConnectionFailure(r, n)
    PROVE  /\ q \in Stream /\ SameBuffer(r, q) /\ SameMode(r, q) /\ q.loop = r.loop
           /\ \A m \in Shards : m # n => q.snd[m] = r.snd[m]
           /\ SameLink(r.snd[n], q.snd[n])
           /\ q.snd[n].current = r.snd[n].current /\ q.snd[n].start = r.snd[n].start
           /\ q.snd[n].conn = r.snd[n].conn \/ q.snd[n].conn = "RECONNECT_PENDING"
<1>1. CASE q = AddToShardsDown(r, n)
  BY <1>1, AddToShardsDownAlike DEF Alike, SameLink
<1>2. CASE q = WithSender(r, n, [r.snd[n] EXCEPT !.conn = "RECONNECT_PENDING"])
  <2>1. PICK s : s = [r.snd[n] EXCEPT !.conn = "RECONNECT_PENDING"]
    OBVIOUS
  <2>2. r.snd[n] \in Sender
    BY SenderOf
  <2>3. /\ s \in Sender /\ SameLink(r.snd[n], s) /\ s.current = r.snd[n].current
        /\ s.start = r.snd[n].start /\ s.conn = "RECONNECT_PENDING"
    BY <2>1, <2>2 DEF Sender, SameLink
  <2>4. /\ q \in Stream /\ SameBuffer(r, q) /\ SameMode(r, q) /\ q.loop = r.loop
        /\ q.snd[n] = s /\ \A m \in Shards : m # n => q.snd[m] = r.snd[m]
    BY <1>2, <2>1, <2>3, WithSenderFields
  <2>5. QED
    BY <2>3, <2>4
<1>3. QED
  BY <1>1, <1>2 DEF OnConnectionFailure

-----------------------------------------------------------------------------
(* updateGapState().                                                       *)

LEMMA AheadFields ==
    ASSUME NEW r \in Stream, NEW s \in Sender, NEW l \in Nat, NEW t, t = Ahead(r, s, l)
    PROVE  /\ t \in Sender
           /\ t.current = s.current /\ t.conn = s.conn /\ t.start = s.start
           /\ t.high = s.high /\ t.ur = s.ur /\ t.next = l
           /\ t.gap = IF r.next < s.ur THEN "UNDER" ELSE "GAP"
           /\ t.slot = IF s.gap = "NONE" /\ Transition(r, s, l) =< High(r)
                       THEN Transition(r, s, l) ELSE s.slot
<1>1. PICK gap \in GapStates : gap = IF r.next < s.ur THEN "UNDER" ELSE "GAP"
  BY DEF GapStates
<1>2. PICK d \in BOOLEAN : d = (s.urDown /\ r.next < s.ur)
  OBVIOUS
<1>3. Transition(r, s, l) \in Nat
  BY DEF Transition, Sender
<1>4. PICK slot \in Nat : slot = IF s.gap = "NONE" /\ Transition(r, s, l) =< High(r)
                                 THEN Transition(r, s, l) ELSE s.slot
  BY <1>3 DEF Sender
<1>5. t = [s EXCEPT !.next = l, !.gap = gap, !.urDown = d, !.slot = slot]
  BY <1>1, <1>2, <1>4 DEF Ahead
<1>6. QED
  BY <1>1, <1>4, <1>5 DEF Sender, GapStates

LEMMA UpdateGapStateFields ==
    ASSUME NEW r \in Stream, NEW n \in Shards, NEW l \in Nat,
           NEW q, q = UpdateGapState(r, n, l),
           NEW s, s = r.snd[n], NEW t, t = q.snd[n]
    PROVE  /\ q \in Stream
           /\ q.next = r.next /\ q.low = r.low /\ q.recs = r.recs /\ q.trim = r.trim
           /\ SameMode(r, q) /\ q.loop = r.loop
           /\ \A m \in Shards : m # n => q.snd[m] = r.snd[m]
           /\ t.current = s.current /\ t.conn = s.conn /\ t.start = s.start
           /\ t.high = s.high /\ t.ur = s.ur
           /\ l < s.next => q = r
           /\ (s.next =< l /\ l =< r.next) =>
                /\ t.next = l /\ t.gap = s.gap /\ t.slot = s.slot
                /\ q.marks = r.marks /\ q.gapOut = r.gapOut
           /\ (s.next =< l /\ l > r.next) =>
                /\ t.next = l /\ t.gap = IF r.next < s.ur THEN "UNDER" ELSE "GAP"
                /\ t.slot = IF s.gap = "NONE" /\ Transition(r, s, l) =< High(r)
                            THEN Transition(r, s, l) ELSE s.slot
                /\ q.marks = r.marks \cup ({Transition(r, s, l)} \cap 1..High(r))
                /\ q.gapOut = IF l > High(r) /\ (r.gapOut = 0 \/ l < r.gapOut)
                              THEN l ELSE r.gapOut
<1>1. s \in Sender /\ s.next \in Nat
  BY SenderOf
<1>2. CASE l < s.next
  <2>1. q = r
    BY <1>2 DEF UpdateGapState
  <2>2. QED
    BY <1>1, <1>2, <2>1 DEF SameMode
<1>3. CASE s.next =< l /\ l =< r.next
  <2>1. PICK u : u = [s EXCEPT !.next = l]
    OBVIOUS
  <2>2. /\ u \in Sender /\ u.current = s.current /\ u.conn = s.conn /\ u.start = s.start
        /\ u.high = s.high /\ u.ur = s.ur /\ u.next = l /\ u.gap = s.gap /\ u.slot = s.slot
    BY <1>1, <2>1 DEF Sender
  <2>3. q = WithSender(r, n, u)
    BY <1>1, <1>3, <2>1 DEF UpdateGapState
  <2>4. /\ q \in Stream /\ q.snd[n] = u /\ \A m \in Shards : m # n => q.snd[m] = r.snd[m]
        /\ SameBuffer(r, q) /\ SameMode(r, q) /\ q.loop = r.loop
    BY <2>2, <2>3, WithSenderFields
  <2>5. q.next = r.next /\ q.low = r.low /\ q.recs = r.recs /\ q.trim = r.trim
        /\ q.marks = r.marks /\ q.gapOut = r.gapOut
    BY <2>4 DEF SameBuffer
  <2>6. ~(l < s.next) /\ ~(l > r.next)
    BY <1>1, <1>3, StreamFields
  <2>7. QED
    BY <2>2, <2>4, <2>5, <2>6
<1>4. CASE s.next =< l /\ l > r.next
  <2>1. PICK u : u = Ahead(r, s, l)
    OBVIOUS
  <2>2. /\ u \in Sender /\ u.current = s.current /\ u.conn = s.conn /\ u.start = s.start
        /\ u.high = s.high /\ u.ur = s.ur /\ u.next = l
        /\ u.gap = IF r.next < s.ur THEN "UNDER" ELSE "GAP"
        /\ u.slot = IF s.gap = "NONE" /\ Transition(r, s, l) =< High(r)
                    THEN Transition(r, s, l) ELSE s.slot
    BY <1>1, <2>1, AheadFields
  <2>3. PICK w : w = WithSender(r, n, u)
    OBVIOUS
  <2>4. /\ w \in Stream /\ w.snd[n] = u /\ \A m \in Shards : m # n => w.snd[m] = r.snd[m]
        /\ SameBuffer(r, w) /\ SameMode(r, w) /\ w.loop = r.loop
    BY <2>2, <2>3, WithSenderFields
  <2>5. PICK M \in SUBSET Nat : M = r.marks \cup ({Transition(r, s, l)} \cap 1..High(r))
    <3>1. 1..High(r) \subseteq Nat
      BY HighType
    <3>2. QED
      BY <3>1, StreamFields
  <2>6. PICK g \in Nat : g = IF l > High(r) /\ (r.gapOut = 0 \/ l < r.gapOut)
                             THEN l ELSE r.gapOut
    BY StreamFields
  <2>7. q = [w EXCEPT !.marks = M, !.gapOut = g]
    <3>1. w.marks = r.marks /\ w.gapOut = r.gapOut
      BY <2>4 DEF SameBuffer
    <3>2. q = [w EXCEPT !.marks = @ \cup ({Transition(r, s, l)} \cap 1..High(r)),
                !.gapOut = IF l > High(r) /\ (@ = 0 \/ l < @) THEN l ELSE @]
      BY <1>1, <1>4, <2>1, <2>3, StreamFields DEF UpdateGapState
    <3>3. QED
      BY <2>5, <2>6, <3>1, <3>2
  <2>8. /\ q \in Stream /\ q.snd = w.snd /\ q.marks = M /\ q.gapOut = g
        /\ q.next = w.next /\ q.low = w.low /\ q.recs = w.recs /\ q.trim = w.trim
        /\ SameMode(w, q) /\ q.loop = w.loop
    BY <2>4, <2>7 DEF Stream, SameMode
  <2>9. /\ q.next = r.next /\ q.low = r.low /\ q.recs = r.recs /\ q.trim = r.trim
        /\ SameMode(r, q) /\ q.loop = r.loop
    BY <2>4, <2>8 DEF SameBuffer, SameMode
  <2>10. t = u /\ \A m \in Shards : m # n => q.snd[m] = r.snd[m]
    BY <2>4, <2>8
  <2>11. ~(l < s.next) /\ ~(l =< r.next)
    BY <1>1, <1>4, StreamFields
  <2>12. QED
    BY <2>2, <2>5, <2>6, <2>8, <2>9, <2>10, <2>11
<1>5. QED
  BY <1>1, <1>2, <1>3, <1>4, StreamFields

LEMMA UpdateGapStateInv ==
    ASSUME NEW r \in Stream, NEW n \in Shards, NEW l \in 1..MaxLsn + 1,
           NEW s, s = r.snd[n], NEW u \in Nat,
           Window(r), \A m \in Shards : m # n => Link(r, r.snd[m]),
           LinkAt(r.next, High(r), r.marks, r.gapOut, s.next, u, s.gap, s.slot),
           s.high =< High(r), s.ur = u \/ s.ur = Larger(u, l),
           l < s.next => s.ur = u \/ s.next =< r.next,
           NEW q, q = UpdateGapState(r, n, l)
    PROVE  /\ Window(q) /\ Linked(q)
           /\ \A m \in Shards : q.snd[m].slot = q.next => r.snd[m].slot = r.next
<1>0. /\ l \in Nat /\ l =< MaxLsn + 1 /\ MaxLsn \in Nat
      /\ r.next \in Nat \ {0} /\ High(r) \in Nat /\ High(r) =< MaxLsn
      /\ r.marks \subseteq r.next..High(r) /\ r.gapOut \in Nat
      /\ s.next \in Nat /\ s.gap \in GapStates /\ s.slot \in Nat /\ s.ur \in Nat
  BY SizeAssumption, StreamFields, HighType, SenderOf DEF Window
<1>1. PICK t : t = q.snd[n]
  OBVIOUS
<1>2. q \in Stream /\ q.next = r.next /\ q.low = r.low /\ q.recs = r.recs /\ q.trim = r.trim
  BY <1>0, UpdateGapStateFields
<1>3. \A m \in Shards : m # n => q.snd[m] = r.snd[m]
  BY <1>0, UpdateGapStateFields
<1>4. t.high = s.high /\ t.ur = s.ur
  BY <1>0, <1>1, UpdateGapStateFields
<1>5. High(q) = High(r)
  BY <1>2, HighSame
<1>6. CASE l < s.next
  <2>1. q = r
    BY <1>0, <1>6, UpdateGapStateFields
  <2>2. LinkAt(r.next, High(r), r.marks, r.gapOut, s.next, s.ur, s.gap, s.slot)
    BY <1>0, <1>6, LinkBelow
  <2>3. Linked(q)
    BY <1>1, <2>1, <2>2 DEF Link, Linked
  <2>4. QED
    BY <2>1, <2>3
<1>7. CASE s.next =< l /\ l =< r.next
  <2>1. t.next = l /\ t.gap = s.gap /\ t.slot = s.slot
        /\ q.marks = r.marks /\ q.gapOut = r.gapOut
    BY <1>0, <1>1, <1>7, UpdateGapStateFields
  <2>2. LinkAt(r.next, High(r), r.marks, r.gapOut, l, s.ur, s.gap, s.slot)
    BY <1>0, <1>7, LinkBelow
  <2>3. Link(q, t)
    BY <1>2, <1>4, <1>5, <2>1, <2>2 DEF Link
  <2>4. \A m \in Shards : m # n => Link(q, q.snd[m])
    BY <1>2, <1>3, <1>5, <2>1 DEF Link
  <2>5. Window(q)
    BY <1>2, <1>5, <2>1 DEF Window
  <2>6. QED
    BY <1>1, <1>2, <1>3, <2>1, <2>3, <2>4, <2>5 DEF Linked
<1>8. CASE s.next =< l /\ l > r.next
  <2>1. PICK x : x = Transition(r, s, l)
    OBVIOUS
  <2>2. x \in Nat /\ x > r.next /\ x = Turn(r.next, s.ur, l)
    BY <1>0, <1>8, <2>1 DEF Transition, Turn
  <2>3. /\ t.next = l /\ t.gap = IF r.next < s.ur THEN "UNDER" ELSE "GAP"
        /\ t.slot = IF s.gap = "NONE" /\ x =< High(r) THEN x ELSE s.slot
        /\ q.marks = r.marks \cup ({x} \cap 1..High(r))
        /\ q.gapOut = IF l > High(r) /\ (r.gapOut = 0 \/ l < r.gapOut)
                      THEN l ELSE r.gapOut
    BY <1>0, <1>1, <1>8, <2>1, UpdateGapStateFields
  <2>4. q.gapOut \in Nat
    BY <1>2, StreamFields
  <2>5. LinkAt(r.next, High(r), q.marks, q.gapOut, l, s.ur, t.gap, t.slot)
    <3>1. l >= s.next
      BY <1>0, <1>8
    <3>2. /\ q.marks = r.marks \cup ({Turn(r.next, s.ur, l)} \cap 1..High(r))
          /\ t.slot = IF s.gap = "NONE" /\ Turn(r.next, s.ur, l) =< High(r)
                      THEN Turn(r.next, s.ur, l) ELSE s.slot
      BY <2>2, <2>3
    <3>3. l > r.next
      BY <1>8
    <3>4. LinkAt(r.next, High(r), r.marks \cup ({Turn(r.next, s.ur, l)} \cap 1..High(r)),
                 IF l > High(r) /\ (r.gapOut = 0 \/ l < r.gapOut) THEN l ELSE r.gapOut,
                 l, s.ur, IF r.next < s.ur THEN "UNDER" ELSE "GAP",
                 IF s.gap = "NONE" /\ Turn(r.next, s.ur, l) =< High(r)
                 THEN Turn(r.next, s.ur, l) ELSE s.slot)
      BY <1>0, <3>1, <3>3, LinkAhead
    <3>5. QED
      BY <2>3, <3>2, <3>4
  <2>6. Link(q, t)
    BY <1>2, <1>4, <1>5, <2>3, <2>5 DEF Link
  <2>7. ASSUME NEW m \in Shards, m # n PROVE Link(q, q.snd[m])
    <3>1. PICK v : v = r.snd[m]
      OBVIOUS
    <3>2. v.next \in Nat /\ v.gap \in GapStates /\ v.slot \in Nat /\ v.ur \in Nat
      BY <3>1, SenderOf
    <3>3. LinkAt(r.next, High(r), r.marks, r.gapOut, v.next, v.ur, v.gap, v.slot)
          /\ v.high =< High(r)
      BY <2>7, <3>1 DEF Link
    <3>4. r.marks \subseteq q.marks /\ (r.gapOut # 0 => q.gapOut \in 1..r.gapOut)
      BY <1>0, <2>3
    <3>5. LinkAt(r.next, High(r), q.marks, q.gapOut, v.next, v.ur, v.gap, v.slot)
      BY <1>0, <2>4, <3>2, <3>3, <3>4, LinkOthers
    <3>6. QED
      BY <1>2, <1>3, <1>5, <2>7, <3>1, <3>3, <3>5 DEF Link
  <2>8. Window(q)
    <3>1. q.marks \subseteq q.next..High(q)
      BY <1>0, <1>2, <1>5, <2>2, <2>3
    <3>2. q.gapOut = 0 \/ q.gapOut \in High(q) + 1..MaxLsn + 1
      BY <1>0, <1>5, <2>3 DEF Window
    <3>3. QED
      BY <1>2, <1>5, <3>1, <3>2 DEF Window
  <2>9. t.slot = r.next => s.slot = r.next
    BY <1>0, <2>2, <2>3
  <2>10. QED
    BY <1>1, <1>2, <1>3, <2>6, <2>7, <2>8, <2>9 DEF Linked
<1>9. QED
  BY <1>0, <1>6, <1>7, <1>8

-----------------------------------------------------------------------------
(* unlinkRecordState().                                                    *)

LEMMA MovedFields ==
    ASSUME NEW r \in Stream, NEW s \in Sender, NEW hi \in Nat, NEW t, t = Moved(r, s, hi)
    PROVE  /\ t \in Sender /\ SameSession(s, t) /\ t.high = s.high /\ t.ur = s.ur
           /\ t.gap = IF s.next =< hi THEN "NONE" ELSE IF hi < s.ur THEN "UNDER" ELSE "GAP"
           /\ t.slot = IF NextMarker(s, hi) =< High(r) THEN NextMarker(s, hi) ELSE 0
           /\ NextMarker(s, hi) \in Nat /\ (NextMarker(s, hi) # 0 => NextMarker(s, hi) > hi)
<1>1. PICK gap \in GapStates : gap = IF s.next =< hi THEN "NONE"
                                     ELSE IF hi < s.ur THEN "UNDER" ELSE "GAP"
  BY DEF GapStates
<1>2. PICK d \in BOOLEAN : d = (s.urDown /\ (s.next =< hi \/ hi < s.ur))
  OBVIOUS
<1>3. NextMarker(s, hi) \in Nat /\ (NextMarker(s, hi) # 0 => NextMarker(s, hi) > hi)
  BY DEF NextMarker, Sender
<1>4. PICK slot \in Nat : slot = IF NextMarker(s, hi) =< High(r) THEN NextMarker(s, hi) ELSE 0
  BY <1>3
<1>5. t = [s EXCEPT !.gap = gap, !.urDown = d, !.slot = slot]
  BY <1>1, <1>2, <1>4 DEF Moved
<1>6. QED
  BY <1>1, <1>3, <1>4, <1>5 DEF Sender, GapStates, SameSession

LEMMA UnlinkFields ==
    ASSUME NEW r \in Stream, NEW hi \in Nat, NEW q, q = Unlink(r, hi)
    PROVE  /\ q \in Stream
           /\ q.next = r.next /\ q.low = r.low /\ q.recs = r.recs /\ q.trim = r.trim
           /\ q.gapOut = r.gapOut /\ SameMode(r, q) /\ q.loop = r.loop
           /\ \A n \in Shards : r.snd[n].slot \notin 1..hi => q.snd[n] = r.snd[n]
           /\ \A n \in Shards : r.snd[n].slot \in 1..hi =>
                /\ q.snd[n] = Moved(r, r.snd[n], hi)
                /\ q.snd[n].slot # 0 => q.snd[n].slot > hi /\ q.snd[n].slot \in q.marks
           /\ \A n \in Shards : SameSession(r.snd[n], q.snd[n])
           /\ r.marks \subseteq q.marks
           /\ \A m \in q.marks : m \in r.marks \/ (m > hi /\ m =< High(r))
<1> DEFINE moved == {n \in Shards : r.snd[n].slot \in 1..hi}
           snd == [n \in Shards |-> IF n \in moved THEN Moved(r, r.snd[n], hi)
                                                   ELSE r.snd[n]]
           new == {NextMarker(r.snd[n], hi) : n \in moved} \cap 1..High(r)
<1>1. \A n \in Shards : r.snd[n] \in Sender
  BY SenderOf
<1>2. \A n \in Shards : snd[n] \in Sender /\ SameSession(r.snd[n], snd[n])
  <2> SUFFICES ASSUME NEW n \in Shards
               PROVE  snd[n] \in Sender /\ SameSession(r.snd[n], snd[n])
    OBVIOUS
  <2>1. CASE n \in moved
    <3>1. snd[n] = Moved(r, r.snd[n], hi)
      BY <2>1
    <3> HIDE DEF snd
    <3>2. QED
      BY <1>1, <3>1, MovedFields
  <2>2. CASE n \notin moved
    BY <1>1, <2>2 DEF SameSession
  <2>3. QED
    BY <2>1, <2>2
<1>3. High(r) \in Nat /\ \A m \in new : m \in 1..High(r) /\ m > hi
  <2>1. ASSUME NEW n \in moved PROVE NextMarker(r.snd[n], hi) # 0 => NextMarker(r.snd[n], hi) > hi
    BY <1>1, MovedFields
  <2>2. \A m \in new : m # 0
    BY HighType
  <2>3. QED
    BY <2>1, <2>2, HighType
<1>4. new \subseteq Nat
  BY <1>3
<1>5. snd \in [Shards -> Sender]
  BY <1>2
<1>6. q = [r EXCEPT !.snd = snd, !.marks = @ \cup new]
  BY DEF Unlink
<1>7. \A n \in Shards : r.snd[n].slot \notin 1..hi => snd[n] = r.snd[n]
  OBVIOUS
<1>8. \A n \in Shards : r.snd[n].slot \in 1..hi => snd[n] = Moved(r, r.snd[n], hi)
  OBVIOUS
<1>9. ASSUME NEW n \in Shards, r.snd[n].slot \in 1..hi, snd[n].slot # 0
      PROVE  snd[n].slot > hi /\ snd[n].slot \in new
  <2>1. PICK s : s = r.snd[n]
    OBVIOUS
  <2>2. PICK k : k = NextMarker(s, hi)
    OBVIOUS
  <2>3. n \in moved
    BY <1>9
  <2>4. snd[n] = Moved(r, s, hi)
    BY <1>8, <1>9, <2>1
  <2>5. k \in {NextMarker(r.snd[m], hi) : m \in moved}
    BY <2>1, <2>2, <2>3
  <2> HIDE DEF snd, moved
  <2>6. snd[n].slot = (IF k =< High(r) THEN k ELSE 0) /\ k \in Nat /\ (k # 0 => k > hi)
    <3>1. PICK t : t = Moved(r, s, hi)
      OBVIOUS
    <3>2. s \in Sender
      BY <1>1, <2>1
    <3>3. /\ t.slot = IF NextMarker(s, hi) =< High(r) THEN NextMarker(s, hi) ELSE 0
          /\ NextMarker(s, hi) \in Nat /\ (NextMarker(s, hi) # 0 => NextMarker(s, hi) > hi)
      BY <3>1, <3>2, MovedFields
    <3>4. snd[n].slot = t.slot
      BY <2>4, <3>1
    <3>5. QED
      BY <2>2, <3>3, <3>4
  <2>7. QED
    BY <1>9, <2>5, <2>6, <1>3
<1> HIDE DEF snd, new
<1>10. /\ q \in Stream
       /\ q.next = r.next /\ q.low = r.low /\ q.recs = r.recs /\ q.trim = r.trim
       /\ q.gapOut = r.gapOut /\ SameMode(r, q) /\ q.loop = r.loop
       /\ q.snd = snd /\ q.marks = r.marks \cup new
  BY <1>4, <1>5, <1>6 DEF Stream, SameMode
<1>11. \A m \in q.marks : m \in r.marks \/ (m > hi /\ m =< High(r))
  BY <1>3, <1>10
<1>12. QED
  BY <1>2, <1>7, <1>8, <1>9, <1>10, <1>11

\* A stream p that has gone behind hi.
LEMMA UnlinkInv ==
    ASSUME NEW r \in Stream, Window(r), Linked(r),
           NEW hi \in Nat, r.next =< hi, NEW q, q = Unlink(r, hi),
           NEW p \in Stream, p.snd = q.snd, p.low = r.low, p.gapOut = r.gapOut,
           p.next = hi + 1 \/ (p.next = hi /\ r.next = hi),
           \A m \in q.marks : m > hi => m \in p.marks
    PROVE  Linked(p) /\ \A n \in Shards : p.snd[n].slot = p.next => p.next = hi + 1
<1> SUFFICES ASSUME NEW n \in Shards
             PROVE  Link(p, p.snd[n]) /\ (p.snd[n].slot = p.next => p.next = hi + 1)
  BY DEF Linked
<1>0. /\ r.next \in Nat \ {0} /\ p.next \in Nat /\ High(r) \in Nat /\ r.gapOut \in Nat
      /\ r.marks \subseteq r.next..High(r) /\ High(p) = High(r)
  BY StreamFields, HighType, HighSame DEF Window
<1>1. PICK s : s = r.snd[n]
  OBVIOUS
<1>2. PICK t : t = p.snd[n]
  OBVIOUS
<1>3. /\ s \in Sender /\ s.next \in Nat /\ s.ur \in Nat /\ s.gap \in GapStates
      /\ s.slot \in Nat
  BY <1>1, SenderOf
<1>4. /\ LinkAt(r.next, High(r), r.marks, r.gapOut, s.next, s.ur, s.gap, s.slot)
      /\ s.high =< High(r)
  BY <1>1 DEF Linked, Link
<1>5. CASE s.slot \in 1..hi
  <2>1. t = Moved(r, s, hi)
    BY <1>1, <1>2, <1>5, UnlinkFields
  <2>2. t.slot # 0 => t.slot > hi /\ t.slot \in q.marks
    BY <1>1, <1>2, <1>5, UnlinkFields
  <2>3. PICK k \in Nat : k = IF s.next =< hi THEN 0 ELSE IF hi < s.ur THEN s.ur ELSE s.next
    BY <1>3
  <2>4. /\ t.next = s.next /\ t.high = s.high /\ t.ur = s.ur
        /\ t.gap = IF s.next =< hi THEN "NONE" ELSE IF hi < s.ur THEN "UNDER" ELSE "GAP"
        /\ t.slot = IF k =< High(r) THEN k ELSE 0
    <3>1. k = NextMarker(s, hi)
      BY <2>3 DEF NextMarker
    <3>2. /\ SameSession(s, t) /\ t.high = s.high /\ t.ur = s.ur
          /\ t.gap = IF s.next =< hi THEN "NONE" ELSE IF hi < s.ur THEN "UNDER" ELSE "GAP"
          /\ t.slot = IF NextMarker(s, hi) =< High(r) THEN NextMarker(s, hi) ELSE 0
      <4>1. SameSession(s, Moved(r, s, hi))
        BY <1>3, MovedFields
      <4>2. Moved(r, s, hi).high = s.high
        BY <1>3, MovedFields
      <4>3. Moved(r, s, hi).ur = s.ur
        BY <1>3, MovedFields
      <4>4. Moved(r, s, hi).gap = IF s.next =< hi THEN "NONE"
                                  ELSE IF hi < s.ur THEN "UNDER" ELSE "GAP"
        BY <1>3, MovedFields
      <4>5. Moved(r, s, hi).slot = IF NextMarker(s, hi) =< High(r)
                                   THEN NextMarker(s, hi) ELSE 0
        BY <1>3, MovedFields
      <4>6. QED
        BY <2>1, <4>1, <4>2, <4>3, <4>4, <4>5
    <3>3. QED
      BY <3>1, <3>2 DEF SameSession
  <2>5. LinkAt(p.next, High(r), p.marks, r.gapOut, s.next, s.ur, t.gap, t.slot)
    <3>1. t.slot # 0 => t.slot \in p.marks
      BY <2>2
    <3>2. QED
      BY <1>0, <1>3, <1>4, <2>3, <2>4, <3>1, LinkMoved
  <2>6. Link(p, t)
    BY <1>0, <1>4, <2>4, <2>5 DEF Link
  <2>7. QED
    BY <1>0, <1>2, <2>2, <2>6
<1>6. CASE s.slot \notin 1..hi
  <2>1. t = s
    BY <1>1, <1>2, <1>6, UnlinkFields
  <2>2. s.slot = 0 \/ s.slot > hi
    BY <1>3, <1>6
  <2>3. s.slot # 0 => s.slot \in p.marks
    <3>1. s.slot # 0 => s.slot \in r.marks
      BY <1>4 DEF LinkAt
    <3>2. r.marks \subseteq q.marks
      BY UnlinkFields
    <3>3. QED
      BY <2>2, <3>1, <3>2
  <2>4. s.slot = 0 \/ s.slot >= p.next
    BY <1>0, <1>3, <2>2
  <2>5. LinkAt(p.next, High(r), p.marks, r.gapOut, s.next, s.ur, s.gap, s.slot)
    BY <1>0, <1>3, <1>4, <2>3, <2>4, LinkKept
  <2>6. Link(p, t)
    BY <1>0, <1>4, <2>1, <2>5 DEF Link
  <2>7. QED
    BY <1>0, <1>2, <2>1, <2>2, <2>6
<1>7. QED
  BY <1>5, <1>6

-----------------------------------------------------------------------------
(* slideSenderWindows().                                                   *)

LEMMA MinIsLeast ==
    ASSUME NEW S, S \subseteq Nat, S # {}
    PROVE  Min(S) \in S /\ \A y \in S : Min(S) =< y
BY LeastNatural DEF Min

LEMMA Min0IsLeast ==
    ASSUME NEW S, S \subseteq Nat, 0 \notin S
    PROVE  /\ Min0(S) \in Nat
           /\ Min0(S) = 0 <=> S = {}
           /\ Min0(S) # 0 => Min0(S) \in S
           /\ \A y \in S : Min0(S) \in 1..y
<1>1. CASE S = {}
  BY <1>1 DEF Min0
<1>2. CASE S # {}
  <2>1. Min0(S) \in S /\ \A y \in S : Min0(S) =< y
    BY <1>2, MinIsLeast DEF Min0
  <2>2. PICK m : m = Min0(S)
    OBVIOUS
  <2>3. m \in S /\ m \in Nat /\ m # 0 /\ \A y \in S : m =< y /\ y \in Nat
    BY <2>1, <2>2
  <2>4. \A y \in S : m \in 1..y
    BY <2>3
  <2>5. QED
    BY <1>2, <2>2, <2>3, <2>4
<1>3. QED
  BY <1>1, <1>2

LEMMA RebuiltFields ==
    ASSUME NEW r \in Stream, NEW s \in Sender, NEW t, t = Rebuilt(r, s)
    PROVE  /\ t \in Sender /\ SameSession(s, t) /\ t.ur = s.ur /\ t.high = s.high
           /\ s.next =< r.next => t.gap = "NONE" /\ t.slot = 0
           /\ s.next > r.next =>
                /\ t.gap = IF r.next < s.ur THEN "UNDER" ELSE "GAP"
                /\ t.slot = IF Turn(r.next, s.ur, s.next) =< High(r)
                            THEN Turn(r.next, s.ur, s.next) ELSE 0
<1>1. PICK u : u = [s EXCEPT !.gap = "NONE", !.slot = 0]
  OBVIOUS
<1>2. /\ u \in Sender /\ u.current = s.current /\ u.conn = s.conn /\ u.start = s.start
      /\ u.high = s.high /\ u.ur = s.ur /\ u.next = s.next /\ u.gap = "NONE" /\ u.slot = 0
  BY <1>1 DEF Sender
<1>3. s.next \in Nat /\ r.next \in Nat
  BY StreamFields DEF Sender
<1>4. CASE s.next =< r.next
  <2>1. t = u
    BY <1>1, <1>4 DEF Rebuilt
  <2>2. QED
    BY <1>2, <1>3, <1>4, <2>1 DEF SameSession
<1>5. CASE s.next > r.next
  <2>1. t = Ahead(r, u, s.next)
    BY <1>1, <1>3, <1>5 DEF Rebuilt
  <2>2. Transition(r, u, s.next) = Turn(r.next, s.ur, s.next)
    BY <1>2 DEF Transition, Turn
  <2>3. /\ t \in Sender
        /\ t.current = u.current /\ t.conn = u.conn /\ t.start = u.start
        /\ t.high = u.high /\ t.ur = u.ur /\ t.next = s.next
        /\ t.gap = IF r.next < u.ur THEN "UNDER" ELSE "GAP"
        /\ t.slot = IF u.gap = "NONE" /\ Transition(r, u, s.next) =< High(r)
                    THEN Transition(r, u, s.next) ELSE u.slot
    BY <1>2, <1>3, <2>1, AheadFields
  <2>4. QED
    BY <1>2, <1>3, <1>5, <2>2, <2>3 DEF SameSession
<1>6. QED
  BY <1>3, <1>4, <1>5

LEMMA SlideInv ==
    ASSUME NEW r \in Stream, Window(r), Linked(r), ~Done(r),
           NEW q, q = SlideSenderWindows(r)
    PROVE  /\ q \in Stream
           /\ q.next = r.next /\ q.recs = r.recs /\ q.trim = r.trim
           /\ SameMode(r, q) /\ q.loop = r.loop
           /\ \A n \in Shards : SameSession(r.snd[n], q.snd[n])
           /\ Window(q) /\ Linked(q) /\ High(r) =< High(q)
           /\ \A n \in Shards : q.snd[n].slot # q.next
           /\ q.next =< High(q) /\ q.low = r.next
<1>0. /\ MaxLsn \in Nat /\ r.next \in 1..MaxLsn /\ r.next \in Nat /\ r.low =< r.next
      /\ r.marks \subseteq Nat /\ r.recs \subseteq Nat /\ r.trim \in Nat
      /\ r.trim =< MaxLsn
      /\ r.recs \subseteq r.next..High(r) /\ r.marks \subseteq r.next..High(r)
  BY SizeAssumption, StreamFields DEF Window, Done
<1> DEFINE moved == [r EXCEPT !.low = r.next, !.gapOut = 0]
           ahead == {n \in Shards : r.snd[n].next > r.next}
           snd == [n \in Shards |-> Rebuilt(moved, SendWindow(moved, r.snd[n]))]
           turns == {Transition(r, r.snd[n], r.snd[n].next) : n \in ahead} \cap 1..High(moved)
           ends == {r.snd[n].next : n \in ahead} \ 1..High(moved)
<1>1. /\ moved \in Stream /\ moved.next = r.next /\ moved.low = r.next
      /\ moved.recs = r.recs /\ moved.marks = r.marks /\ moved.trim = r.trim
      /\ moved.snd = r.snd /\ SameMode(r, moved) /\ moved.loop = r.loop
  BY <1>0 DEF Stream, SameMode
<1>2. PICK h \in Nat : h = High(moved)
  <2> HIDE DEF moved
  <2>1. QED
    BY <1>1, HighType
<1>3. High(r) \in Nat /\ High(r) =< h /\ h =< MaxLsn /\ r.next =< h
  <2> HIDE DEF moved
  <2>1. QED
    BY <1>0, <1>1, <1>2, HighType, HighGrows
<1>4. ASSUME NEW n \in Shards
      PROVE  /\ snd[n] \in Sender /\ SameSession(r.snd[n], snd[n])
             /\ snd[n].ur = r.snd[n].ur /\ snd[n].high =< h
             /\ r.snd[n].next =< r.next => snd[n].gap = "NONE" /\ snd[n].slot = 0
             /\ r.snd[n].next > r.next =>
                /\ snd[n].gap = IF r.next < r.snd[n].ur THEN "UNDER" ELSE "GAP"
                /\ snd[n].slot = IF Turn(r.next, r.snd[n].ur, r.snd[n].next) =< h
                                 THEN Turn(r.next, r.snd[n].ur, r.snd[n].next) ELSE 0
  <2>1. PICK s : s = r.snd[n]
    OBVIOUS
  <2>2. PICK w : w = SendWindow(moved, s)
    OBVIOUS
  <2>3. PICK t : t = Rebuilt(moved, w)
    OBVIOUS
  <2>4. snd[n] = t
    BY <2>1, <2>2, <2>3
  <2>5. s \in Sender /\ s.high \in Nat /\ s.high =< High(r)
    BY <2>1, SenderOf DEF Linked, Link
  <2> HIDE DEF moved, snd
  <2>6. /\ w \in Sender /\ SameSession(s, w)
        /\ w.ur = s.ur /\ w.gap = s.gap /\ w.slot = s.slot
        /\ w.high = h \/ w.high = s.high
    BY <1>1, <1>2, <2>2, <2>5, SendWindowFields
  <2>7. /\ t \in Sender /\ SameSession(w, t) /\ t.ur = w.ur /\ t.high = w.high
        /\ w.next =< r.next => t.gap = "NONE" /\ t.slot = 0
        /\ w.next > r.next =>
             /\ t.gap = IF r.next < w.ur THEN "UNDER" ELSE "GAP"
             /\ t.slot = IF Turn(r.next, w.ur, w.next) =< h
                         THEN Turn(r.next, w.ur, w.next) ELSE 0
    <3>1. w \in Sender /\ moved \in Stream
      BY <1>1, <2>6
    <3>2. /\ t \in Sender /\ SameSession(w, t) /\ t.ur = w.ur /\ t.high = w.high
          /\ w.next =< moved.next => t.gap = "NONE" /\ t.slot = 0
          /\ w.next > moved.next =>
               /\ t.gap = IF moved.next < w.ur THEN "UNDER" ELSE "GAP"
               /\ t.slot = IF Turn(moved.next, w.ur, w.next) =< High(moved)
                           THEN Turn(moved.next, w.ur, w.next) ELSE 0
      BY <2>3, <3>1, RebuiltFields
    <3>3. QED
      BY <1>1, <1>2, <3>2
  <2>8. w.next = s.next /\ SameSession(s, t)
    BY <2>6, <2>7 DEF SameSession
  <2>9. t.high =< h
    BY <1>3, <2>5, <2>6, <2>7
  <2>10. QED
    BY <2>1, <2>4, <2>6, <2>7, <2>8, <2>9
<1>5. snd \in [Shards -> Sender]
  BY <1>4
<1>6. \A n \in Shards : /\ r.snd[n].next \in Nat /\ r.snd[n].ur \in Nat
                        /\ r.snd[n].next =< MaxLsn + 1 /\ r.snd[n].ur =< r.snd[n].next
  BY SenderOf DEF Linked, Link, LinkAt
<1>7. turns \subseteq Nat /\ \A m \in turns : m > r.next /\ m =< h
  BY <1>0, <1>2, <1>6 DEF Transition
<1>8. ends \subseteq Nat /\ 0 \notin ends /\ \A m \in ends : m > h /\ m =< MaxLsn + 1
  BY <1>0, <1>2, <1>3, <1>6
<1>9. PICK g \in Nat : g = Min0(ends)
  <2> HIDE DEF ends
  <2>1. QED
    BY <1>8, Min0IsLeast
<1>10. g = 0 \/ g \in h + 1..MaxLsn + 1
  <2> HIDE DEF ends
  <2>1. g # 0 => g \in ends
    BY <1>8, <1>9, Min0IsLeast
  <2>2. QED
    BY <1>0, <1>8, <2>1
<1>11. ASSUME NEW n \in Shards, r.snd[n].next > r.next, r.snd[n].next > h
       PROVE  g \in 1..r.snd[n].next
  <2>1. r.snd[n].next \in ends
    BY <1>2, <1>6, <1>11
  <2> HIDE DEF ends
  <2>2. QED
    BY <1>8, <1>9, <2>1, Min0IsLeast
<1>12. ASSUME NEW n \in Shards, r.snd[n].next > r.next,
              Turn(r.next, r.snd[n].ur, r.snd[n].next) =< h
       PROVE  Turn(r.next, r.snd[n].ur, r.snd[n].next) \in turns
  <2>1. n \in ahead
    BY <1>12
  <2>2. Transition(r, r.snd[n], r.snd[n].next) = Turn(r.next, r.snd[n].ur, r.snd[n].next)
    BY DEF Transition, Turn
  <2>3. Turn(r.next, r.snd[n].ur, r.snd[n].next) \in 1..h
    BY <1>0, <1>6, <1>12 DEF Turn
  <2>4. QED
    BY <1>2, <2>1, <2>2, <2>3
<1>13. PICK b : b = [moved EXCEPT !.snd = snd, !.marks = @ \cup turns, !.gapOut = g]
  OBVIOUS
<1>14. q = b \/ q = ScheduleRewindToMode(b, "SCD")
  <2>1. b = [moved EXCEPT
            !.snd = [n \in Shards |-> Rebuilt(moved, SendWindow(moved, r.snd[n]))],
            !.marks = @ \cup ({Transition(r, r.snd[n], r.snd[n].next) : n \in ahead}
                                \cap 1..High(moved)),
            !.gapOut = Min0({r.snd[n].next : n \in ahead} \ 1..High(moved))]
    BY <1>9, <1>13
  <2>2. QED
    BY <2>1 DEF SlideSenderWindows
<1> HIDE DEF moved, snd, turns, ends
<1>15. /\ b \in Stream /\ b.next = r.next /\ b.low = r.next /\ b.recs = r.recs
       /\ b.marks = r.marks \cup turns /\ b.trim = r.trim /\ b.gapOut = g
       /\ b.snd = snd /\ SameMode(r, b) /\ b.loop = r.loop
  BY <1>1, <1>5, <1>7, <1>13 DEF Stream, SameMode
<1>16. q \in Stream /\ Alike(b, q) /\ q.loop = b.loop
  BY <1>14, <1>15, ScheduleRewindAlike, AlikeReflexive
<1>17. High(b) = h /\ High(q) = h
  <2>1. High(b) = h
    BY <1>1, <1>2, <1>15, HighSame
  <2>2. q.low = b.low
    BY <1>16 DEF Alike, SameBuffer
  <2>3. QED
    BY <2>1, <2>2, HighSame
<1>18. /\ q.next = r.next /\ q.low = r.next /\ q.recs = r.recs /\ q.trim = r.trim
       /\ q.marks = r.marks \cup turns /\ q.gapOut = g /\ SameMode(r, q)
  BY <1>15, <1>16 DEF Alike, SameBuffer, SameMode
<1>19. ASSUME NEW n \in Shards
       PROVE  /\ SameSession(r.snd[n], q.snd[n])
              /\ Link(q, q.snd[n]) /\ q.snd[n].slot # q.next
  <2>1. PICK t : t = snd[n]
    OBVIOUS
  <2>2. PICK s : s = r.snd[n]
    OBVIOUS
  <2>3. SameSession(t, q.snd[n]) /\ SameLink(t, q.snd[n])
    BY <1>15, <1>16, <2>1 DEF Alike
  <2>4. SameSession(s, t) /\ t.next = s.next /\ t.ur = s.ur /\ t.high =< h
    BY <1>4, <2>1, <2>2 DEF SameSession
  <2>5. /\ s.next \in Nat /\ s.ur \in Nat /\ s.next =< MaxLsn + 1 /\ s.ur =< s.next
        /\ r.next \in Nat \ {0}
    BY <1>0, <1>6, <2>2
  <2>6. LinkAt(r.next, h, q.marks, g, s.next, s.ur, t.gap, t.slot) /\ t.slot # r.next
    <3>1. CASE s.next =< r.next
      <4>1. t.gap = "NONE" /\ t.slot = 0
        BY <1>4, <2>1, <2>2, <3>1
      <4>2. QED
        BY <2>5, <3>1, <4>1, LinkNone
    <3>2. CASE s.next > r.next
      <4>1. PICK k : k = Turn(r.next, s.ur, s.next)
        OBVIOUS
      <4>2. k \in Nat /\ k > r.next /\ k = IF r.next < s.ur THEN s.ur ELSE s.next
        BY <2>5, <3>2, <4>1 DEF Turn
      <4>3. /\ t.gap = IF r.next < s.ur THEN "UNDER" ELSE "GAP"
            /\ t.slot = IF k =< h THEN k ELSE 0
        BY <1>4, <2>1, <2>2, <3>2, <4>1
      <4>4. t.slot # 0 => t.slot \in q.marks
        BY <1>12, <1>18, <2>2, <3>2, <4>1, <4>3
      <4>5. s.next > h => g \in 1..s.next
        BY <1>11, <2>2, <3>2
      <4>6. LinkAt(r.next, h, q.marks, g, s.next, s.ur,
                   IF r.next < s.ur THEN "UNDER" ELSE "GAP", t.slot)
        BY <2>5, <3>2, <4>2, <4>3, <4>4, <4>5, LinkRebuilt
      <4>7. QED
        BY <2>5, <4>2, <4>3, <4>6
    <3>3. QED
      BY <2>5, <3>1, <3>2
  <2>7. QED
    BY <1>17, <1>18, <2>2, <2>3, <2>4, <2>6 DEF Link, SameSession, SameLink
<1>20. Window(q)
  <2>1. q.recs \cup q.marks \subseteq q.next..High(q)
    <3>1. \A m \in q.recs : m \in Nat /\ r.next =< m /\ m =< h
      BY <1>0, <1>3, <1>18
    <3>2. \A m \in q.marks : m \in Nat /\ r.next =< m /\ m =< h
      <4>1. \A m \in r.marks : m \in Nat /\ r.next =< m /\ m =< h
        BY <1>0, <1>3
      <4>2. \A m \in turns : m \in Nat /\ r.next =< m /\ m =< h
        BY <1>0, <1>7
      <4>3. QED
        BY <1>18, <4>1, <4>2
    <3>3. QED
      BY <1>0, <1>17, <1>18, <3>1, <3>2
  <2>2. QED
    BY <1>0, <1>10, <1>17, <1>18, <2>1 DEF Window
<1>21. QED
  BY <1>3, <1>15, <1>16, <1>17, <1>18, <1>19, <1>20 DEF Linked

-----------------------------------------------------------------------------
(* rewind() and sendStart().                                               *)

LEMMA ApplyScheduledChangesFields ==
    ASSUME NEW r \in Stream, NEW q, q = ApplyScheduledChanges(r)
    PROVE  /\ q \in Stream /\ SameBuffer(r, q) /\ q.snd = r.snd
           /\ q.rewound = r.rewound /\ q.redeliver = r.redeliver /\ q.loop = r.loop
<1>1. PICK p : p = IF r.toMode # "ALL" /\ r.newDown # r.down
                   THEN [r EXCEPT !.down = r.newDown] ELSE r
  OBVIOUS
<1>2. /\ p \in Stream /\ SameBuffer(r, p) /\ p.snd = r.snd
      /\ p.rewound = r.rewound /\ p.redeliver = r.redeliver /\ p.loop = r.loop
  <2>1. CASE p = [r EXCEPT !.down = r.newDown]
    BY <2>1 DEF Stream, SameBuffer
  <2>2. CASE p = r
    BY <2>2 DEF SameBuffer
  <2>3. QED
    BY <1>1, <2>1, <2>2
<1>3. PICK to : to = IF (r.toMode # "ALL" /\ r.newDown # r.down) /\ r.newDown = Shards
                     THEN "ALL" ELSE r.toMode
  OBVIOUS
<1>4. to \in {"SCD", "ALL", "none"}
  BY <1>3, StreamFields
<1>5. q = CASE to = "ALL" -> [p EXCEPT !.mode = "ALL", !.down = {}, !.newDown = {},
                                       !.toMode = "none"]
            [] to = "SCD" -> [p EXCEPT !.mode = "SCD", !.grace = FALSE, !.toMode = "none"]
            [] to = "none" -> p
  BY <1>1, <1>3 DEF ApplyScheduledChanges
<1>6. CASE to = "ALL"
  <2>1. q = [p EXCEPT !.mode = "ALL", !.down = {}, !.newDown = {}, !.toMode = "none"]
    BY <1>5, <1>6
  <2>2. /\ q \in Stream /\ SameBuffer(p, q) /\ q.snd = p.snd
        /\ q.rewound = p.rewound /\ q.redeliver = p.redeliver /\ q.loop = p.loop
    <3>1. p \in Stream
      BY <1>2
    <3>2. QED
      BY <2>1, <3>1 DEF Stream, SameBuffer
  <2>3. QED
    BY <1>2, <2>2 DEF SameBuffer
<1>7. CASE to = "SCD"
  <2>1. q = [p EXCEPT !.mode = "SCD", !.grace = FALSE, !.toMode = "none"]
    BY <1>5, <1>7
  <2>2. /\ q \in Stream /\ SameBuffer(p, q) /\ q.snd = p.snd
        /\ q.rewound = p.rewound /\ q.redeliver = p.redeliver /\ q.loop = p.loop
    <3>1. p \in Stream
      BY <1>2
    <3>2. QED
      BY <2>1, <3>1 DEF Stream, SameBuffer
  <2>3. QED
    BY <1>2, <2>2 DEF SameBuffer
<1>8. CASE to = "none"
  <2>1. q = p
    BY <1>5, <1>8
  <2>2. QED
    BY <1>2, <2>1
<1>9. QED
  BY <1>4, <1>6, <1>7, <1>8

\* The sender has been sent START by a stream r that has dropped all else.
Restarted(r, t) ==
    /\ t.conn = "CONNECTING" /\ t.next = r.next
    /\ t.gap = "NONE" /\ t.slot = 0 /\ t.ur = 0 /\ t.high = High(r)
    /\ t.start.lsn = r.next /\ t.start.scd = (r.mode = "SCD")

LEMMA RewindFields ==
    ASSUME NEW r \in Stream, NEW q, q = Rewind(r)
    PROVE  /\ q \in Stream
           /\ q.next = r.next /\ q.low = r.low /\ q.trim = r.trim
           /\ q.redeliver = r.redeliver /\ q.loop = r.loop /\ q.rewound
           /\ q.recs = {} /\ q.marks = {} /\ q.gapOut = 0
           /\ \A n \in Shards : Restarted(q, q.snd[n]) /\ ~q.snd[n].current
<1> DEFINE reset == [n \in Shards |-> [ResetGapParameters(r.snd[n]) EXCEPT !.current = FALSE]]
           c == [r EXCEPT !.snd = reset, !.recs = {}, !.marks = {}, !.gapOut = 0,
                          !.rewound = TRUE]
           a == ApplyScheduledChanges(c)
           d == IF r.mode = "ALL" /\ ScdActive(a)
                THEN [a EXCEPT !.newDown = @ \cup KnownDown(r)] ELSE a
           e == ApplyScheduledChanges(d)
           f == [e EXCEPT !.due = FALSE]
           snd == [n \in Shards |-> Starting(f, [f.snd[n] EXCEPT !.down = n \in f.down])]
<1>1. c = [r EXCEPT !.snd = reset, !.recs = {}, !.marks = {}, !.gapOut = 0,
                    !.rewound = TRUE]
  OBVIOUS
<1>2. a = ApplyScheduledChanges(c)
  OBVIOUS
<1>3. d = a \/ d = [a EXCEPT !.newDown = @ \cup KnownDown(r)]
  OBVIOUS
<1>4. e = ApplyScheduledChanges(d)
  OBVIOUS
<1>5. f = [e EXCEPT !.due = FALSE]
  OBVIOUS
<1>6. q = [f EXCEPT !.snd = snd]
  BY DEF Rewind
<1> HIDE DEF c, a, d, e, f
<1>7. ASSUME NEW n \in Shards PROVE reset[n] \in Sender /\ ~reset[n].current
  <2>1. PICK u : u = ResetGapParameters(r.snd[n])
    OBVIOUS
  <2>2. r.snd[n] \in Sender
    BY SenderOf
  <2>3. u \in Sender
    BY <2>1, <2>2 DEF ResetGapParameters, Sender
  <2>4. reset[n] = [u EXCEPT !.current = FALSE]
    BY <2>1
  <2> HIDE DEF reset
  <2>5. QED
    BY <2>3, <2>4 DEF Sender
<1>8. reset \in [Shards -> Sender]
  BY <1>7
<1>9. c \in Stream /\ c.next = r.next /\ c.low = r.low /\ c.trim = r.trim
      /\ c.redeliver = r.redeliver /\ c.loop = r.loop /\ c.rewound = TRUE
      /\ c.recs = {} /\ c.marks = {} /\ c.gapOut = 0 /\ c.snd = reset
  <2> HIDE DEF reset
  <2>1. QED
    BY <1>1, <1>8 DEF Stream
<1>10. /\ a \in Stream /\ SameBuffer(c, a) /\ a.snd = c.snd
       /\ a.rewound = c.rewound /\ a.redeliver = c.redeliver /\ a.loop = c.loop
  BY <1>2, <1>9, ApplyScheduledChangesFields
<1>11. /\ d \in Stream /\ SameBuffer(a, d) /\ d.snd = a.snd
       /\ d.rewound = a.rewound /\ d.redeliver = a.redeliver /\ d.loop = a.loop
  <2>1. KnownDown(r) \subseteq Shards
    BY DEF KnownDown
  <2>2. CASE d = [a EXCEPT !.newDown = @ \cup KnownDown(r)]
    BY <1>10, <2>1, <2>2 DEF Stream, SameBuffer
  <2>3. CASE d = a
    BY <1>10, <2>3 DEF SameBuffer
  <2>4. QED
    BY <1>3, <2>2, <2>3
<1>12. /\ e \in Stream /\ SameBuffer(d, e) /\ e.snd = d.snd
       /\ e.rewound = d.rewound /\ e.redeliver = d.redeliver /\ e.loop = d.loop
  BY <1>4, <1>11, ApplyScheduledChangesFields
<1>13. /\ f \in Stream /\ SameBuffer(e, f) /\ f.snd = e.snd
       /\ f.rewound = e.rewound /\ f.redeliver = e.redeliver /\ f.loop = e.loop
  BY <1>5, <1>12 DEF Stream, SameBuffer
<1>14. /\ f.next = r.next /\ f.low = r.low /\ f.trim = r.trim
       /\ f.redeliver = r.redeliver /\ f.loop = r.loop /\ f.rewound = TRUE
       /\ f.recs = {} /\ f.marks = {} /\ f.gapOut = 0 /\ f.snd = reset
  BY <1>9, <1>10, <1>11, <1>12, <1>13 DEF SameBuffer
<1>15. ASSUME NEW n \in Shards
       PROVE  snd[n] \in Sender /\ Restarted(f, snd[n]) /\ ~snd[n].current
  <2>0. (n \in f.down) \in BOOLEAN
    OBVIOUS
  <2>1. PICK b \in BOOLEAN : b = (n \in f.down)
    BY <2>0
  <2>2. PICK u : u = [f.snd[n] EXCEPT !.down = b]
    OBVIOUS
  <2>3. f.snd[n] \in Sender /\ ~f.snd[n].current
    BY <1>7, <1>14
  <2>4. u \in Sender /\ u.current = f.snd[n].current
    BY <2>2, <2>3 DEF Sender
  <2>5. PICK t : t = Starting(f, u)
    OBVIOUS
  <2>6. snd[n] = t
    BY <2>1, <2>2, <2>5
  <2> HIDE DEF snd, reset
  <2>7. /\ t \in Sender
        /\ t.conn = "CONNECTING" /\ t.current = u.current
        /\ t.next = f.next /\ t.gap = "NONE" /\ t.slot = 0 /\ t.ur = 0
        /\ t.high = High(f) /\ t.start.lsn = f.next /\ t.start.scd = (f.mode = "SCD")
    BY <1>13, <2>4, <2>5, StartingFields
  <2>8. QED
    BY <2>3, <2>4, <2>6, <2>7 DEF Restarted
<1>16. snd \in [Shards -> Sender]
  BY <1>15
<1> HIDE DEF snd, reset
<1>17. /\ q \in Stream /\ SameBuffer(f, q) /\ q.snd = snd /\ q.mode = f.mode
       /\ q.rewound = f.rewound /\ q.redeliver = f.redeliver /\ q.loop = f.loop
  BY <1>6, <1>13, <1>16 DEF Stream, SameBuffer
<1>18. q.low = f.low /\ q.next = f.next
  BY <1>17 DEF SameBuffer
<1>19. High(q) = High(f)
  BY <1>18, HighSame
<1>20. \A n \in Shards : Restarted(q, q.snd[n]) /\ ~q.snd[n].current
  BY <1>15, <1>17, <1>18, <1>19 DEF Restarted
<1>21. QED
  BY <1>14, <1>17, <1>20 DEF SameBuffer

LEMMA RestartedLink ==
    ASSUME NEW r \in Stream, Window(r), NEW t, Restarted(r, t)
    PROVE  Link(r, t) /\ t.slot # r.next
<1>1. /\ r.next \in Nat \ {0} /\ High(r) \in Nat /\ r.next =< MaxLsn + 1
  BY SizeAssumption, StreamFields, HighType DEF Window
<1>2. LinkAt(r.next, High(r), r.marks, r.gapOut, r.next, 0, "NONE", 0)
  BY <1>1, LinkNone
<1>3. QED
  BY <1>1, <1>2 DEF Link, Restarted

LEMMA RewindInv ==
    ASSUME NEW r \in Stream, Window(r), NEW q, q = Rewind(r)
    PROVE  /\ Window(q) /\ Linked(q)
           /\ \A n \in Shards : q.snd[n].slot # q.next
<1>1. /\ q \in Stream /\ q.next = r.next /\ q.low = r.low /\ q.trim = r.trim
      /\ q.recs = {} /\ q.marks = {} /\ q.gapOut = 0
      /\ \A n \in Shards : Restarted(q, q.snd[n])
  BY RewindFields
<1>2. Window(q)
  BY <1>1, StreamFields DEF Window
<1>3. QED
  BY <1>1, <1>2, RestartedLink DEF Linked

LEMMA SendStartFields ==
    ASSUME NEW r \in Stream, NEW n \in Shards, NEW q, q = SendStart(r, n)
    PROVE  /\ q \in Stream /\ SameBuffer(r, q) /\ SameMode(r, q) /\ q.loop = r.loop
           /\ \A m \in Shards : m # n => q.snd[m] = r.snd[m]
           /\ Restarted(q, q.snd[n]) /\ q.snd[n].current = r.snd[n].current
<1>1. PICK t : t = Starting(r, r.snd[n])
  OBVIOUS
<1>2. r.snd[n] \in Sender
  BY SenderOf
<1>3. /\ t \in Sender
      /\ t.conn = "CONNECTING" /\ t.current = r.snd[n].current
      /\ t.next = r.next /\ t.gap = "NONE" /\ t.slot = 0 /\ t.ur = 0
      /\ t.high = High(r) /\ t.start.lsn = r.next /\ t.start.scd = (r.mode = "SCD")
  BY <1>1, <1>2, StartingFields
<1>4. q = WithSender(r, n, t)
  BY <1>1 DEF SendStart
<1>5. /\ q \in Stream /\ q.snd[n] = t /\ \A m \in Shards : m # n => q.snd[m] = r.snd[m]
      /\ SameBuffer(r, q) /\ SameMode(r, q) /\ q.loop = r.loop
  BY <1>3, <1>4, WithSenderFields
<1>6. High(q) = High(r) /\ q.next = r.next /\ q.mode = r.mode
  BY <1>5, HighSame DEF SameBuffer, SameMode
<1>7. QED
  BY <1>3, <1>5, <1>6 DEF Restarted

-----------------------------------------------------------------------------
(* The handlers of messages.                                               *)

LEMMA AlikeInv ==
    ASSUME NEW r \in Stream, NEW q \in Stream, Alike(r, q), Window(r), Linked(r)
    PROVE  Window(q) /\ Linked(q)
<1>1. /\ q.next = r.next /\ q.low = r.low /\ q.recs = r.recs /\ q.marks = r.marks
      /\ q.gapOut = r.gapOut /\ q.trim = r.trim
  BY DEF Alike, SameBuffer
<1>2. High(q) = High(r)
  BY <1>1, HighSame
<1>3. Window(q)
  BY <1>1, <1>2 DEF Window
<1>4. ASSUME NEW n \in Shards PROVE Link(q, q.snd[n])
  <2>1. SameLink(r.snd[n], q.snd[n]) /\ Link(r, r.snd[n])
    BY DEF Alike, Linked
  <2>2. QED
    BY <1>1, <1>2, <2>1 DEF Link, SameLink
<1>5. QED
  BY <1>3, <1>4 DEF Linked

\* p is r with news from shard n: it has nothing below l.
Noted(r, p, n, l) ==
    /\ p.next = r.next /\ p.low = r.low /\ p.marks = r.marks /\ p.gapOut = r.gapOut
    /\ p.recs \subseteq r.next..High(r) /\ p.trim =< MaxLsn
    /\ SameMode(r, p)
    /\ \A k \in Shards : k # n => p.snd[k] = r.snd[k]
    /\ SameSession(r.snd[n], p.snd[n])
    /\ p.snd[n].gap = r.snd[n].gap /\ p.snd[n].slot = r.snd[n].slot
    /\ p.snd[n].high = r.snd[n].high
    /\ p.snd[n].ur = r.snd[n].ur \/ p.snd[n].ur = Larger(r.snd[n].ur, l)

\* What q has of r, after news of shard n up to the LSN l.
Advanced(r, q, n, l) ==
    /\ q.next = r.next /\ q.low = r.low /\ SameMode(r, q)
    /\ \A k \in Shards : k # n => SameSession(r.snd[k], q.snd[k])
    /\ q.snd[n].current = r.snd[n].current /\ q.snd[n].conn = r.snd[n].conn
    /\ q.snd[n].start = r.snd[n].start
    /\ q.snd[n].next = IF l < r.snd[n].next THEN r.snd[n].next ELSE l
    /\ \A k \in Shards : q.snd[k].slot = q.next => r.snd[k].slot = r.next

LEMMA NotedInv ==
    ASSUME NEW r \in Stream, Window(r), Linked(r),
           NEW n \in Shards, NEW l \in 1..MaxLsn + 1,
           NEW p \in Stream, Noted(r, p, n, l),
           l < r.snd[n].next => \/ p.snd[n].ur = r.snd[n].ur
                                \/ r.snd[n].next =< r.next,
           NEW q, q = UpdateGapState(p, n, l)
    PROVE  /\ q \in Stream /\ Window(q) /\ Linked(q) /\ Advanced(r, q, n, l)
           /\ q.recs = p.recs /\ q.trim = p.trim /\ q.loop = p.loop
<1>0. l \in Nat
  BY SizeAssumption
<1>1. PICK s : s = p.snd[n]
  OBVIOUS
<1>2. PICK u : u = r.snd[n].ur
  OBVIOUS
<1>3. High(p) = High(r)
  BY HighSame DEF Noted
<1>4. Window(p)
  <2>1. p.recs \cup p.marks \subseteq p.next..High(p)
    BY <1>3 DEF Noted, Window
  <2>2. QED
    BY <1>3, <2>1 DEF Noted, Window
<1>5. \A m \in Shards : m # n => Link(p, p.snd[m])
  BY <1>3 DEF Noted, Link, Linked
<1>6. LinkAt(p.next, High(p), p.marks, p.gapOut, s.next, u, s.gap, s.slot)
      /\ s.high =< High(p)
  <2>1. Link(r, r.snd[n])
    BY DEF Linked
  <2>2. QED
    BY <1>1, <1>2, <1>3, <2>1 DEF Noted, Link, SameSession
<1>7. s.ur = u \/ s.ur = Larger(u, l)
  BY <1>1, <1>2 DEF Noted
<1>8. l < s.next => s.ur = u \/ s.next =< p.next
  BY <1>1, <1>2 DEF Noted, SameSession
<1>9. u \in Nat
  BY <1>2, SenderOf
<1>10. /\ Window(q) /\ Linked(q)
       /\ \A m \in Shards : q.snd[m].slot = q.next => p.snd[m].slot = p.next
  BY <1>1, <1>4, <1>5, <1>6, <1>7, <1>8, <1>9, UpdateGapStateInv
<1>11. PICK t : t = q.snd[n]
  OBVIOUS
<1>12. /\ q \in Stream
       /\ q.next = p.next /\ q.low = p.low /\ q.recs = p.recs /\ q.trim = p.trim
       /\ SameMode(p, q) /\ q.loop = p.loop
       /\ \A m \in Shards : m # n => q.snd[m] = p.snd[m]
       /\ t.current = s.current /\ t.conn = s.conn /\ t.start = s.start
       /\ l < s.next => q = p
       /\ (s.next =< l /\ l =< p.next) => t.next = l
       /\ (s.next =< l /\ l > p.next) => t.next = l
  BY <1>0, <1>1, <1>11, UpdateGapStateFields
<1>13. s.next \in Nat /\ p.next \in Nat
  BY <1>1, SenderOf, StreamFields
<1>14. t.next = IF l < s.next THEN s.next ELSE l
  BY <1>0, <1>1, <1>11, <1>12, <1>13
<1>15. Advanced(r, q, n, l)
  <2>1. q.next = r.next /\ q.low = r.low /\ SameMode(r, q)
    BY <1>12 DEF Noted, SameMode
  <2>2. \A k \in Shards : k # n => SameSession(r.snd[k], q.snd[k])
    BY <1>12 DEF Noted, SameSession
  <2>3. /\ t.current = r.snd[n].current /\ t.conn = r.snd[n].conn
        /\ t.start = r.snd[n].start
        /\ t.next = IF l < r.snd[n].next THEN r.snd[n].next ELSE l
    BY <1>1, <1>12, <1>14 DEF Noted, SameSession
  <2>4. \A k \in Shards : q.snd[k].slot = q.next => r.snd[k].slot = r.next
    <3> SUFFICES ASSUME NEW k \in Shards, q.snd[k].slot = q.next
                 PROVE  r.snd[k].slot = r.next
      OBVIOUS
    <3>1. p.snd[k].slot = p.next
      BY <1>10
    <3>2. QED
      BY <3>1 DEF Noted
  <2>5. QED
    BY <1>11, <2>1, <2>2, <2>3, <2>4 DEF Advanced
<1>16. QED
  BY <1>10, <1>12, <1>15

LEMMA AdvancedAlike ==
    ASSUME NEW r, NEW q, NEW p, NEW n \in Shards, NEW l, Advanced(r, q, n, l), Alike(q, p)
    PROVE  Advanced(r, p, n, l)
<1>1. /\ p.next = q.next /\ p.low = q.low /\ SameMode(q, p)
      /\ \A k \in Shards : SameSession(q.snd[k], p.snd[k]) /\ p.snd[k].slot = q.snd[k].slot
  BY DEF Alike, SameBuffer, SameLink
<1>2. QED
  BY <1>1 DEF Advanced, SameMode, SameSession

LEMMA OnDataRecordInv ==
    ASSUME NEW r \in Stream, Window(r), Linked(r), NEW n \in Shards,
           NEW m \in Record, m.lsn =< High(r), NEW q, q = OnDataRecord(r, n, m)
    PROVE  /\ q \in Stream /\ Window(q) /\ Linked(q)
           /\ q.loop = r.loop \/ q.loop = "run"
           /\ ~Accepts(r, n) => q = r
           /\ Accepts(r, n) =>
                /\ Advanced(r, q, n, m.lsn + 1) /\ q.trim = r.trim /\ r.recs \subseteq q.recs
                /\ (m.lsn >= r.next /\ m.lsn >= r.snd[n].next) => m.lsn \in q.recs
<1>0. /\ m.lsn \in Lsns /\ m.lsn \in Nat /\ m.lsn + 1 \in 1..MaxLsn + 1 /\ MaxLsn \in Nat
      /\ r.next \in Nat /\ r.next >= 1 /\ r.snd[n].next \in Nat /\ r.trim =< MaxLsn
      /\ High(r) \in Nat
  BY SizeAssumption, StreamFields, SenderOf, HighType DEF Record, Lsns, Window
<1>1. PICK l : l = m.lsn + 1
  OBVIOUS
<1>2. PICK u \in Nat : u = IF m.under THEN Larger(r.snd[n].ur, m.lsn + 1) ELSE r.snd[n].ur
  BY <1>0, SenderOf DEF Larger
<1>3. PICK s : s = [r.snd[n] EXCEPT !.sentRecord = TRUE, !.strikes = 0, !.ur = u]
  OBVIOUS
<1>4. r.snd[n] \in Sender
  BY SenderOf
<1>5. /\ s \in Sender /\ SameSession(r.snd[n], s) /\ s.gap = r.snd[n].gap
      /\ s.slot = r.snd[n].slot /\ s.high = r.snd[n].high /\ s.ur = u
  BY <1>3, <1>4 DEF Sender, SameSession
<1>6. PICK p : p = WithSender(r, n, s)
  OBVIOUS
<1>7. /\ p \in Stream /\ p.snd[n] = s /\ \A k \in Shards : k # n => p.snd[k] = r.snd[k]
      /\ SameBuffer(r, p) /\ SameMode(r, p) /\ p.loop = r.loop
  BY <1>5, <1>6, WithSenderFields
<1>8. PICK b : b = [p EXCEPT !.recs = @ \cup {m.lsn}]
  OBVIOUS
<1>9. q = IF m.lsn > High(r) \/ ~Accepts(r, n) \/ m.lsn < r.snd[n].next THEN r
          ELSE IF m.lsn < r.next
               THEN RewindIfShardBackUp(UpdateGapState(p, n, m.lsn + 1), n)
               ELSE RunLoop(UpdateGapState(b, n, m.lsn + 1), FALSE, FALSE, n)
  <2>1. s = [r.snd[n] EXCEPT !.sentRecord = TRUE, !.strikes = 0,
                !.ur = IF m.under THEN Larger(@, m.lsn + 1) ELSE @]
    BY <1>2, <1>3, <1>4 DEF Sender
  <2>2. QED
    BY <1>6, <1>8, <2>1 DEF OnDataRecord
<1>10. r.recs \subseteq r.next..High(r)
  BY DEF Window
<1>11. Noted(r, p, n, l)
  BY <1>0, <1>1, <1>2, <1>5, <1>7, <1>10 DEF Noted, SameBuffer
<1>12. /\ b \in Stream /\ b.snd = p.snd /\ SameMode(p, b) /\ b.next = p.next /\ b.low = p.low
       /\ b.marks = p.marks /\ b.gapOut = p.gapOut /\ b.trim = p.trim /\ b.loop = p.loop
       /\ b.recs = p.recs \cup {m.lsn}
  <2>1. p \in Stream
    BY <1>7
  <2>2. QED
    BY <1>0, <1>8, <2>1 DEF Stream, SameMode
<1>13. CASE m.lsn > High(r) \/ ~Accepts(r, n) \/ m.lsn < r.snd[n].next
  <2>1. q = r
    BY <1>9, <1>13
  <2>2. Accepts(r, n) => m.lsn < r.snd[n].next
    BY <1>0, <1>13
  <2>3. m.lsn < r.snd[n].next => Advanced(r, r, n, m.lsn + 1)
    BY <1>0 DEF Advanced, SameMode, SameSession
  <2>4. ~(m.lsn < r.snd[n].next /\ m.lsn >= r.snd[n].next)
    BY <1>0
  <2>5. QED
    BY <2>1, <2>2, <2>3, <2>4
<1>14. CASE ~(m.lsn > High(r) \/ ~Accepts(r, n) \/ m.lsn < r.snd[n].next) /\ m.lsn < r.next
  <2>1. PICK w : w = UpdateGapState(p, n, l)
    OBVIOUS
  <2>2. ~(l < r.snd[n].next)
    BY <1>0, <1>1, <1>14
  <2>3. l \in 1..MaxLsn + 1
    BY <1>0, <1>1
  <2>4. /\ w \in Stream /\ Window(w) /\ Linked(w) /\ Advanced(r, w, n, l)
        /\ w.recs = p.recs /\ w.trim = p.trim /\ w.loop = p.loop
    BY <1>7, <1>11, <2>1, <2>2, <2>3, NotedInv
  <2>5. q = RewindIfShardBackUp(w, n)
    BY <1>1, <1>9, <1>14, <2>1
  <2>6. q \in Stream /\ Alike(w, q) /\ q.loop = w.loop
    BY <2>4, <2>5, RewindIfShardBackUpAlike
  <2>7. Window(q) /\ Linked(q) /\ Advanced(r, q, n, l)
    BY <2>4, <2>6, AlikeInv, AdvancedAlike
  <2>8. q.recs = r.recs /\ q.trim = r.trim /\ q.loop = r.loop
    BY <1>7, <2>4, <2>6 DEF Alike, SameBuffer
  <2>9. ~(m.lsn >= r.next) /\ Accepts(r, n)
    BY <1>0, <1>14
  <2>10. QED
    BY <1>1, <2>6, <2>7, <2>8, <2>9
<1>15. CASE ~(m.lsn > High(r) \/ ~Accepts(r, n) \/ m.lsn < r.snd[n].next) /\ ~(m.lsn < r.next)
  <2>1. PICK w : w = UpdateGapState(b, n, l)
    OBVIOUS
  <2>2. ~(l < r.snd[n].next)
    BY <1>0, <1>1, <1>15
  <2>3. l \in 1..MaxLsn + 1
    BY <1>0, <1>1
  <2>4. Noted(r, b, n, l)
    <3>1. b.recs \subseteq r.next..High(r)
      <4>1. m.lsn \in r.next..High(r)
        BY <1>0, <1>15
      <4>2. p.recs = r.recs
        BY <1>7 DEF SameBuffer
      <4>3. QED
        BY <1>10, <1>12, <4>1, <4>2
    <3>2. QED
      BY <1>11, <1>12, <3>1 DEF Noted, SameMode
  <2>5. /\ w \in Stream /\ Window(w) /\ Linked(w) /\ Advanced(r, w, n, l)
        /\ w.recs = b.recs /\ w.trim = b.trim /\ w.loop = b.loop
    BY <1>12, <2>1, <2>2, <2>3, <2>4, NotedInv
  <2>6. q = RunLoop(w, FALSE, FALSE, n)
    BY <1>1, <1>9, <1>15, <2>1
  <2>7. q \in Stream /\ Alike(w, q) /\ q.loop = "run"
    BY <2>5, <2>6, RunLoopAlike
  <2>8. Window(q) /\ Linked(q) /\ Advanced(r, q, n, l)
    BY <2>5, <2>7, AlikeInv, AdvancedAlike
  <2>9. q.recs = r.recs \cup {m.lsn} /\ q.trim = r.trim
    BY <1>7, <1>12, <2>5, <2>7 DEF Alike, SameBuffer
  <2>10. Accepts(r, n)
    BY <1>15
  <2>11. QED
    BY <1>1, <2>7, <2>8, <2>9, <2>10
<1>16. QED
  BY <1>13, <1>14, <1>15

LEMMA OnGapInv ==
    ASSUME NEW r \in Stream, Window(r), Linked(r), NEW n \in Shards, NEW m \in Gap,
           Accepts(r, n) => r.snd[n].next =< m.lsn + 1 \/ r.snd[n].next =< r.next,
           NEW q, q = OnGap(r, n, m)
    PROVE  /\ q \in Stream /\ Window(q) /\ Linked(q)
           /\ q.loop = r.loop \/ q.loop = "run"
           /\ ~Accepts(r, n) => Alike(r, q) /\ q.loop = r.loop
           /\ Accepts(r, n) =>
                /\ Advanced(r, q, n, m.lsn + 1) /\ q.recs = r.recs /\ r.trim =< q.trim
                /\ m.reason = "TRIM" => m.lsn =< q.trim
<1>0. /\ m.lsn \in Lsns /\ m.lsn \in Nat /\ m.lsn + 1 \in 1..MaxLsn + 1 /\ MaxLsn \in Nat
      /\ r.next \in Nat /\ r.next >= 1 /\ r.snd[n].next \in Nat /\ r.trim =< MaxLsn
      /\ r.trim \in Nat /\ m.lsn =< MaxLsn
  BY SizeAssumption, StreamFields, SenderOf DEF Gap, Lsns, Window
<1>1. PICK l : l = m.lsn + 1
  OBVIOUS
<1>4. r.snd[n] \in Sender
  BY SenderOf
<1>5. CASE ~Accepts(r, n)
  <2>1. PICK s : s = [r.snd[n] EXCEPT !.strikes = 0]
    OBVIOUS
  <2>2. s \in Sender /\ SameSession(r.snd[n], s) /\ SameLink(r.snd[n], s)
    BY <1>4, <2>1 DEF Sender, SameSession, SameLink
  <2>3. q = WithSender(r, n, s)
    BY <1>5, <2>1 DEF OnGap
  <2>4. /\ q \in Stream /\ q.snd[n] = s /\ \A k \in Shards : k # n => q.snd[k] = r.snd[k]
        /\ SameBuffer(r, q) /\ SameMode(r, q) /\ q.loop = r.loop
    BY <2>2, <2>3, WithSenderFields
  <2>5. \A k \in Shards : SameSession(r.snd[k], q.snd[k]) /\ SameLink(r.snd[k], q.snd[k])
    BY <2>2, <2>4 DEF SameSession, SameLink
  <2>6. Alike(r, q)
    BY <2>4, <2>5 DEF Alike
  <2>7. QED
    BY <1>5, <2>4, <2>6, AlikeInv
<1>6. CASE Accepts(r, n)
  <2>1. PICK u \in Nat : u = IF m.reason = "UNDER" THEN Larger(r.snd[n].ur, m.lsn + 1)
                             ELSE r.snd[n].ur
    BY <1>0, SenderOf DEF Larger
  <2>2. PICK s : s = [r.snd[n] EXCEPT !.strikes = 0, !.ur = u]
    OBVIOUS
  <2>3. /\ s \in Sender /\ SameSession(r.snd[n], s) /\ s.gap = r.snd[n].gap
        /\ s.slot = r.snd[n].slot /\ s.high = r.snd[n].high /\ s.ur = u
    BY <1>4, <2>2 DEF Sender, SameSession
  <2>4. PICK w : w = WithSender(r, n, s)
    OBVIOUS
  <2>5. /\ w \in Stream /\ w.snd[n] = s /\ \A k \in Shards : k # n => w.snd[k] = r.snd[k]
        /\ SameBuffer(r, w) /\ SameMode(r, w) /\ w.loop = r.loop
    BY <2>3, <2>4, WithSenderFields
  <2>6. PICK x \in Nat : x = IF m.reason = "TRIM" THEN Larger(r.trim, m.lsn) ELSE r.trim
    BY <1>0 DEF Larger
  <2>7. x =< MaxLsn /\ r.trim =< x /\ (m.reason = "TRIM" => m.lsn =< x)
    BY <1>0, <2>6 DEF Larger
  <2>8. PICK p : p = [w EXCEPT !.trim = x]
    OBVIOUS
  <2>9. /\ p \in Stream /\ p.snd = w.snd /\ SameMode(w, p) /\ p.next = w.next /\ p.low = w.low
        /\ p.marks = w.marks /\ p.gapOut = w.gapOut /\ p.trim = x /\ p.loop = w.loop
        /\ p.recs = w.recs
    <3>1. w \in Stream
      BY <2>5
    <3>2. QED
      BY <2>8, <3>1 DEF Stream, SameMode
  <2>10. q = RunLoop(UpdateGapState(p, n, l), FALSE, FALSE, NoShard)
    <3>1. s = [r.snd[n] EXCEPT !.strikes = 0,
                  !.ur = IF m.reason = "UNDER" THEN Larger(@, m.lsn + 1) ELSE @]
      BY <1>4, <2>1, <2>2 DEF Sender
    <3>2. w.trim = r.trim
      BY <2>5 DEF SameBuffer
    <3>3. p = [w EXCEPT !.trim = IF m.reason = "TRIM" THEN Larger(@, m.lsn) ELSE @]
      BY <2>6, <2>8, <3>2
    <3>4. QED
      BY <1>1, <1>6, <2>4, <3>1, <3>3 DEF OnGap
  <2>11. Noted(r, p, n, l)
    <3>1. p.recs \subseteq r.next..High(r)
      BY <2>5, <2>9 DEF Window, SameBuffer
    <3>2. QED
      BY <1>1, <2>1, <2>3, <2>5, <2>7, <2>9, <3>1 DEF Noted, SameBuffer, SameMode
  <2>12. PICK v : v = UpdateGapState(p, n, l)
    OBVIOUS
  <2>13. l < r.snd[n].next => r.snd[n].next =< r.next
    BY <1>0, <1>1, <1>6
  <2>14. l \in 1..MaxLsn + 1
    BY <1>0, <1>1
  <2>15. /\ v \in Stream /\ Window(v) /\ Linked(v) /\ Advanced(r, v, n, l)
         /\ v.recs = p.recs /\ v.trim = p.trim /\ v.loop = p.loop
    BY <2>9, <2>11, <2>12, <2>13, <2>14, NotedInv
  <2>16. q \in Stream /\ Alike(v, q) /\ q.loop = "run"
    BY <2>10, <2>12, <2>15, RunLoopAlike
  <2>17. Window(q) /\ Linked(q) /\ Advanced(r, q, n, l)
    BY <2>15, <2>16, AlikeInv, AdvancedAlike
  <2>18. q.recs = r.recs /\ q.trim = x
    BY <2>5, <2>9, <2>15, <2>16 DEF Alike, SameBuffer
  <2>19. QED
    BY <1>1, <1>6, <2>7, <2>16, <2>17, <2>18
<1>7. QED
  BY <1>5, <1>6

LEMMA OnStartedInv ==
    ASSUME NEW r \in Stream, Window(r), Linked(r), NEW n \in Shards, NEW m,
           NEW q, q = OnStarted(r, n, m)
    PROVE  /\ q \in Stream /\ Window(q) /\ Linked(q)
           /\ (~m.current \/ r.snd[n].conn = "READING") => q = r
           /\ SameBuffer(r, q) /\ SameMode(r, q) /\ q.loop = r.loop
           /\ \A k \in Shards : k # n => q.snd[k] = r.snd[k]
           /\ q.snd[n].start = r.snd[n].start /\ q.snd[n].next = r.snd[n].next
           /\ q.snd[n].slot = r.snd[n].slot
           /\ (m.current /\ r.snd[n].conn # "READING") =>
                q.snd[n].conn = "READING" /\ q.snd[n].current
<1>1. CASE ~m.current \/ r.snd[n].conn = "READING"
  <2>1. q = r
    BY <1>1 DEF OnStarted
  <2>2. QED
    BY <1>1, <2>1 DEF SameBuffer, SameMode
<1>2. CASE ~(~m.current \/ r.snd[n].conn = "READING")
  <2>1. PICK s : s = [r.snd[n] EXCEPT !.current = TRUE, !.conn = "READING"]
    OBVIOUS
  <2>2. r.snd[n] \in Sender
    BY SenderOf
  <2>3. /\ s \in Sender /\ SameLink(r.snd[n], s) /\ s.start = r.snd[n].start
        /\ s.conn = "READING" /\ s.current = TRUE
    BY <2>1, <2>2 DEF Sender, SameLink
  <2>4. PICK t : t = SendWindow(r, s)
    OBVIOUS
  <2>5. /\ t \in Sender /\ SameSession(s, t)
        /\ t.ur = s.ur /\ t.gap = s.gap /\ t.slot = s.slot
        /\ t.high = High(r) \/ t.high = s.high
    BY <2>3, <2>4, SendWindowFields
  <2>6. q = WithSender(r, n, t)
    BY <1>2, <2>1, <2>4 DEF OnStarted
  <2>7. /\ q \in Stream /\ q.snd[n] = t /\ \A k \in Shards : k # n => q.snd[k] = r.snd[k]
        /\ SameBuffer(r, q) /\ SameMode(r, q) /\ q.loop = r.loop
    BY <2>5, <2>6, WithSenderFields
  <2>8. /\ q.next = r.next /\ q.low = r.low /\ q.marks = r.marks /\ q.gapOut = r.gapOut
        /\ q.recs = r.recs /\ q.trim = r.trim
    BY <2>7 DEF SameBuffer
  <2>9. High(q) = High(r) /\ High(r) \in Nat
    BY <2>8, HighSame, HighType
  <2>10. Link(r, r.snd[n])
    BY DEF Linked
  <2>11. Link(q, t)
    BY <2>3, <2>5, <2>8, <2>9, <2>10 DEF Link, SameLink, SameSession
  <2>12. \A k \in Shards : k # n => Link(q, q.snd[k])
    BY <2>7, <2>8, <2>9 DEF Link, Linked
  <2>13. Window(q)
    BY <2>8, <2>9 DEF Window
  <2>14. /\ t.start = r.snd[n].start /\ t.next = r.snd[n].next /\ t.slot = r.snd[n].slot
         /\ t.conn = "READING" /\ t.current = TRUE
    BY <2>3, <2>5 DEF SameSession, SameLink
  <2>15. QED
    BY <1>2, <2>7, <2>11, <2>12, <2>13, <2>14 DEF Linked
<1>3. QED
  BY <1>1, <1>2

-----------------------------------------------------------------------------
(* The loop and the timers.                                                *)

\* From r to q the stream goes on, and the sessions are left alone.
Onward(r, q) ==
    /\ r.next =< q.next /\ r.low =< q.low /\ q.mode = r.mode /\ q.rewound = r.rewound
    /\ q.trim = r.trim
    /\ \A n \in Shards : SameSession(r.snd[n], q.snd[n])
    /\ \A l \in r.recs : q.next =< l => l \in q.recs

StreamOK(r) == r \in Stream /\ Window(r) /\ Linked(r) /\ Quiet(r)

LEMMA AlikeOnward ==
    ASSUME NEW r \in Stream, NEW q, Alike(r, q)
    PROVE  Onward(r, q)
BY StreamFields DEF Alike, Onward, SameBuffer, SameMode

\* Delivery up to hi.
LEMMA DeliveredInv ==
    ASSUME NEW r \in Stream, Window(r), Linked(r),
           NEW hi \in Nat, r.next =< hi, hi =< MaxLsn, NEW u, u = Unlink(r, hi),
           NEW p \in Stream, p.next = hi + 1, p.low = r.low, p.snd = u.snd,
           p.gapOut = r.gapOut, p.trim = r.trim, SameMode(r, p),
           \A l \in p.recs : l \in r.recs /\ l > hi,
           \A l \in r.recs : l > hi => l \in p.recs,
           \A l \in p.marks : l \in u.marks /\ l > hi,
           \A l \in u.marks : l > hi => l \in p.marks
    PROVE  Window(p) /\ Linked(p) /\ Onward(r, p)
<1>0. /\ r.next \in Nat /\ r.next >= 1 /\ r.low \in Nat /\ MaxLsn \in Nat /\ p.next \in Nat
      /\ High(r) \in Nat /\ High(p) = High(r) /\ r.trim =< MaxLsn
      /\ p.recs \subseteq Nat /\ p.marks \subseteq Nat
      /\ r.low =< r.next /\ 1 =< r.low
  BY SizeAssumption, StreamFields, HighType, HighSame DEF Window
<1>1. Linked(p)
  BY UnlinkInv
<1>2. \A l \in p.recs \cup p.marks : p.next =< l /\ l =< High(p)
  <2>1. \A l \in p.recs : p.next =< l /\ l =< High(p)
    BY <1>0 DEF Window
  <2>2. \A l \in u.marks : l \in r.marks \/ (l > hi /\ l =< High(r))
    BY UnlinkFields
  <2>3. \A l \in r.marks : l =< High(r)
    BY <1>0 DEF Window
  <2>4. \A l \in p.marks : p.next =< l /\ l =< High(p)
    BY <1>0, <2>2, <2>3
  <2>5. QED
    BY <2>1, <2>4
<1>3. p.gapOut = 0 \/ p.gapOut \in High(p) + 1..MaxLsn + 1
  BY <1>0 DEF Window
<1>4. Window(p)
  BY <1>0, <1>2, <1>3 DEF Window
<1>5. \A n \in Shards : SameSession(r.snd[n], p.snd[n])
  BY UnlinkFields
<1>6. Onward(r, p)
  <2>1. \A l \in r.recs : p.next =< l => l \in p.recs
    <3>1. \A l \in r.recs : l \in Nat
      BY StreamFields
    <3>2. QED
      BY <3>1
  <2>2. QED
    BY <1>0, <1>5, <2>1 DEF Onward, SameMode
<1>7. QED
  BY <1>1, <1>4, <1>6

\* A stream whose loop goes on waits for nothing.
LEMMA RunningQuiet ==
    ASSUME NEW q, q.loop = "run",
           q.redeliver => \A n \in Shards : q.snd[n].slot = q.next => CanSkipTrimmed(q)
    PROVE  Quiet(q)
BY DEF Quiet

LEMMA DeliverTrimGapStep ==
    ASSUME StreamOK(rs), DeliverTrimGap
    PROVE  StreamOK(rs') /\ Onward(rs, rs')
<1>0. /\ rs \in Stream /\ Window(rs) /\ Linked(rs) /\ Quiet(rs)
      /\ rs.loop = "run" /\ ~rs.redeliver /\ rs.trim >= rs.next
  BY DEF StreamOK, DeliverTrimGap, Running, Blocked, SkipTrimmed, CanSkipTrimmed
<1>1. rs.trim \in Nat /\ rs.trim =< MaxLsn /\ rs.next \in Nat
  BY <1>0, StreamFields DEF Window
<1>2. PICK u : u = Unlink(rs, rs.trim)
  OBVIOUS
<1>3. PICK v : v = [u EXCEPT !.recs = @ \ 1..rs.trim, !.marks = @ \ 1..rs.trim]
  OBVIOUS
<1>4. \/ rs' = [v EXCEPT !.next = rs.trim + 1, !.grace = FALSE, !.redelivering = FALSE]
      \/ rs' = [rs EXCEPT !.redeliver = TRUE]
  BY <1>2, <1>3 DEF DeliverTrimGap, Deliver
<1>5. CASE rs' = [v EXCEPT !.next = rs.trim + 1, !.grace = FALSE, !.redelivering = FALSE]
  <2>1. /\ u \in Stream /\ u.recs = rs.recs /\ u.low = rs.low /\ u.gapOut = rs.gapOut
        /\ u.trim = rs.trim /\ SameMode(rs, u) /\ u.loop = rs.loop
    BY <1>0, <1>1, <1>2, UnlinkFields
  <2>2. PICK p : p = [v EXCEPT !.next = rs.trim + 1, !.grace = FALSE, !.redelivering = FALSE]
    OBVIOUS
  <2>3. /\ p \in Stream /\ p.next = rs.trim + 1 /\ p.low = u.low /\ p.snd = u.snd
        /\ p.gapOut = u.gapOut /\ p.trim = u.trim /\ SameMode(u, p) /\ p.loop = u.loop
        /\ p.recs = u.recs \ 1..rs.trim /\ p.marks = u.marks \ 1..rs.trim
    <3>1. u \in Stream /\ rs.trim + 1 \in Nat
      BY <1>1, <2>1
    <3>2. /\ v \in Stream /\ v.low = u.low /\ v.snd = u.snd
          /\ v.gapOut = u.gapOut /\ v.trim = u.trim /\ SameMode(u, v) /\ v.loop = u.loop
          /\ v.recs = u.recs \ 1..rs.trim /\ v.marks = u.marks \ 1..rs.trim
      BY <1>3, <3>1 DEF Stream, SameMode
    <3>3. v \in Stream
      BY <3>2
    <3>4. /\ p \in Stream /\ p.next = rs.trim + 1 /\ p.low = v.low /\ p.snd = v.snd
          /\ p.gapOut = v.gapOut /\ p.trim = v.trim /\ SameMode(v, p) /\ p.loop = v.loop
          /\ p.recs = v.recs /\ p.marks = v.marks
      BY <2>2, <3>1, <3>3 DEF Stream, SameMode
    <3>5. QED
      BY <3>2, <3>4 DEF SameMode
  <2>4. /\ p.low = rs.low /\ p.gapOut = rs.gapOut /\ p.trim = rs.trim /\ SameMode(rs, p)
        /\ p.recs = rs.recs \ 1..rs.trim /\ p.loop = "run" /\ ~p.redeliver
    BY <1>0, <2>1, <2>3 DEF SameMode
  <2>5. \A l \in rs.recs \cup u.marks : l \in Nat /\ l >= 1
    <3>1. \A l \in rs.recs \cup rs.marks : l \in Nat /\ l >= 1
      BY <1>0, <1>1, HighType DEF Window
    <3>2. \A l \in u.marks : l \in rs.marks \/ (l > rs.trim /\ l =< High(rs))
      BY <1>0, <1>1, <1>2, UnlinkFields
    <3>3. u.marks \subseteq Nat
      BY <2>1, StreamFields
    <3>4. QED
      BY <1>1, <3>1, <3>2, <3>3
  <2>6. /\ \A l \in p.recs : l \in rs.recs /\ l > rs.trim
        /\ \A l \in rs.recs : l > rs.trim => l \in p.recs
        /\ \A l \in p.marks : l \in u.marks /\ l > rs.trim
        /\ \A l \in u.marks : l > rs.trim => l \in p.marks
    BY <1>1, <2>3, <2>4, <2>5
  <2>7. Window(p) /\ Linked(p) /\ Onward(rs, p)
    BY <1>0, <1>1, <1>2, <2>3, <2>4, <2>6, DeliveredInv
  <2>8. Quiet(p)
    BY <2>4, RunningQuiet
  <2>9. QED
    BY <1>5, <2>2, <2>3, <2>7, <2>8 DEF StreamOK
<1>6. CASE rs' = [rs EXCEPT !.redeliver = TRUE]
  <2>1. PICK p : p = [rs EXCEPT !.redeliver = TRUE]
    OBVIOUS
  <2>2. /\ p \in Stream /\ SameBuffer(rs, p) /\ p.snd = rs.snd /\ p.loop = rs.loop
        /\ p.mode = rs.mode /\ p.rewound = rs.rewound
    BY <1>0, <2>1 DEF Stream, SameBuffer
  <2>3. /\ p.next = rs.next /\ p.low = rs.low /\ p.marks = rs.marks /\ p.gapOut = rs.gapOut
        /\ p.recs = rs.recs /\ p.trim = rs.trim
    BY <2>2 DEF SameBuffer
  <2>4. High(p) = High(rs)
    BY <2>3, HighSame
  <2>5. Window(p) /\ Linked(p)
    BY <1>0, <2>2, <2>3, <2>4 DEF Window, Linked, Link
  <2>6. Quiet(p)
    BY <1>0, <2>2, <2>3, RunningQuiet DEF CanSkipTrimmed
  <2>7. Onward(rs, p)
    BY <1>0, <1>1, <2>2, <2>3, StreamFields DEF Onward, SameSession
  <2>8. QED
    BY <1>6, <2>1, <2>2, <2>5, <2>6, <2>7 DEF StreamOK
<1>7. QED
  BY <1>4, <1>5, <1>6

LEMMA FrontLink ==
    ASSUME NEW r \in Stream, Window(r), Linked(r), NEW u, u = Unlink(r, r.next),
           NEW p \in Stream, p.next = r.next, p.low = r.low, p.snd = u.snd,
           p.gapOut = r.gapOut, p.trim = r.trim, p.mode = r.mode, p.rewound = r.rewound,
           p.recs = r.recs, p.marks \subseteq u.marks,
           \A m \in u.marks : m > r.next => m \in p.marks
    PROVE  /\ Window(p) /\ Linked(p) /\ Onward(r, p)
           /\ \A n \in Shards : p.snd[n].slot # p.next
<1>0. r.next \in Nat /\ r.low \in Nat /\ High(r) \in Nat /\ High(p) = High(r)
  BY StreamFields, HighType, HighSame
<1>1. Linked(p) /\ \A n \in Shards : p.snd[n].slot = p.next => p.next = r.next + 1
  BY <1>0, UnlinkInv
<1>2. p.marks \subseteq r.next..High(r)
  <2>1. \A l \in u.marks : l \in r.marks \/ (l > r.next /\ l =< High(r))
    BY <1>0, UnlinkFields
  <2>2. p.marks \subseteq Nat
    BY StreamFields
  <2>3. QED
    BY <1>0, <2>1, <2>2 DEF Window
<1>3. p.recs \cup p.marks \subseteq p.next..High(p)
  BY <1>0, <1>2 DEF Window
<1>4. Window(p)
  BY <1>0, <1>3 DEF Window
<1>5. \A n \in Shards : SameSession(r.snd[n], p.snd[n])
  <2>1. \A n \in Shards : SameSession(r.snd[n], u.snd[n])
    BY <1>0, UnlinkFields
  <2>2. QED
    BY <2>1
<1>6. Onward(r, p)
  BY <1>0, <1>5 DEF Onward
<1>7. QED
  BY <1>0, <1>1, <1>4, <1>6

LEMMA DeliverRecordStep ==
    ASSUME StreamOK(rs), DeliverRecord
    PROVE  StreamOK(rs') /\ Onward(rs, rs')
<1>0. /\ rs \in Stream /\ Window(rs) /\ Linked(rs) /\ Quiet(rs)
      /\ rs.loop = "run" /\ ~rs.redeliver /\ ~Done(rs)
  BY DEF StreamOK, DeliverRecord, Running, Blocked
<1>1. rs.next \in Nat /\ rs.next =< MaxLsn /\ rs.next >= 1 /\ MaxLsn \in Nat
  BY <1>0, SizeAssumption, StreamFields DEF Window, Done
<1>2. PICK u : u = Unlink(rs, rs.next)
  OBVIOUS
<1>3. PICK v : v = [u EXCEPT !.recs = @ \ {rs.next}, !.marks = @ \ {rs.next}]
  OBVIOUS
<1>4. \/ rs' = [v EXCEPT !.next = rs.next + 1, !.grace = FALSE, !.redelivering = FALSE]
      \/ rs' = [u EXCEPT !.redeliver = TRUE]
  BY <1>2, <1>3 DEF DeliverRecord, Deliver
<1>5. /\ u \in Stream /\ u.next = rs.next /\ u.recs = rs.recs /\ u.low = rs.low
      /\ u.gapOut = rs.gapOut /\ u.trim = rs.trim /\ SameMode(rs, u) /\ u.loop = rs.loop
  BY <1>0, <1>1, <1>2, UnlinkFields
<1>6. CASE rs' = [v EXCEPT !.next = rs.next + 1, !.grace = FALSE, !.redelivering = FALSE]
  <2>2. PICK p : p = [v EXCEPT !.next = rs.next + 1, !.grace = FALSE, !.redelivering = FALSE]
    OBVIOUS
  <2>3. /\ p \in Stream /\ p.next = rs.next + 1 /\ p.low = u.low /\ p.snd = u.snd
        /\ p.gapOut = u.gapOut /\ p.trim = u.trim /\ SameMode(u, p) /\ p.loop = u.loop
        /\ p.recs = u.recs \ {rs.next} /\ p.marks = u.marks \ {rs.next}
    <3>1. u \in Stream /\ rs.next + 1 \in Nat
      BY <1>1, <1>5
    <3>2. /\ v \in Stream /\ v.low = u.low /\ v.snd = u.snd
          /\ v.gapOut = u.gapOut /\ v.trim = u.trim /\ SameMode(u, v) /\ v.loop = u.loop
          /\ v.recs = u.recs \ {rs.next} /\ v.marks = u.marks \ {rs.next}
      BY <1>3, <3>1 DEF Stream, SameMode
    <3>3. v \in Stream
      BY <3>2
    <3>4. /\ p \in Stream /\ p.next = rs.next + 1 /\ p.low = v.low /\ p.snd = v.snd
          /\ p.gapOut = v.gapOut /\ p.trim = v.trim /\ SameMode(v, p) /\ p.loop = v.loop
          /\ p.recs = v.recs /\ p.marks = v.marks
      BY <2>2, <3>1, <3>3 DEF Stream, SameMode
    <3>5. QED
      BY <3>2, <3>4 DEF SameMode
  <2>4. /\ p.low = rs.low /\ p.gapOut = rs.gapOut /\ p.trim = rs.trim /\ SameMode(rs, p)
        /\ p.recs = rs.recs \ {rs.next} /\ p.loop = "run" /\ ~p.redeliver
    BY <1>0, <1>5, <2>3 DEF SameMode
  <2>5. \A l \in rs.recs \cup u.marks : l \in Nat /\ l >= rs.next
    <3>1. \A l \in rs.recs \cup rs.marks : l \in Nat /\ l >= rs.next
      BY <1>0, <1>1, HighType DEF Window
    <3>2. \A l \in u.marks : l \in rs.marks \/ (l > rs.next /\ l =< High(rs))
      BY <1>0, <1>1, <1>2, UnlinkFields
    <3>3. u.marks \subseteq Nat
      BY <1>5, StreamFields
    <3>4. QED
      BY <1>1, <3>1, <3>2, <3>3
  <2>6. /\ \A l \in p.recs : l \in rs.recs /\ l > rs.next
        /\ \A l \in rs.recs : l > rs.next => l \in p.recs
        /\ \A l \in p.marks : l \in u.marks /\ l > rs.next
        /\ \A l \in u.marks : l > rs.next => l \in p.marks
    BY <1>1, <2>3, <2>4, <2>5
  <2>7. Window(p) /\ Linked(p) /\ Onward(rs, p)
    BY <1>0, <1>1, <1>2, <2>3, <2>4, <2>6, DeliveredInv
  <2>8. Quiet(p)
    BY <2>4, RunningQuiet
  <2>9. QED
    BY <1>6, <2>2, <2>3, <2>7, <2>8 DEF StreamOK
<1>7. CASE rs' = [u EXCEPT !.redeliver = TRUE]
  <2>1. PICK p : p = [u EXCEPT !.redeliver = TRUE]
    OBVIOUS
  <2>2. /\ p \in Stream /\ SameBuffer(u, p) /\ p.snd = u.snd /\ p.loop = u.loop
        /\ p.mode = u.mode /\ p.rewound = u.rewound
    BY <1>5, <2>1 DEF Stream, SameBuffer
  <2>3. /\ p.next = rs.next /\ p.low = rs.low /\ p.marks = u.marks /\ p.gapOut = rs.gapOut
        /\ p.recs = rs.recs /\ p.trim = rs.trim /\ p.mode = rs.mode
        /\ p.rewound = rs.rewound /\ p.loop = "run"
    BY <1>0, <1>5, <2>2 DEF SameBuffer, SameMode
  <2>4. /\ Window(p) /\ Linked(p) /\ Onward(rs, p)
        /\ \A n \in Shards : p.snd[n].slot # p.next
    BY <1>0, <1>2, <2>2, <2>3, FrontLink
  <2>5. Quiet(p)
    BY <2>3, <2>4, RunningQuiet
  <2>6. QED
    BY <1>7, <2>1, <2>2, <2>4, <2>5 DEF StreamOK
<1>8. QED
  BY <1>4, <1>6, <1>7

LEMMA ClearMarkerStep ==
    ASSUME StreamOK(rs), ClearMarker
    PROVE  StreamOK(rs') /\ Onward(rs, rs')
<1>0. /\ rs \in Stream /\ Window(rs) /\ Linked(rs) /\ rs.loop = "run" /\ rs.next \in Nat
      /\ rs.redeliver = FALSE
  BY StreamFields DEF StreamOK, ClearMarker, Running, Blocked
<1>1. PICK u : u = Unlink(rs, rs.next)
  OBVIOUS
<1>2. /\ u \in Stream /\ u.next = rs.next /\ u.recs = rs.recs /\ u.low = rs.low
      /\ u.gapOut = rs.gapOut /\ u.trim = rs.trim /\ SameMode(rs, u) /\ u.loop = rs.loop
  BY <1>0, <1>1, UnlinkFields
<1>3. PICK p : p = [u EXCEPT !.marks = @ \ {rs.next}, !.grace = FALSE, !.redelivering = FALSE]
  OBVIOUS
<1>4. rs' = p
  BY <1>1, <1>3 DEF ClearMarker
<1>5. /\ p \in Stream /\ p.next = u.next /\ p.recs = u.recs /\ p.low = u.low
      /\ p.gapOut = u.gapOut /\ p.trim = u.trim /\ SameMode(u, p) /\ p.loop = u.loop
      /\ p.snd = u.snd /\ p.marks = u.marks \ {rs.next}
  BY <1>2, <1>3 DEF Stream, SameMode
<1>6. /\ p.next = rs.next /\ p.recs = rs.recs /\ p.low = rs.low /\ p.gapOut = rs.gapOut
      /\ p.trim = rs.trim /\ p.mode = rs.mode /\ p.rewound = rs.rewound
      /\ p.redeliver = FALSE /\ p.loop = "run"
  BY <1>0, <1>2, <1>5 DEF SameMode
<1>7. p.marks \subseteq u.marks /\ \A m \in u.marks : m > rs.next => m \in p.marks
  BY <1>0, <1>5
<1>8. /\ Window(p) /\ Linked(p) /\ Onward(rs, p)
  BY <1>0, <1>1, <1>5, <1>6, <1>7, FrontLink
<1>9. Quiet(p)
  BY <1>6, RunningQuiet
<1>10. QED
  BY <1>4, <1>5, <1>8, <1>9 DEF StreamOK

\* A gap ends behind the next LSN, and before all that is in the buffer.
LEMMA GapEndBounds ==
    ASSUME NEW r \in Stream, Window(r), r.next =< High(r),
           r.next \notin r.recs \cup r.marks, GapEnd(r) # 0
    PROVE  /\ GapEnd(r) \in Nat /\ r.next < GapEnd(r) /\ GapEnd(r) =< MaxLsn + 1
           /\ \A l \in r.recs \cup r.marks : GapEnd(r) =< l
<1>0. /\ r.next \in Nat /\ High(r) \in Nat /\ MaxLsn \in Nat /\ High(r) =< MaxLsn
      /\ r.gapOut \in Nat
  BY SizeAssumption, StreamFields, HighType
<1>1. CASE r.recs \cup r.marks = {}
  <2>1. GapEnd(r) = r.gapOut
    BY <1>1 DEF GapEnd
  <2>2. QED
    BY <1>0, <1>1, <2>1 DEF Window
<1>2. CASE r.recs \cup r.marks # {}
  <2>1. PICK S : S = r.recs \cup r.marks
    OBVIOUS
  <2>2. S \subseteq Nat /\ S # {} /\ \A l \in S : r.next < l /\ l =< High(r)
    BY <1>0, <1>2, <2>1 DEF Window
  <2>3. Min(S) \in S /\ \A l \in S : Min(S) =< l
    BY <2>2, MinIsLeast
  <2>4. GapEnd(r) = Min(S)
    BY <1>2, <2>1 DEF GapEnd
  <2>5. QED
    BY <1>0, <2>1, <2>2, <2>3, <2>4
<1>3. QED
  BY <1>1, <1>2

LEMMA DeliverDataLossStep ==
    ASSUME StreamOK(rs), DeliverDataLoss
    PROVE  StreamOK(rs') /\ Onward(rs, rs')
<1>0. /\ rs \in Stream /\ Window(rs) /\ Linked(rs) /\ Quiet(rs)
      /\ rs.loop = "run" /\ rs.redeliver = FALSE /\ ~(rs.next > High(rs))
      /\ rs.next \notin rs.recs \cup rs.marks /\ GapEnd(rs) # 0
  BY StreamFields DEF StreamOK, DeliverDataLoss, Running, AtHole, Blocked, IssueGap
<1>1. /\ rs.next \in Nat /\ rs.next >= 1 /\ High(rs) \in Nat /\ rs.next =< High(rs)
      /\ MaxLsn \in Nat /\ rs.gapOut \in Nat /\ rs.low \in Nat
      /\ rs.marks \subseteq rs.next..High(rs)
  BY <1>0, SizeAssumption, StreamFields, HighType DEF Window
<1>2. PICK e : e = GapEnd(rs)
  OBVIOUS
<1>3. /\ e \in Nat /\ rs.next < e /\ e =< MaxLsn + 1
      /\ \A l \in rs.recs \cup rs.marks : e =< l
  BY <1>0, <1>1, <1>2, GapEndBounds
<1>4. (e - 1) + 1 = e
  BY <1>3
<1>5. \/ rs' = [rs EXCEPT !.next = e, !.grace = FALSE, !.redelivering = FALSE]
      \/ rs' = [rs EXCEPT !.grace = FALSE, !.redeliver = TRUE]
  BY <1>2, <1>4 DEF DeliverDataLoss, Deliver
<1>6. CASE rs' = [rs EXCEPT !.next = e, !.grace = FALSE, !.redelivering = FALSE]
  <2>1. PICK p : p = [rs EXCEPT !.next = e, !.grace = FALSE, !.redelivering = FALSE]
    OBVIOUS
  <2>2. /\ p \in Stream /\ p.next = e /\ p.recs = rs.recs /\ p.low = rs.low
        /\ p.gapOut = rs.gapOut /\ p.trim = rs.trim /\ SameMode(rs, p) /\ p.loop = rs.loop
        /\ p.snd = rs.snd /\ p.marks = rs.marks
    BY <1>0, <1>3, <2>1 DEF Stream, SameMode
  <2>3. High(p) = High(rs)
    BY <2>2, HighSame
  <2>4. Window(p)
    <3>1. p.recs \cup p.marks \subseteq p.next..High(p)
      BY <1>0, <1>1, <1>3, <2>2, <2>3 DEF Window
    <3>2. QED
      BY <1>0, <1>1, <1>3, <2>2, <2>3, <3>1 DEF Window
  <2>5. ASSUME NEW n \in Shards PROVE Link(p, p.snd[n])
    <3>1. PICK s : s = rs.snd[n]
      OBVIOUS
    <3>2. /\ s.next \in Nat /\ s.ur \in Nat /\ s.gap \in GapStates /\ s.slot \in Nat
      BY <1>0, <3>1, SenderOf
    <3>3. /\ LinkAt(rs.next, High(rs), rs.marks, rs.gapOut, s.next, s.ur, s.gap, s.slot)
          /\ s.high =< High(rs)
      BY <1>0, <3>1 DEF Linked, Link
    <3>4. s.slot # 0 => s.slot \in rs.marks
      BY <3>3 DEF LinkAt
    <3>5. s.slot = 0 \/ s.slot >= e
      BY <1>3, <3>2, <3>4
    <3>6. rs.next \in Nat \ {0} /\ rs.next =< e
      BY <1>1, <1>3
    <3>7. LinkAt(e, High(rs), rs.marks, rs.gapOut, s.next, s.ur, s.gap, s.slot)
      BY <1>1, <1>3, <3>2, <3>3, <3>4, <3>5, <3>6, LinkKept
    <3>8. QED
      BY <2>2, <2>3, <3>1, <3>3, <3>7 DEF Link
  <2>6. Quiet(p)
    BY <1>0, <2>2, RunningQuiet DEF SameMode
  <2>7. Onward(rs, p)
    BY <1>1, <1>3, <2>2 DEF Onward, SameSession, SameMode
  <2>8. QED
    BY <1>6, <2>1, <2>2, <2>4, <2>5, <2>6, <2>7 DEF StreamOK, Linked
<1>7. CASE rs' = [rs EXCEPT !.grace = FALSE, !.redeliver = TRUE]
  <2>1. PICK p : p = [rs EXCEPT !.grace = FALSE, !.redeliver = TRUE]
    OBVIOUS
  <2>2. /\ p \in Stream /\ p.next = rs.next /\ p.recs = rs.recs /\ p.low = rs.low
        /\ p.gapOut = rs.gapOut /\ p.trim = rs.trim /\ p.loop = rs.loop
        /\ p.snd = rs.snd /\ p.marks = rs.marks /\ p.mode = rs.mode /\ p.rewound = rs.rewound
    BY <1>0, <2>1 DEF Stream
  <2>3. High(p) = High(rs)
    BY <2>2, HighSame
  <2>4. Window(p) /\ Linked(p)
    BY <1>0, <2>2, <2>3 DEF Window, Linked, Link
  <2>5. \A n \in Shards : p.snd[n].slot # p.next
    <3> SUFFICES ASSUME NEW n \in Shards PROVE rs.snd[n].slot # rs.next
      BY <2>2
    <3>1. Link(rs, rs.snd[n])
      BY <1>0 DEF Linked
    <3>2. QED
      BY <1>0, <1>1, <3>1 DEF Link, LinkAt
  <2>6. Quiet(p)
    BY <1>0, <2>2, <2>5, RunningQuiet
  <2>7. Onward(rs, p)
    BY <1>1, <2>2 DEF Onward, SameSession
  <2>8. QED
    BY <1>7, <2>1, <2>2, <2>4, <2>6, <2>7 DEF StreamOK
<1>8. QED
  BY <1>5, <1>6, <1>7

LEMMA NoProgressStep ==
    ASSUME StreamOK(rs), NoProgress
    PROVE  StreamOK(rs') /\ Onward(rs, rs')
<1>0. /\ rs \in Stream /\ Window(rs) /\ Linked(rs) /\ Quiet(rs)
      /\ rs.loop = "run" /\ ~Done(rs) /\ (Blocked \/ AtHole)
  BY DEF StreamOK, NoProgress, Running
<1>1. /\ rs.next \in Nat /\ rs.next >= 1 /\ High(rs) \in Nat /\ rs.low \in Nat
      /\ rs.next =< MaxLsn /\ MaxLsn \in Nat /\ High(rs) =< MaxLsn
      /\ rs.marks \subseteq rs.next..High(rs)
  BY <1>0, SizeAssumption, StreamFields, HighType DEF Window, Done
<1>2. PICK b \in BOOLEAN : b = (CheckFMajority(rs) = "WAIT_FOR_GRACE_PERIOD"
                                  /\ (rs.grace \/ GapEnd(rs) # 0))
  OBVIOUS
<1>3. PICK r : r = IF AtHole THEN [rs EXCEPT !.grace = b] ELSE rs
  OBVIOUS
<1>4. rs' = IF r.next > SlideAfter(r) /\ MaxLsn > High(r)
            THEN SlideSenderWindows(r) ELSE EndLoop(r)
  BY <1>2, <1>3 DEF NoProgress
<1>5. r \in Stream /\ Alike(rs, r) /\ r.loop = rs.loop
  <2>1. CASE r = [rs EXCEPT !.grace = b]
    BY <1>0, <2>1 DEF Stream, Alike, SameBuffer, SameMode, SameSession, SameLink
  <2>2. CASE r = rs
    BY <1>0, <2>2, AlikeReflexive
  <2>3. QED
    BY <1>3, <2>1, <2>2
<1>6. Window(r) /\ Linked(r)
  BY <1>0, <1>5, AlikeInv
<1>7. r.next = rs.next /\ r.low = rs.low /\ r.trim = rs.trim /\ r.redeliver = rs.redeliver
  BY <1>5 DEF Alike, SameBuffer, SameMode
<1>8. Onward(rs, r)
  BY <1>0, <1>5, AlikeOnward
<1>9. High(r) = High(rs)
  BY <1>7, HighSame
<1>10. CASE rs' = SlideSenderWindows(r)
  <2>1. PICK q : q = SlideSenderWindows(r)
    OBVIOUS
  <2>2. ~Done(r)
    BY <1>0, <1>7 DEF Done
  <2>3. /\ q \in Stream
        /\ q.next = r.next /\ q.recs = r.recs /\ q.trim = r.trim
        /\ SameMode(r, q) /\ q.loop = r.loop
        /\ \A n \in Shards : SameSession(r.snd[n], q.snd[n])
        /\ Window(q) /\ Linked(q)
        /\ \A n \in Shards : q.snd[n].slot # q.next
    BY <1>5, <1>6, <2>1, <2>2, SlideInv
  <2>4. q.low >= r.low
    <3>1. q.low = r.next
      BY <1>5, <1>6, <2>1, <2>2, SlideInv
    <3>2. QED
      BY <1>1, <1>6, <1>7, <3>1 DEF Window
  <2>5. Onward(rs, q)
    BY <1>1, <1>7, <1>8, <2>3, <2>4 DEF Onward, SameMode, SameSession
  <2>6. Quiet(q)
    BY <1>0, <1>5, <2>3, RunningQuiet
  <2>7. QED
    BY <1>10, <2>1, <2>3, <2>5, <2>6 DEF StreamOK
<1>11. CASE rs' = EndLoop(r) /\ ~(r.next > SlideAfter(r) /\ MaxLsn > High(r))
  <2>1. PICK q : q = EndLoop(r)
    OBVIOUS
  <2>2. q \in Stream /\ Alike(r, q) /\ q.loop = "idle"
    BY <1>5, <2>1, EndLoopAlike
  <2>3. Window(q) /\ Linked(q) /\ Alike(rs, q)
    BY <1>5, <1>6, <2>2, AlikeInv, AlikeTransitive
  <2>4. Onward(rs, q)
    BY <1>0, <2>3, AlikeOnward
  <2>5. /\ q.next = rs.next /\ q.low = rs.low /\ q.trim = rs.trim
        /\ q.redeliver = rs.redeliver
        /\ \A n \in Shards : q.snd[n].slot = rs.snd[n].slot
    BY <2>3 DEF Alike, SameBuffer, SameMode, SameLink
  <2>6. rs.next =< High(rs)
    <3> SUFFICES ASSUME rs.next > High(rs) PROVE FALSE
      BY <1>1
    <3>1. MaxLsn > High(rs)
      BY <1>1
    <3>2. High(rs) = rs.low + WindowSize - 1
      BY <1>1, <3>1, SizeAssumption DEF High
    <3>3. SlideAfter(rs) =< High(rs)
      BY <1>1, <3>2, SizeAssumption DEF SlideAfter
    <3>4. SlideAfter(r) = SlideAfter(rs) /\ SlideAfter(rs) \in Int
      BY <1>1, <1>7, SizeAssumption DEF SlideAfter
    <3>5. QED
      BY <1>1, <1>7, <1>9, <1>11, <3>1, <3>3, <3>4
  <2>7. ASSUME NEW n \in Shards, q.snd[n].slot = q.next
        PROVE  q.redeliver /\ CanSkipTrimmed(q)
    <3>1. rs.snd[n].slot = rs.next
      BY <2>5, <2>7
    <3>2. rs.next \in rs.marks
      <4>1. Link(rs, rs.snd[n])
        BY <1>0 DEF Linked
      <4>2. QED
        BY <1>1, <3>1, <4>1 DEF Link, LinkAt
    <3>3. ~AtHole
      BY <3>2 DEF AtHole
    <3>4. rs.redeliver
      BY <1>0, <1>1, <2>6, <3>3 DEF Blocked
    <3>5. CanSkipTrimmed(rs)
      BY <1>0, <3>1, <3>4 DEF Quiet
    <3>6. QED
      BY <2>5, <3>4, <3>5 DEF CanSkipTrimmed
  <2>8. High(q) = High(rs)
    BY <2>5, HighSame
  <2>9. Quiet(q)
    BY <2>2, <2>5, <2>6, <2>7, <2>8 DEF Quiet
  <2>10. QED
    BY <1>11, <2>1, <2>2, <2>3, <2>4, <2>9 DEF StreamOK
<1>12. QED
  BY <1>4, <1>10, <1>11

LEMMA AlikeStep ==
    ASSUME NEW r, StreamOK(r), NEW q \in Stream, Alike(r, q),
           q.loop = r.loop \/ q.loop = "run"
    PROVE  StreamOK(q) /\ Onward(r, q)
<1>0. r \in Stream /\ Window(r) /\ Linked(r) /\ Quiet(r)
  BY DEF StreamOK
<1>1. Window(q) /\ Linked(q)
  BY <1>0, AlikeInv
<1>2. Onward(r, q)
  BY <1>0, AlikeOnward
<1>3. /\ q.next = r.next /\ q.low = r.low /\ q.trim = r.trim /\ q.redeliver = r.redeliver
      /\ \A n \in Shards : q.snd[n].slot = r.snd[n].slot
  BY DEF Alike, SameBuffer, SameMode, SameLink
<1>4. High(q) = High(r)
  BY <1>3, HighSame
<1>5. Quiet(q)
  <2>1. CASE q.loop = "run"
    BY <1>0, <1>3, <2>1 DEF Quiet, CanSkipTrimmed
  <2>2. CASE q.loop = r.loop
    BY <1>0, <1>3, <1>4, <2>2 DEF Quiet, CanSkipTrimmed, Done
  <2>3. QED
    BY <2>1, <2>2
<1>6. QED
  BY <1>1, <1>2, <1>5 DEF StreamOK

LEMMA GracePeriodExpiredStep ==
    ASSUME StreamOK(rs), GracePeriodExpired
    PROVE  StreamOK(rs') /\ Onward(rs, rs')
<1> DEFINE Strike(s) == IF s.gap = "NONE" /\ s.strikes =< GraceLimit
                        THEN [s EXCEPT !.strikes = @ + 1] ELSE s
           snd == [n \in Shards |-> Strike(rs.snd[n])]
<1>0. rs \in Stream
  BY DEF StreamOK
<1>1. PICK p : p = [rs EXCEPT !.grace = FALSE, !.snd = snd]
  OBVIOUS
<1>2. rs' = RunLoop(p, TRUE, FALSE, NoShard)
  BY <1>1 DEF GracePeriodExpired
<1>3. ASSUME NEW n \in Shards
      PROVE  /\ snd[n] \in Sender
             /\ SameSession(rs.snd[n], snd[n]) /\ SameLink(rs.snd[n], snd[n])
  <2>1. PICK s : s = rs.snd[n]
    OBVIOUS
  <2>2. s \in Sender
    BY <1>0, <2>1, SenderOf
  <2>3. CASE snd[n] = s
    BY <2>1, <2>2, <2>3 DEF SameSession, SameLink
  <2>4. CASE snd[n] = [s EXCEPT !.strikes = @ + 1]
    <3> HIDE DEF snd
    <3>1. QED
      BY <2>1, <2>2, <2>4 DEF Sender, SameSession, SameLink
  <2>5. QED
    BY <2>1, <2>3, <2>4
<1>4. snd \in [Shards -> Sender]
  BY <1>3
<1> HIDE DEF snd
<1>5. /\ p \in Stream /\ p.snd = snd /\ SameBuffer(rs, p) /\ SameMode(rs, p)
      /\ p.loop = rs.loop
  BY <1>0, <1>1, <1>4 DEF Stream, SameBuffer, SameMode
<1>6. Alike(rs, p)
  BY <1>3, <1>5 DEF Alike
<1>7. rs' \in Stream /\ Alike(p, rs') /\ rs'.loop = "run"
  BY <1>2, <1>5, RunLoopAlike
<1>8. QED
  BY <1>6, <1>7, AlikeTransitive, AlikeStep

LEMMA RedeliverStep ==
    ASSUME StreamOK(rs), Redeliver
    PROVE  StreamOK(rs') /\ Onward(rs, rs')
<1>0. rs \in Stream /\ Window(rs) /\ Linked(rs)
  BY DEF StreamOK
<1>1. PICK p : p = [rs EXCEPT !.redeliver = FALSE]
  OBVIOUS
<1>2. rs' = RunLoop(p, FALSE, TRUE, NoShard)
  BY <1>1 DEF Redeliver
<1>3. /\ p \in Stream /\ p.snd = rs.snd /\ SameBuffer(rs, p) /\ p.redeliver = FALSE
      /\ p.mode = rs.mode /\ p.rewound = rs.rewound
  BY <1>0, <1>1 DEF Stream, SameBuffer
<1>4. /\ p.next = rs.next /\ p.low = rs.low /\ p.recs = rs.recs /\ p.marks = rs.marks
      /\ p.gapOut = rs.gapOut /\ p.trim = rs.trim
  BY <1>3 DEF SameBuffer
<1>5. High(p) = High(rs)
  BY <1>4, HighSame
<1>6. Window(p) /\ Linked(p)
  BY <1>0, <1>3, <1>4, <1>5 DEF Window, Linked, Link
<1>7. rs' \in Stream /\ Alike(p, rs') /\ rs'.loop = "run"
  BY <1>2, <1>3, RunLoopAlike
<1>8. Window(rs') /\ Linked(rs')
  BY <1>3, <1>6, <1>7, AlikeInv
<1>9. rs'.redeliver = FALSE
  BY <1>3, <1>7 DEF Alike, SameMode
<1>10. Quiet(rs')
  BY <1>7, <1>9 DEF Quiet
<1>11. Onward(p, rs')
  BY <1>3, <1>7, AlikeOnward
<1>12. Onward(rs, rs')
  BY <1>3, <1>4, <1>11 DEF Onward
<1>13. QED
  BY <1>7, <1>8, <1>10, <1>12 DEF StreamOK

LEMMA ShardsDownTimeoutStep ==
    ASSUME StreamOK(rs), ShardsDownTimeout
    PROVE  StreamOK(rs') /\ Onward(rs, rs')
<1>0. rs \in Stream /\ Silent \subseteq Shards
  BY DEF StreamOK, Silent
<1>1. PICK p : p = [rs EXCEPT !.newDown = @ \cup Silent, !.due = TRUE]
  OBVIOUS
<1>2. p \in Stream /\ Alike(rs, p) /\ p.loop = rs.loop
  BY <1>0, <1>1 DEF Stream, Alike, SameBuffer, SameMode, SameSession, SameLink
<1>3. rs' = p
  BY <1>1 DEF ShardsDownTimeout
<1>4. QED
  BY <1>2, <1>3, AlikeStep

LEMMA AllSendAllTimeoutStep ==
    ASSUME StreamOK(rs), AllSendAllTimeout
    PROVE  StreamOK(rs') /\ Onward(rs, rs')
<1>0. rs \in Stream
  BY DEF StreamOK
<1>1. rs' = ScheduleRewindToMode(rs, "ALL")
  BY DEF AllSendAllTimeout
<1>2. rs' \in Stream /\ Alike(rs, rs') /\ rs'.loop = rs.loop
  BY <1>0, <1>1, ScheduleRewindAlike
<1>3. QED
  BY <1>2, AlikeStep

\* From r to q the stream has been rewound.
Rewound(r, q) ==
    /\ q.next = r.next /\ q.low = r.low /\ q.rewound
    /\ \A n \in Shards : Restarted(q, q.snd[n]) /\ ~q.snd[n].current

LEMMA RewindOnDataLossStep ==
    ASSUME StreamOK(rs), RewindOnDataLoss
    PROVE  StreamOK(rs') /\ Rewound(rs, rs')
<1>0. rs \in Stream /\ Window(rs) /\ rs.loop = "run" /\ rs.redeliver = FALSE /\ rs.next \in Nat
  BY StreamFields DEF StreamOK, RewindOnDataLoss, Running, AtHole, Blocked
<1>1. PICK p : p = [rs EXCEPT !.retried = rs.next]
  OBVIOUS
<1>2. PICK q : q = Rewind(p)
  OBVIOUS
<1>3. rs' = [q EXCEPT !.grace = FALSE, !.redelivering = FALSE]
  BY <1>1, <1>2 DEF RewindOnDataLoss
<1>4. p \in Stream /\ SameBuffer(rs, p) /\ p.loop = "run" /\ p.redeliver = FALSE
  BY <1>0, <1>1 DEF Stream, SameBuffer
<1>5. p.next = rs.next /\ p.low = rs.low
  BY <1>4 DEF SameBuffer
<1>6. High(p) = High(rs)
  BY <1>5, HighSame
<1>7. Window(p)
  BY <1>0, <1>4, <1>6 DEF Window, SameBuffer
<1>8. /\ q \in Stream /\ q.next = p.next /\ q.low = p.low /\ q.redeliver = p.redeliver
      /\ q.loop = p.loop /\ q.rewound
      /\ \A n \in Shards : Restarted(q, q.snd[n]) /\ ~q.snd[n].current
  BY <1>2, <1>4, RewindFields
<1>9. Window(q) /\ Linked(q) /\ \A n \in Shards : q.snd[n].slot # q.next
  BY <1>2, <1>4, <1>7, RewindInv
<1>10. Quiet(q)
  BY <1>4, <1>8, <1>9 DEF Quiet
<1>11. rs' \in Stream /\ Alike(q, rs') /\ rs'.loop = q.loop /\ rs'.snd = q.snd
  BY <1>3, <1>8 DEF Stream, Alike, SameBuffer, SameMode, SameSession, SameLink
<1>12. StreamOK(rs')
  BY <1>8, <1>9, <1>10, <1>11, AlikeStep DEF StreamOK
<1>13. rs'.next = q.next /\ rs'.low = q.low /\ rs'.rewound = q.rewound /\ rs'.mode = q.mode
  BY <1>11 DEF Alike, SameBuffer, SameMode
<1>14. High(rs') = High(q)
  BY <1>13, HighSame
<1>15. QED
  BY <1>5, <1>8, <1>11, <1>12, <1>13, <1>14 DEF Rewound, Restarted

LEMMA ScheduledRewindStep ==
    ASSUME StreamOK(rs), ScheduledRewind
    PROVE  StreamOK(rs') /\ Rewound(rs, rs')
<1>0. rs \in Stream /\ Window(rs) /\ Quiet(rs) /\ rs' = Rewind(rs)
  BY DEF StreamOK, ScheduledRewind
<1>1. /\ rs' \in Stream /\ rs'.next = rs.next /\ rs'.low = rs.low
      /\ rs'.redeliver = rs.redeliver /\ rs'.loop = rs.loop /\ rs'.rewound
      /\ \A n \in Shards : Restarted(rs', rs'.snd[n]) /\ ~rs'.snd[n].current
  BY <1>0, RewindFields
<1>2. Window(rs') /\ Linked(rs') /\ \A n \in Shards : rs'.snd[n].slot # rs'.next
  BY <1>0, RewindInv
<1>3. High(rs') = High(rs)
  BY <1>1, HighSame
<1>4. Quiet(rs')
  BY <1>0, <1>1, <1>2, <1>3 DEF Quiet, Done
<1>5. QED
  BY <1>1, <1>2, <1>4 DEF StreamOK, Rewound

-----------------------------------------------------------------------------
(* The connections.                                                        *)

\* From r to q the session with shard n alone changes.
Others(r, q, n) ==
    /\ q.next = r.next /\ q.low = r.low /\ q.mode = r.mode /\ q.rewound = r.rewound
    /\ r.trim =< q.trim /\ r.recs \subseteq q.recs
    /\ \A k \in Shards : k # n => SameSession(r.snd[k], q.snd[k])

LEMMA SameLinkStep ==
    ASSUME NEW r, StreamOK(r), NEW q \in Stream, NEW n \in Shards,
           SameBuffer(r, q), SameMode(r, q), q.loop = r.loop,
           \A k \in Shards : k # n => q.snd[k] = r.snd[k],
           SameLink(r.snd[n], q.snd[n])
    PROVE  StreamOK(q) /\ Others(r, q, n)
<1>0. r \in Stream /\ Window(r) /\ Linked(r) /\ Quiet(r) /\ r.trim \in Nat
  BY StreamFields DEF StreamOK
<1>1. /\ q.next = r.next /\ q.low = r.low /\ q.recs = r.recs /\ q.marks = r.marks
      /\ q.gapOut = r.gapOut /\ q.trim = r.trim /\ q.redeliver = r.redeliver
      /\ q.mode = r.mode /\ q.rewound = r.rewound
  BY DEF SameBuffer, SameMode
<1>2. High(q) = High(r)
  BY <1>1, HighSame
<1>3. \A k \in Shards : SameLink(r.snd[k], q.snd[k])
  BY DEF SameLink
<1>4. Window(q)
  BY <1>0, <1>1, <1>2 DEF Window
<1>5. Linked(q)
  BY <1>0, <1>1, <1>2, <1>3 DEF Linked, Link, SameLink
<1>6. Quiet(q)
  BY <1>0, <1>1, <1>2, <1>3 DEF Quiet, CanSkipTrimmed, Done, SameLink
<1>7. Others(r, q, n)
  BY <1>0, <1>1 DEF Others, SameSession
<1>8. QED
  BY <1>4, <1>5, <1>6, <1>7 DEF StreamOK

LEMMA ServerStartStep ==
    ASSUME StreamOK(rs), NEW n \in Shards, ServerStart(n)
    PROVE  /\ StreamOK(rs') /\ Others(rs, rs', n)
           /\ rs'.snd[n].next = rs.snd[n].next /\ rs'.snd[n].start = NoStart
           /\ rs'.snd[n].conn = rs.snd[n].conn /\ rs'.snd[n].current = rs.snd[n].current
<1>0. rs \in Stream
  BY DEF StreamOK
<1>1. NoStart \in StartMessage
  BY DEF NoStart, StartMessage
<1>2. PICK x : x = NoStart
  OBVIOUS
<1>3. PICK s : s = [rs.snd[n] EXCEPT !.start = x]
  OBVIOUS
<1>4. rs.snd[n] \in Sender
  BY <1>0, SenderOf
<1>5. /\ s \in Sender /\ SameLink(rs.snd[n], s) /\ s.start = x
      /\ s.conn = rs.snd[n].conn /\ s.current = rs.snd[n].current
  BY <1>1, <1>2, <1>3, <1>4 DEF Sender, SameLink
<1>6. rs' = WithSender(rs, n, s)
  BY <1>2, <1>3 DEF ServerStart
<1>7. /\ rs' \in Stream
      /\ rs'.snd[n] = s /\ \A m \in Shards : m # n => rs'.snd[m] = rs.snd[m]
      /\ SameBuffer(rs, rs') /\ SameMode(rs, rs') /\ rs'.loop = rs.loop
  BY <1>0, <1>5, <1>6, WithSenderFields
<1>8. StreamOK(rs') /\ Others(rs, rs', n)
  BY <1>5, <1>7, SameLinkStep
<1>9. QED
  BY <1>2, <1>5, <1>7, <1>8 DEF SameLink

\* reconnectTimerCallback() and startedTimerCallback()
LEMMA StartStep ==
    ASSUME StreamOK(rs), NEW n \in Shards,
           rs' = RunLoop(SendStart(rs, n), FALSE, FALSE, NoShard)
    PROVE  /\ StreamOK(rs') /\ Others(rs, rs', n)
           /\ rs'.snd[n].next = rs.next /\ rs'.snd[n].conn = "CONNECTING"
           /\ rs'.snd[n].start.lsn = rs.next
           /\ rs'.snd[n].start.scd = (rs.mode = "SCD")
           /\ rs'.snd[n].current = rs.snd[n].current
<1>0. rs \in Stream /\ Window(rs) /\ Linked(rs) /\ Quiet(rs) /\ rs.trim \in Nat
  BY StreamFields DEF StreamOK
<1>1. PICK q : q = SendStart(rs, n)
  OBVIOUS
<1>2. /\ q \in Stream /\ SameBuffer(rs, q) /\ SameMode(rs, q) /\ q.loop = rs.loop
      /\ \A m \in Shards : m # n => q.snd[m] = rs.snd[m]
      /\ Restarted(q, q.snd[n]) /\ q.snd[n].current = rs.snd[n].current
  BY <1>0, <1>1, SendStartFields
<1>3. /\ q.next = rs.next /\ q.low = rs.low /\ q.recs = rs.recs /\ q.marks = rs.marks
      /\ q.gapOut = rs.gapOut /\ q.trim = rs.trim /\ q.redeliver = rs.redeliver
      /\ q.mode = rs.mode /\ q.rewound = rs.rewound
  BY <1>2 DEF SameBuffer, SameMode
<1>4. High(q) = High(rs)
  BY <1>3, HighSame
<1>5. Window(q)
  BY <1>0, <1>3, <1>4 DEF Window
<1>6. Link(q, q.snd[n]) /\ q.snd[n].slot # q.next
  BY <1>2, <1>5, RestartedLink
<1>7. \A m \in Shards : m # n => Link(q, q.snd[m])
  BY <1>0, <1>2, <1>3, <1>4 DEF Linked, Link
<1>8. \A m \in Shards : q.snd[m].slot = q.next => rs.snd[m].slot = rs.next
  BY <1>2, <1>3, <1>6
<1>9. Quiet(q)
  BY <1>0, <1>2, <1>3, <1>4, <1>8 DEF Quiet, CanSkipTrimmed, Done
<1>10. StreamOK(q)
  BY <1>2, <1>5, <1>6, <1>7, <1>9 DEF StreamOK, Linked
<1>11. rs' \in Stream /\ Alike(q, rs') /\ rs'.loop = "run"
  BY <1>1, <1>2, RunLoopAlike
<1>12. StreamOK(rs')
  BY <1>10, <1>11, AlikeStep
<1>13. /\ rs'.next = q.next /\ rs'.low = q.low /\ rs'.recs = q.recs /\ rs'.trim = q.trim
       /\ rs'.mode = q.mode /\ rs'.rewound = q.rewound
       /\ \A m \in Shards : SameSession(q.snd[m], rs'.snd[m])
  BY <1>11 DEF Alike, SameBuffer, SameMode
<1>14. Others(rs, rs', n)
  <2>a. \A x \in Nat : x =< x
    OBVIOUS
  <2>1. \A k \in Shards : k # n => SameSession(rs.snd[k], rs'.snd[k])
    BY <1>2, <1>13 DEF SameSession
  <2>2. /\ rs'.next = rs.next /\ rs'.low = rs.low /\ rs'.mode = rs.mode
        /\ rs'.rewound = rs.rewound /\ rs'.recs = rs.recs /\ rs'.trim = rs.trim
    BY <1>3, <1>13, Zenon
  <2>3. rs.trim =< rs'.trim
    BY <1>0, <2>2, <2>a, Zenon
  <2>4. rs.recs \subseteq rs'.recs
    BY <2>2
  <2>5. QED
    BY <2>1, <2>2, <2>3, <2>4, Zenon DEF Others
<1>15. /\ rs'.snd[n].next = q.next /\ rs'.snd[n].conn = "CONNECTING"
       /\ rs'.snd[n].start.lsn = q.next /\ rs'.snd[n].start.scd = (q.mode = "SCD")
       /\ rs'.snd[n].current = rs.snd[n].current
  BY <1>2, <1>13 DEF SameSession, Restarted
<1>16. QED
  BY <1>3, <1>12, <1>14, <1>15

\* The connection to shard n is gone: StartFails, Disconnect.
LEMMA FailureStep ==
    ASSUME StreamOK(rs), NEW n \in Shards, NEW b \in BOOLEAN, NEW s,
           s = [rs.snd[n] EXCEPT !.current = b, !.start = NoStart],
           rs' = OnConnectionFailure(WithSender(rs, n, s), n)
    PROVE  /\ StreamOK(rs') /\ Others(rs, rs', n)
           /\ rs'.snd[n].next = rs.snd[n].next /\ rs'.snd[n].start = NoStart
           /\ rs'.snd[n].conn = rs.snd[n].conn \/ rs'.snd[n].conn = "RECONNECT_PENDING"
           /\ rs'.snd[n].current = b
<1>0. rs \in Stream
  BY DEF StreamOK
<1>1. NoStart \in StartMessage
  BY DEF NoStart, StartMessage
<1>2. PICK x : x = NoStart
  OBVIOUS
<1>4. rs.snd[n] \in Sender
  BY <1>0, SenderOf
<1>5. /\ s \in Sender /\ SameLink(rs.snd[n], s) /\ s.start = x
      /\ s.conn = rs.snd[n].conn /\ s.current = b
  BY <1>1, <1>2, <1>4 DEF Sender, SameLink
<1>6. PICK q : q = WithSender(rs, n, s)
  OBVIOUS
<1>7. /\ q \in Stream
      /\ q.snd[n] = s /\ \A m \in Shards : m # n => q.snd[m] = rs.snd[m]
      /\ SameBuffer(rs, q) /\ SameMode(rs, q) /\ q.loop = rs.loop
  BY <1>0, <1>5, <1>6, WithSenderFields
<1>8. StreamOK(q) /\ Others(rs, q, n)
  BY <1>5, <1>7, SameLinkStep
<1>9. /\ rs' \in Stream /\ SameBuffer(q, rs') /\ SameMode(q, rs') /\ rs'.loop = q.loop
      /\ \A m \in Shards : m # n => rs'.snd[m] = q.snd[m]
      /\ SameLink(q.snd[n], rs'.snd[n])
      /\ rs'.snd[n].current = q.snd[n].current /\ rs'.snd[n].start = q.snd[n].start
      /\ rs'.snd[n].conn = q.snd[n].conn \/ rs'.snd[n].conn = "RECONNECT_PENDING"
  BY <1>6, <1>7, ConnectionFailureFields
<1>10. StreamOK(rs') /\ Others(q, rs', n)
  BY <1>8, <1>9, SameLinkStep
<1>11. Others(rs, rs', n)
  <2>1. rs.trim \in Nat /\ q.trim \in Nat /\ rs'.trim \in Nat
    BY <1>0, <1>7, <1>9, StreamFields
  <2>2. QED
    BY <1>8, <1>10, <2>1 DEF Others, SameSession
<1>12. QED
  BY <1>2, <1>5, <1>7, <1>9, <1>10, <1>11 DEF SameLink

LEMMA StartFailsStep ==
    ASSUME StreamOK(rs), NEW n \in Shards, StartFails(n), rs.snd[n].current = FALSE
    PROVE  /\ StreamOK(rs') /\ Others(rs, rs', n)
           /\ rs'.snd[n].next = rs.snd[n].next /\ rs'.snd[n].start = NoStart
           /\ rs'.snd[n].conn = rs.snd[n].conn \/ rs'.snd[n].conn = "RECONNECT_PENDING"
           /\ rs'.snd[n].current = FALSE
<1>1. rs.snd[n] \in Sender
  BY SenderOf DEF StreamOK
<1>2. [rs.snd[n] EXCEPT !.start = NoStart]
        = [rs.snd[n] EXCEPT !.current = FALSE, !.start = NoStart]
  BY <1>1 DEF Sender
<1>3. rs' = OnConnectionFailure(WithSender(rs, n,
                [rs.snd[n] EXCEPT !.current = FALSE, !.start = NoStart]), n)
  BY <1>2 DEF StartFails
<1>4. QED
  BY <1>3, FailureStep

LEMMA DisconnectStep ==
    ASSUME StreamOK(rs), NEW n \in Shards, Disconnect(n),
           rs.snd[n].conn = "RECONNECT_PENDING" =>
                rs.snd[n].current = FALSE /\ rs.snd[n].start = NoStart
    PROVE  /\ StreamOK(rs') /\ Others(rs, rs', n)
           /\ rs'.snd[n].next = rs.snd[n].next /\ rs'.snd[n].start = NoStart
           /\ rs'.snd[n].conn = rs.snd[n].conn \/ rs'.snd[n].conn = "RECONNECT_PENDING"
           /\ rs'.snd[n].current = FALSE
<1>1. CASE rs.snd[n].conn = "RECONNECT_PENDING"
  <2>1. rs' = rs
    BY <1>1 DEF Disconnect
  <2>2. rs.trim \in Nat
    BY StreamFields DEF StreamOK
  <2>3. QED
    BY <1>1, <2>1, <2>2 DEF Others, SameSession
<1>2. CASE rs.snd[n].conn # "RECONNECT_PENDING"
  <2>1. rs' = OnConnectionFailure(WithSender(rs, n,
                [rs.snd[n] EXCEPT !.current = FALSE, !.start = NoStart]), n)
    BY <1>2 DEF Disconnect
  <2>2. QED
    BY <2>1, FailureStep
<1>3. QED
  BY <1>1, <1>2

LEMMA AdvancedStep ==
    ASSUME NEW r, StreamOK(r), NEW q \in Stream, Window(q), Linked(q), NEW n \in Shards,
           NEW l, Advanced(r, q, n, l), r.recs \subseteq q.recs, r.trim =< q.trim,
           q.loop = r.loop \/ q.loop = "run"
    PROVE  StreamOK(q) /\ Others(r, q, n)
<1>0. r \in Stream /\ Quiet(r)
  BY DEF StreamOK
<1>1. /\ q.next = r.next /\ q.low = r.low /\ q.mode = r.mode /\ q.rewound = r.rewound
      /\ q.redeliver = r.redeliver
      /\ \A k \in Shards : k # n => SameSession(r.snd[k], q.snd[k])
      /\ \A k \in Shards : q.snd[k].slot = q.next => r.snd[k].slot = r.next
  BY DEF Advanced, SameMode
<1>2. High(q) = High(r)
  BY <1>1, HighSame
<1>3. CanSkipTrimmed(r) => CanSkipTrimmed(q)
  <2>1. r.trim \in Nat /\ q.trim \in Nat /\ r.next \in Nat
    BY <1>0, StreamFields
  <2>2. QED
    BY <1>1, <2>1 DEF CanSkipTrimmed
<1>4. Quiet(q)
  BY <1>0, <1>1, <1>2, <1>3 DEF Quiet, Done
<1>5. QED
  BY <1>1, <1>4 DEF StreamOK, Others

\* What the client makes of the next message of shard n.
LEMMA ReceiveStep ==
    ASSUME StreamOK(rs), NEW n \in Shards, Receive(n), NEW m \in Message,
           m = Head(chan[n]),
           m.type = "RECORD" => m.lsn =< High(rs),
           (m.type = "GAP" /\ Accepts(rs, n)) =>
                rs.snd[n].next =< m.lsn + 1 \/ rs.snd[n].next =< rs.next
    PROVE  /\ StreamOK(rs') /\ Others(rs, rs', n)
           /\ rs'.snd[n].start = rs.snd[n].start
           /\ m.type = "STARTED" =>
                IF m.current /\ rs.snd[n].conn # "READING"
                THEN /\ rs'.snd[n].conn = "READING" /\ rs'.snd[n].current
                     /\ rs'.snd[n].next = rs.snd[n].next
                ELSE SameSession(rs.snd[n], rs'.snd[n])
           /\ (m.type # "STARTED" /\ ~Accepts(rs, n)) => SameSession(rs.snd[n], rs'.snd[n])
           /\ (m.type # "STARTED" /\ Accepts(rs, n)) =>
                /\ rs'.snd[n].conn = rs.snd[n].conn
                /\ rs'.snd[n].current = rs.snd[n].current
                /\ rs'.snd[n].next = IF m.lsn + 1 < rs.snd[n].next
                                     THEN rs.snd[n].next ELSE m.lsn + 1
                /\ (m.type = "RECORD" /\ m.lsn >= rs.next /\ m.lsn >= rs.snd[n].next)
                        => m.lsn \in rs'.recs
                /\ (m.type = "GAP" /\ m.reason = "TRIM") => m.lsn =< rs'.trim
<1>0. rs \in Stream /\ Window(rs) /\ Linked(rs) /\ rs.trim \in Nat
  BY StreamFields DEF StreamOK
<1>1. PICK q : q = rs'
  OBVIOUS
<1>2. Others(rs, rs, n) /\ SameSession(rs.snd[n], rs.snd[n])
  BY <1>0 DEF Others, SameSession
<1>3. CASE m.type = "STARTED"
  <2>1. q = OnStarted(rs, n, m)
    BY <1>1, <1>3 DEF Receive
  <2>2. /\ q \in Stream /\ Window(q) /\ Linked(q)
        /\ (~m.current \/ rs.snd[n].conn = "READING") => q = rs
        /\ SameBuffer(rs, q) /\ SameMode(rs, q) /\ q.loop = rs.loop
        /\ \A k \in Shards : k # n => q.snd[k] = rs.snd[k]
        /\ q.snd[n].start = rs.snd[n].start /\ q.snd[n].next = rs.snd[n].next
        /\ q.snd[n].slot = rs.snd[n].slot
        /\ (m.current /\ rs.snd[n].conn # "READING") =>
                q.snd[n].conn = "READING" /\ q.snd[n].current
    BY <1>0, <2>1, OnStartedInv
  <2>3. /\ q.next = rs.next /\ q.low = rs.low /\ q.recs = rs.recs /\ q.trim = rs.trim
        /\ q.redeliver = rs.redeliver /\ q.mode = rs.mode /\ q.rewound = rs.rewound
        /\ \A k \in Shards : q.snd[k].slot = rs.snd[k].slot
    BY <2>2 DEF SameBuffer, SameMode
  <2>4. High(q) = High(rs)
    BY <2>3, HighSame
  <2>5. Quiet(q)
    BY <2>2, <2>3, <2>4 DEF StreamOK, Quiet, CanSkipTrimmed, Done
  <2>6. StreamOK(q)
    BY <2>2, <2>5 DEF StreamOK
  <2>7. Others(rs, q, n)
    BY <1>0, <2>2, <2>3 DEF Others, SameSession
  <2>8. QED
    BY <1>1, <1>2, <1>3, <2>2, <2>6, <2>7
<1>4. CASE m.type = "RECORD"
  <2>1. q = OnDataRecord(rs, n, m) /\ m \in Record
    BY <1>1, <1>4 DEF Receive, Message, Started, Gap
  <2>2. /\ q \in Stream /\ Window(q) /\ Linked(q)
        /\ q.loop = rs.loop \/ q.loop = "run"
        /\ ~Accepts(rs, n) => q = rs
        /\ Accepts(rs, n) =>
                /\ Advanced(rs, q, n, m.lsn + 1) /\ q.trim = rs.trim /\ rs.recs \subseteq q.recs
                /\ (m.lsn >= rs.next /\ m.lsn >= rs.snd[n].next) => m.lsn \in q.recs
    BY <1>0, <1>4, <2>1, OnDataRecordInv
  <2>3. CASE ~Accepts(rs, n)
    BY <1>1, <1>2, <1>4, <2>2, <2>3
  <2>4. CASE Accepts(rs, n)
    <3>1. StreamOK(q) /\ Others(rs, q, n)
      BY <1>0, <2>2, <2>4, AdvancedStep
    <3>2. /\ q.snd[n].conn = rs.snd[n].conn /\ q.snd[n].current = rs.snd[n].current
          /\ q.snd[n].start = rs.snd[n].start
          /\ q.snd[n].next = IF m.lsn + 1 < rs.snd[n].next
                             THEN rs.snd[n].next ELSE m.lsn + 1
      BY <2>2, <2>4 DEF Advanced
    <3>3. QED
      BY <1>1, <1>4, <2>2, <2>4, <3>1, <3>2
  <2>5. QED
    BY <2>3, <2>4
<1>5. CASE m.type = "GAP"
  <2>1. q = OnGap(rs, n, m) /\ m \in Gap
    BY <1>1, <1>5 DEF Receive, Message, Started, Record
  <2>2. /\ q \in Stream /\ Window(q) /\ Linked(q)
        /\ q.loop = rs.loop \/ q.loop = "run"
        /\ ~Accepts(rs, n) => Alike(rs, q) /\ q.loop = rs.loop
        /\ Accepts(rs, n) =>
                /\ Advanced(rs, q, n, m.lsn + 1) /\ q.recs = rs.recs /\ rs.trim =< q.trim
                /\ m.reason = "TRIM" => m.lsn =< q.trim
    BY <1>0, <1>5, <2>1, OnGapInv
  <2>3. CASE ~Accepts(rs, n)
    <3>1. StreamOK(q)
      BY <2>2, <2>3, AlikeStep
    <3>2. SameSession(rs.snd[n], q.snd[n]) /\ q.snd[n].start = rs.snd[n].start
      BY <2>2, <2>3 DEF Alike, SameSession
    <3>3. Others(rs, q, n)
      BY <1>0, <2>2, <2>3 DEF Others, Alike, SameBuffer, SameMode
    <3>4. QED
      BY <1>1, <1>5, <2>3, <3>1, <3>2, <3>3
  <2>4. CASE Accepts(rs, n)
    <3>1. StreamOK(q) /\ Others(rs, q, n)
      BY <1>0, <2>2, <2>4, AdvancedStep
    <3>2. /\ q.snd[n].conn = rs.snd[n].conn /\ q.snd[n].current = rs.snd[n].current
          /\ q.snd[n].start = rs.snd[n].start
          /\ q.snd[n].next = IF m.lsn + 1 < rs.snd[n].next
                             THEN rs.snd[n].next ELSE m.lsn + 1
      BY <2>2, <2>4 DEF Advanced
    <3>3. QED
      BY <1>1, <1>5, <2>2, <2>4, <3>1, <3>2
  <2>5. QED
    BY <2>3, <2>4
<1>6. QED
  BY <1>3, <1>4, <1>5 DEF Message, Started, Record, Gap

-----------------------------------------------------------------------------
(* The sessions with the shards that a step leaves alone.                  *)

ShardInv(n) == Session(n) /\ AllSendAll(n) /\ Order(n) /\ Complete(n)

\* A step that is none of shard k's.
Kept(k) ==
    /\ log' = log /\ srv'[k] = srv[k] /\ chan'[k] = chan[k] /\ (up[k] => up'[k])
    /\ rs.next =< rs'.next /\ High(rs) =< High(rs')
    /\ rs'.mode = rs.mode /\ rs'.rewound = rs.rewound /\ rs.trim =< rs'.trim
    /\ SameSession(rs.snd[k], rs'.snd[k])
    /\ \A l \in rs.recs : rs'.next =< l => l \in rs'.recs

LEMMA ShardTypes ==
    ASSUME Types, NEW n \in Shards
    PROVE  /\ srv[n] \in ServerStream /\ srv[n].last \in Nat /\ srv[n].on \in BOOLEAN
           /\ srv[n].current \in BOOLEAN
           /\ chan[n] \in Seq(Message) /\ Len(chan[n]) \in Nat
           /\ \A i \in 1..Len(chan[n]) : chan[n][i] \in Message
           /\ rs.snd[n].next \in Nat /\ rs.next \in Nat /\ rs.trim \in Nat
           /\ rs.recs \subseteq Nat /\ High(rs) \in Nat
BY StreamFields, SenderOf, HighType DEF Types, ServerStream

LEMMA DataLsn ==
    ASSUME NEW m \in Message, m.type # "STARTED"
    PROVE  m.lsn \in Lsns /\ m.lsn \in Nat /\ m.lsn >= 1 /\ m.lsn =< MaxLsn
BY SizeAssumption DEF Message, Started, Record, Gap, Lsns

LEMMA KeptInv ==
    ASSUME Types, rs' \in Stream, NEW k \in Shards, ShardInv(k), Kept(k)
    PROVE  ShardInv(k)'
<1>0. Session(k) /\ AllSendAll(k) /\ Order(k) /\ Complete(k)
  BY DEF ShardInv
<1>1. /\ srv[k].last \in Nat /\ Len(chan[k]) \in Nat
      /\ \A i \in 1..Len(chan[k]) : chan[k][i] \in Message
      /\ rs.snd[k].next \in Nat /\ rs.next \in Nat /\ rs.trim \in Nat
      /\ rs.recs \subseteq Nat /\ High(rs) \in Nat
  BY ShardTypes
<1>2. rs'.next \in Nat /\ rs'.trim \in Nat /\ High(rs') \in Nat
  BY StreamFields, HighType DEF Types
<1>3. /\ log' = log /\ srv'[k] = srv[k] /\ chan'[k] = chan[k] /\ (up[k] => up'[k])
      /\ rs.next =< rs'.next /\ High(rs) =< High(rs')
      /\ rs'.mode = rs.mode /\ rs'.rewound = rs.rewound /\ rs.trim =< rs'.trim
      /\ rs'.snd[k].current = rs.snd[k].current /\ rs'.snd[k].conn = rs.snd[k].conn
      /\ rs'.snd[k].start = rs.snd[k].start /\ rs'.snd[k].next = rs.snd[k].next
      /\ \A l \in rs.recs : rs'.next =< l => l \in rs'.recs
  BY DEF Kept, SameSession
<1>4. \A i : Live(k, i)' <=> Live(k, i)
  BY <1>3 DEF Live
<1>5. Session(k)'
  BY <1>0, <1>1, <1>2, <1>3 DEF Session
<1>6. AllSendAll(k)'
  BY <1>0, <1>3 DEF AllSendAll
<1>7. Order(k)'
  <2>1. \A i \in 1..Len(chan[k]) : chan[k][i].type = "RECORD" => chan[k][i].lsn =< High(rs')
    <3> SUFFICES ASSUME NEW i \in 1..Len(chan[k]), chan[k][i].type = "RECORD"
                 PROVE  chan[k][i].lsn =< High(rs')
      OBVIOUS
    <3>1. chan[k][i].lsn \in Nat
      BY <1>1, DataLsn
    <3>2. chan[k][i].lsn =< High(rs)
      BY <1>0 DEF Order
    <3>3. QED
      BY <1>1, <1>2, <1>3, <3>1, <3>2
  <2>2. ASSUME NEW i \in 1..Len(chan[k]), Live(k, i), IsData(chan[k][i])
        PROVE  rs.snd[k].next =< chan[k][i].lsn + 1 \/ rs.snd[k].next =< rs'.next
    <3>1. chan[k][i].lsn \in Nat
      BY <1>1, <2>2, DataLsn DEF IsData
    <3>2. rs.snd[k].next =< chan[k][i].lsn + 1 \/ rs.snd[k].next =< rs.next
      BY <1>0, <2>2 DEF Order
    <3>3. QED
      BY <1>1, <1>2, <1>3, <3>1, <3>2
  <2>3. (srv[k].on /\ Live(k, Len(chan[k]) + 1)) =>
            rs.snd[k].next =< srv[k].last + 1 \/ rs.snd[k].next =< rs'.next
    BY <1>0, <1>1, <1>2, <1>3 DEF Order
  <2>4. QED
    BY <1>0, <1>3, <1>4, <2>1, <2>2, <2>3 DEF Order
<1>8. Complete(k)'
  <2>1. \A l : Holds(k, l)' <=> Holds(k, l)
    BY <1>3 DEF Holds
  <2>2. \A l, i : Accounted(k, l, i)' <=> Accounted(k, l, i)
    BY <1>3, <1>4 DEF Accounted
  <2> SUFFICES ASSUME rs.mode = "ALL" PROVE Received(k)' /\ InFlight(k)' /\ Sent(k)'
    BY <1>3 DEF Complete
  <2>3. Received(k) /\ InFlight(k) /\ Sent(k)
    BY <1>0 DEF Complete
  <2>4. Received(k)'
    <3> SUFFICES ASSUME NEW l \in Lsns, rs'.next =< l, l < rs.snd[k].next, Holds(k, l)
                 PROVE  l \in rs'.recs \/ l =< rs'.trim
      BY <1>3, <2>1 DEF Received
    <3>1. l \in Nat
      BY SizeAssumption DEF Lsns
    <3>2. rs.next =< l
      BY <1>1, <1>2, <1>3, <3>1
    <3>3. l \in rs.recs \/ l =< rs.trim
      BY <2>3, <3>2 DEF Received
    <3>4. QED
      BY <1>1, <1>2, <1>3, <3>1, <3>3
  <2>5. InFlight(k)'
    BY <1>3, <1>4, <2>1, <2>2, <2>3 DEF InFlight
  <2>6. Sent(k)'
    BY <1>3, <1>4, <2>1, <2>2, <2>3 DEF Sent
  <2>7. QED
    BY <2>4, <2>5, <2>6
<1>9. QED
  BY <1>5, <1>6, <1>7, <1>8 DEF ShardInv

LEMMA OnwardKept ==
    ASSUME Types, rs' \in Stream, Onward(rs, rs'), UNCHANGED <<log, srv, chan>>,
           NEW k \in Shards, up[k] => up'[k]
    PROVE  Kept(k)
<1>1. rs.trim \in Nat /\ rs.low =< rs'.low /\ rs'.trim = rs.trim
  BY StreamFields DEF Types, Onward
<1>2. High(rs) =< High(rs')
  BY <1>1, HighGrows DEF Types
<1>3. QED
  BY <1>1, <1>2 DEF Onward, Kept

LEMMA OthersKept ==
    ASSUME Types, rs' \in Stream, NEW n \in Shards, Others(rs, rs', n), log' = log,
           NEW k \in Shards, k # n, srv'[k] = srv[k], chan'[k] = chan[k], up'[k] = up[k]
    PROVE  Kept(k)
<1>1. rs'.low = rs.low /\ rs'.next = rs.next
  BY DEF Others
<1>2. High(rs') = High(rs) /\ High(rs) \in Nat /\ rs.next \in Nat
  BY <1>1, HighSame, HighType, StreamFields DEF Types
<1>3. QED
  BY <1>1, <1>2 DEF Others, Kept

-----------------------------------------------------------------------------
(* The sessions of a stream that has been rewound.                         *)

LEMMA OutdatedFields ==
    ASSUME Types, Outdated
    PROVE  /\ chan' \in [Shards -> Seq(Message)] /\ srv' \in [Shards -> ServerStream]
           /\ \A k \in Shards :
                /\ Len(chan'[k]) = Len(chan[k])
                /\ \A i \in 1..Len(chan[k]) :
                    /\ chan'[k][i].type = chan[k][i].type
                    /\ chan[k][i].type # "STARTED" => chan'[k][i] = chan[k][i]
                    /\ ~Begins(chan'[k][i])
                /\ chan[k] = << >> => chan'[k] = << >>
                /\ srv'[k].on = srv[k].on /\ srv'[k].last = srv[k].last
                /\ srv'[k].current = FALSE
<1> DEFINE Old(m) == IF m.type = "STARTED" THEN [m EXCEPT !.current = FALSE] ELSE m
<1>1. \A m \in Message : Old(m) \in Message /\ Old(m).type = m.type /\ ~Begins(Old(m))
  <2> SUFFICES ASSUME NEW m \in Message
               PROVE  Old(m) \in Message /\ Old(m).type = m.type /\ ~Begins(Old(m))
    OBVIOUS
  <2>1. CASE m.type = "STARTED"
    <3>1. m \in Started
      BY <2>1 DEF Message, Record, Gap
    <3>2. PICK w : w = [m EXCEPT !.current = FALSE]
      OBVIOUS
    <3>3. w \in Started /\ w.current = FALSE /\ w.type = m.type
      BY <3>1, <3>2 DEF Started
    <3>4. Old(m) = w
      BY <2>1, <3>2
    <3> HIDE DEF Old
    <3>5. QED
      BY <3>3, <3>4 DEF Message, Begins
  <2>2. CASE m.type # "STARTED"
    BY <2>2 DEF Begins
  <2>3. QED
    BY <2>1, <2>2
<1>2. ASSUME NEW k \in Shards
      PROVE  /\ chan'[k] \in Seq(Message) /\ Len(chan'[k]) = Len(chan[k])
             /\ \A i \in 1..Len(chan[k]) : chan'[k][i] = Old(chan[k][i])
  <2>1. chan'[k] = [i \in 1..Len(chan[k]) |-> Old(chan[k][i])]
    BY <1>2 DEF Outdated
  <2>2. Len(chan[k]) \in Nat /\ \A i \in 1..Len(chan[k]) : chan[k][i] \in Message
    BY ShardTypes
  <2> HIDE DEF Old
  <2>3. \A i \in 1..Len(chan[k]) : Old(chan[k][i]) \in Message
    BY <1>1, <2>2
  <2>4. QED
    BY <2>1, <2>2, <2>3
<1>3. chan' \in [Shards -> Seq(Message)]
  <2>1. chan' = [k \in Shards |-> chan'[k]]
    BY DEF Outdated
  <2>2. \A k \in Shards : chan'[k] \in Seq(Message)
    BY <1>2
  <2>3. QED
    BY <2>1, <2>2
<1>4. \A k \in Shards : /\ srv'[k] \in ServerStream
                        /\ srv'[k].on = srv[k].on /\ srv'[k].last = srv[k].last
                        /\ srv'[k].current = FALSE
  <2> SUFFICES ASSUME NEW k \in Shards
               PROVE  /\ srv'[k] \in ServerStream
                      /\ srv'[k].on = srv[k].on /\ srv'[k].last = srv[k].last
                      /\ srv'[k].current = FALSE
    OBVIOUS
  <2>1. srv'[k] = [srv[k] EXCEPT !.current = FALSE]
    BY DEF Outdated
  <2>2. srv[k] \in ServerStream
    BY ShardTypes
  <2>3. QED
    BY <2>1, <2>2 DEF ServerStream
<1>5. srv' \in [Shards -> ServerStream]
  <2>1. srv' = [k \in Shards |-> srv'[k]]
    BY DEF Outdated
  <2>2. QED
    BY <1>4, <2>1
<1>6. ASSUME NEW k \in Shards
      PROVE  /\ \A i \in 1..Len(chan[k]) :
                    /\ chan'[k][i].type = chan[k][i].type
                    /\ chan[k][i].type # "STARTED" => chan'[k][i] = chan[k][i]
                    /\ ~Begins(chan'[k][i])
             /\ chan[k] = << >> => chan'[k] = << >>
  <2>1. \A i \in 1..Len(chan[k]) : chan[k][i] \in Message
    BY ShardTypes
  <2>2. \A i \in 1..Len(chan[k]) :
            chan[k][i].type # "STARTED" => chan'[k][i] = chan[k][i]
    BY <1>2
  <2>3. chan[k] = << >> => chan'[k] = << >>
    BY <1>2
  <2> HIDE DEF Old
  <2>4. QED
    BY <1>1, <1>2, <2>1, <2>2, <2>3
<1>7. QED
  BY <1>2, <1>3, <1>4, <1>5, <1>6

LEMMA RewoundInv ==
    ASSUME Types, rs' \in Stream, NEW k \in Shards, ShardInv(k), Rewound(rs, rs'), Outdated,
           up' = up, Window(rs)
    PROVE  ShardInv(k)'
<1>0. Session(k) /\ Order(k)
  BY DEF ShardInv
<1>1. /\ srv[k].last \in Nat /\ Len(chan[k]) \in Nat
      /\ \A i \in 1..Len(chan[k]) : chan[k][i] \in Message
      /\ rs.next \in Nat /\ rs.next >= 1
  BY ShardTypes DEF Window
<1>2. /\ Len(chan'[k]) = Len(chan[k])
      /\ \A i \in 1..Len(chan[k]) :
            /\ chan'[k][i].type = chan[k][i].type
            /\ chan[k][i].type # "STARTED" => chan'[k][i] = chan[k][i]
            /\ ~Begins(chan'[k][i])
      /\ chan[k] = << >> => chan'[k] = << >>
      /\ srv'[k].on = srv[k].on /\ srv'[k].last = srv[k].last
      /\ srv'[k].current = FALSE
  BY OutdatedFields
<1>3. /\ rs'.next = rs.next /\ rs'.low = rs.low /\ rs'.rewound
      /\ rs'.snd[k].conn = "CONNECTING" /\ rs'.snd[k].next = rs'.next
      /\ rs'.snd[k].start.lsn = rs'.next /\ rs'.snd[k].start.scd = (rs'.mode = "SCD")
      /\ ~rs'.snd[k].current
  BY DEF Rewound, Restarted
<1>4. High(rs') = High(rs)
  BY <1>3, HighSame
<1>5. \A i : ~Live(k, i)'
  BY <1>2, <1>3 DEF Live
<1>6. Session(k)'
  BY <1>0, <1>1, <1>2, <1>3 DEF Session
<1>7. AllSendAll(k)'
  BY <1>2, <1>3 DEF AllSendAll
<1>8. Order(k)'
  <2>1. \A i \in 1..Len(chan'[k]) :
            chan'[k][i].type = "RECORD" => chan'[k][i].lsn =< High(rs')
    BY <1>0, <1>2, <1>4 DEF Order
  <2>2. srv'[k].last =< MaxLsn
    BY <1>0, <1>2 DEF Order
  <2>3. QED
    BY <1>5, <2>1, <2>2 DEF Order
<1>9. Complete(k)'
  <2>1. Received(k)'
    <3> SUFFICES ASSUME NEW l \in Lsns, rs'.next =< l, l < rs'.snd[k].next PROVE FALSE
      BY DEF Received
    <3>1. l \in Nat
      BY SizeAssumption DEF Lsns
    <3>2. QED
      BY <1>1, <1>3, <3>1
  <2>2. QED
    BY <1>5, <2>1 DEF Complete, InFlight, Sent
<1>10. QED
  BY <1>6, <1>7, <1>8, <1>9 DEF ShardInv

-----------------------------------------------------------------------------
(* The steps of one session.                                               *)

\* START is sent again to a shard that has not answered.
LEMMA StartInv ==
    ASSUME Types, StreamOK(rs), NEW n \in Shards, ShardInv(n),
           Reconnect(n) \/ StartedTimeout(n)
    PROVE  ShardInv(n)'
<1>0. Session(n) /\ AllSendAll(n) /\ Order(n) /\ Complete(n)
  BY DEF ShardInv
<1>1. /\ srv[n].last \in Nat /\ Len(chan[n]) \in Nat
      /\ \A i \in 1..Len(chan[n]) : chan[n][i] \in Message
      /\ rs.snd[n].next \in Nat /\ rs.next \in Nat /\ rs.next >= 1
  BY ShardTypes DEF StreamOK, Window
<1>a. rs' = RunLoop(SendStart(rs, n), FALSE, FALSE, NoShard)
  BY DEF Reconnect, StartedTimeout
<1>2. /\ log' = log /\ srv' = srv /\ chan' = chan /\ up' = up
      /\ rs.snd[n].conn # "READING"
  BY DEF Reconnect, StartedTimeout
<1>3. /\ Others(rs, rs', n)
      /\ rs'.snd[n].next = rs.next /\ rs'.snd[n].conn = "CONNECTING"
      /\ rs'.snd[n].start.lsn = rs.next
      /\ rs'.snd[n].start.scd = (rs.mode = "SCD")
      /\ rs'.snd[n].current = rs.snd[n].current
  BY <1>a, StartStep
<1>4. rs'.next = rs.next /\ rs'.low = rs.low /\ rs'.mode = rs.mode /\ rs'.rewound = rs.rewound
  BY <1>3 DEF Others
<1>5. High(rs') = High(rs)
  BY <1>4, HighSame
<1>6. ~rs.snd[n].current /\ ~rs'.snd[n].current
  BY <1>0, <1>2, <1>3 DEF Session
<1>7. \A i : Live(n, i)' <=> Live(n, i)
  BY <1>2, <1>4, <1>6 DEF Live
<1>8. Session(n)'
  <2>1. \A i \in 1..Len(chan[n]) : Begins(chan[n][i]) =>
            /\ srv[n].current
            /\ \A j \in 1..Len(chan[n]) : Begins(chan[n][j]) => j = i
    BY <1>0 DEF Session
  <2>2. /\ ~up[n] => ~srv[n].on
        /\ ~srv[n].on => chan[n] = << >>
        /\ srv[n].on /\ ~rs.rewound => srv[n].current
    BY <1>0 DEF Session
  <2>3. rs.next \in 1..rs.next
    BY <1>1
  <2>4. QED
    BY <1>1, <1>2, <1>3, <1>4, <1>6, <2>1, <2>2, <2>3 DEF Session
<1>9. AllSendAll(n)'
  BY <1>0, <1>2, <1>3, <1>4 DEF AllSendAll
<1>10. Order(n)'
  BY <1>0, <1>1, <1>2, <1>3, <1>4, <1>5, <1>7 DEF Order
<1>11. Complete(n)'
  <2> SUFFICES ASSUME rs.mode = "ALL" PROVE Received(n)' /\ InFlight(n)' /\ Sent(n)'
    BY <1>4 DEF Complete
  <2>1. rs.rewound
    BY <1>0 DEF AllSendAll
  <2>2. \A l, i : Accounted(n, l, i)' <=> Accounted(n, l, i)
    BY <1>2, <1>7 DEF Accounted
  <2>3. \A l : Holds(n, l)' <=> Holds(n, l)
    BY <1>2 DEF Holds
  <2>4. Received(n)'
    <3> SUFFICES ASSUME NEW l \in Lsns, rs'.next =< l, l < rs'.snd[n].next PROVE FALSE
      BY DEF Received
    <3>1. l \in Nat
      BY SizeAssumption DEF Lsns
    <3>2. QED
      BY <1>1, <1>3, <1>4, <3>1
  <2>5. CASE rs.snd[n].conn = "RECONNECT_PENDING"
    <3>1. ~srv[n].on /\ chan[n] = << >>
      BY <1>0, <2>5 DEF Session
    <3>2. \A i \in 1..Len(chan[n]) : FALSE
      BY <3>1
    <3>3. QED
      BY <1>2, <2>4, <3>1, <3>2 DEF InFlight, Sent
  <2>6. CASE rs.snd[n].conn # "RECONNECT_PENDING"
    <3>1. rs.snd[n].conn = "CONNECTING"
      BY <1>2, <2>6, SenderOf DEF Types
    <3>2. rs.snd[n].next =< rs.next
      BY <1>0, <2>1, <3>1 DEF Session
    <3>3. \A l \in Lsns : rs'.snd[n].next =< l => rs.snd[n].next =< l
      <4>1. \A l \in Lsns : l \in Nat
        BY SizeAssumption DEF Lsns
      <4>2. QED
        BY <1>1, <1>3, <3>2, <4>1
    <3>4. InFlight(n) /\ Sent(n)
      BY <1>0 DEF Complete
    <3>5. InFlight(n)'
      BY <1>2, <1>7, <2>2, <2>3, <3>3, <3>4 DEF InFlight
    <3>6. Sent(n)'
      BY <1>2, <1>7, <2>2, <2>3, <3>3, <3>4 DEF Sent
    <3>7. QED
      BY <2>4, <3>5, <3>6
  <2>7. QED
    BY <2>5, <2>6
<1>12. QED
  BY <1>8, <1>9, <1>10, <1>11 DEF ShardInv

\* A session that has ended on both sides.
LEMMA OffInv ==
    ASSUME Types, rs' \in Stream, NEW n \in Shards, ShardInv(n), Others(rs, rs', n), log' = log,
           rs'.snd[n].next = rs.snd[n].next, rs'.snd[n].start = NoStart,
           rs'.snd[n].conn = rs.snd[n].conn \/ rs'.snd[n].conn = "RECONNECT_PENDING",
           rs'.snd[n].current = FALSE,
           ~srv'[n].on, chan'[n] = << >>, srv'[n].last =< MaxLsn
    PROVE  ShardInv(n)'
<1>0. Session(n) /\ AllSendAll(n) /\ Order(n) /\ Complete(n)
  BY DEF ShardInv
<1>1. /\ rs.snd[n].next \in Nat /\ rs.next \in Nat /\ rs.trim \in Nat /\ rs'.trim \in Nat
  BY ShardTypes, StreamFields DEF Types
<1>2. /\ rs'.next = rs.next /\ rs'.mode = rs.mode /\ rs'.rewound = rs.rewound
      /\ rs.trim =< rs'.trim /\ rs.recs \subseteq rs'.recs
  BY DEF Others
<1>3. \A i \in 1..Len(chan'[n]) : FALSE
  OBVIOUS
<1>4. Session(n)'
  BY <1>0, <1>2, <1>3 DEF Session
<1>5. AllSendAll(n)'
  BY <1>0, <1>2 DEF AllSendAll
<1>6. Order(n)'
  BY <1>3 DEF Order
<1>7. Complete(n)'
  <2> SUFFICES ASSUME rs.mode = "ALL" PROVE Received(n)' /\ InFlight(n)' /\ Sent(n)'
    BY <1>2 DEF Complete
  <2>1. Received(n)'
    <3> SUFFICES ASSUME NEW l \in Lsns, rs'.next =< l, l < rs'.snd[n].next, Holds(n, l)'
                 PROVE  l \in rs'.recs \/ l =< rs'.trim
      BY DEF Received
    <3>1. l \in Nat
      BY SizeAssumption DEF Lsns
    <3>2. Holds(n, l)
      BY DEF Holds
    <3>3. l \in rs.recs \/ l =< rs.trim
      BY <1>0, <1>2, <3>2 DEF Complete, Received
    <3>4. QED
      BY <1>1, <1>2, <3>1, <3>3
  <2>2. InFlight(n)' /\ Sent(n)'
    BY <1>3 DEF InFlight, Sent
  <2>3. QED
    BY <2>1, <2>2
<1>8. QED
  BY <1>4, <1>5, <1>6, <1>7 DEF ShardInv

LEMMA StartFailsInv ==
    ASSUME Types, StreamOK(rs), NEW n \in Shards, ShardInv(n), StartFails(n)
    PROVE  ShardInv(n)' /\ Others(rs, rs', n) /\ StreamOK(rs')
<1>0. Session(n) /\ Order(n)
  BY DEF ShardInv
<1>1. rs.snd[n].current = FALSE
  BY <1>0, SenderOf DEF Session, StartFails, Types
<1>2. /\ StreamOK(rs') /\ Others(rs, rs', n)
      /\ rs'.snd[n].next = rs.snd[n].next /\ rs'.snd[n].start = NoStart
      /\ rs'.snd[n].conn = rs.snd[n].conn \/ rs'.snd[n].conn = "RECONNECT_PENDING"
      /\ rs'.snd[n].current = FALSE
  BY <1>1, StartFailsStep
<1>3. ~srv'[n].on /\ chan'[n] = << >> /\ srv'[n].last =< MaxLsn /\ log' = log
  BY <1>0 DEF Session, Order, StartFails
<1>4. QED
  BY <1>2, <1>3, OffInv DEF StreamOK

LEMMA DisconnectInv ==
    ASSUME Types, StreamOK(rs), NEW n \in Shards, ShardInv(n), Disconnect(n)
    PROVE  ShardInv(n)' /\ Others(rs, rs', n) /\ StreamOK(rs')
<1>0. Session(n)
  BY DEF ShardInv
<1>1. rs.snd[n].conn = "RECONNECT_PENDING" =>
            rs.snd[n].current = FALSE /\ rs.snd[n].start = NoStart
  BY <1>0, SenderOf DEF Session, Types
<1>2. /\ StreamOK(rs') /\ Others(rs, rs', n)
      /\ rs'.snd[n].next = rs.snd[n].next /\ rs'.snd[n].start = NoStart
      /\ rs'.snd[n].conn = rs.snd[n].conn \/ rs'.snd[n].conn = "RECONNECT_PENDING"
      /\ rs'.snd[n].current = FALSE
  BY <1>1, DisconnectStep
<1>3. srv'[n] = NoServerStream /\ chan'[n] = << >> /\ log' = log
  BY DEF Disconnect, Types
<1>4. ~srv'[n].on /\ srv'[n].last =< MaxLsn
  BY <1>3, SizeAssumption DEF NoServerStream
<1>5. QED
  BY <1>2, <1>3, <1>4, OffInv DEF StreamOK

\* A START that the shard has answered already.
LEMMA ServerStartAgainInv ==
    ASSUME Types, StreamOK(rs), NEW n \in Shards, ShardInv(n), ServerStart(n),
           srv[n].on /\ srv[n].current
    PROVE  ShardInv(n)'
<1>0. Session(n) /\ AllSendAll(n) /\ Order(n) /\ Complete(n)
  BY DEF ShardInv
<1>1. log' = log /\ srv' = srv /\ chan' = chan /\ up' = up
  BY DEF ServerStart
<1>2. /\ StreamOK(rs') /\ Others(rs, rs', n)
      /\ rs'.snd[n].next = rs.snd[n].next /\ rs'.snd[n].start = NoStart
      /\ rs'.snd[n].conn = rs.snd[n].conn /\ rs'.snd[n].current = rs.snd[n].current
  BY ServerStartStep
<1>3. /\ rs'.next = rs.next /\ rs'.low = rs.low /\ rs'.mode = rs.mode
      /\ rs'.rewound = rs.rewound /\ rs.trim =< rs'.trim /\ rs.recs \subseteq rs'.recs
  BY <1>2 DEF Others
<1>4. High(rs') = High(rs)
  BY <1>3, HighSame
<1>5. \A i : Live(n, i)' <=> Live(n, i)
  BY <1>1, <1>2, <1>3 DEF Live
<1>6. Session(n)'
  BY <1>0, <1>1, <1>2, <1>3 DEF Session
<1>7. AllSendAll(n)'
  BY <1>0, <1>1, <1>2, <1>3 DEF AllSendAll
<1>8. Order(n)'
  BY <1>0, <1>1, <1>2, <1>3, <1>4, <1>5 DEF Order
<1>9. Complete(n)'
  <2> SUFFICES ASSUME rs.mode = "ALL" PROVE Received(n)' /\ InFlight(n)' /\ Sent(n)'
    BY <1>3 DEF Complete
  <2>1. \A l, i : Accounted(n, l, i)' <=> Accounted(n, l, i)
    BY <1>1, <1>5 DEF Accounted
  <2>2. \A l : Holds(n, l)' <=> Holds(n, l)
    BY <1>1 DEF Holds
  <2>3. Received(n) /\ InFlight(n) /\ Sent(n)
    BY <1>0 DEF Complete
  <2>4. Received(n)'
    <3>1. rs.trim \in Nat /\ rs'.trim \in Nat
      BY <1>2, StreamFields DEF StreamOK
    <3>2. \A l \in Lsns : l \in Nat
      BY SizeAssumption DEF Lsns
    <3>3. QED
      BY <1>2, <1>3, <2>2, <2>3, <3>1, <3>2 DEF Received
  <2>5. InFlight(n)' /\ Sent(n)'
    BY <1>1, <1>2, <1>5, <2>1, <2>2, <2>3 DEF InFlight, Sent
  <2>6. QED
    BY <2>4, <2>5
<1>10. QED
  BY <1>6, <1>7, <1>8, <1>9 DEF ShardInv

\* A START that begins a server read stream.
LEMMA ServerStartNewInv ==
    ASSUME Types, StreamOK(rs), NEW n \in Shards, ShardInv(n), ServerStart(n),
           ~(srv[n].on /\ srv[n].current)
    PROVE  ShardInv(n)'
<1>0. Session(n) /\ AllSendAll(n) /\ Order(n) /\ Complete(n)
  BY DEF ShardInv
<1>1. /\ chan[n] \in Seq(Message) /\ Len(chan[n]) \in Nat
      /\ \A i \in 1..Len(chan[n]) : chan[n][i] \in Message
      /\ rs.snd[n].next \in Nat /\ rs.next \in Nat /\ rs.snd[n].next =< MaxLsn + 1
      /\ MaxLsn \in Nat
  BY ShardTypes, SizeAssumption DEF StreamOK, Linked, Link, LinkAt
<1>2. /\ log' = log /\ up' = up /\ up[n] /\ rs.snd[n].start # NoStart
  BY DEF ServerStart
<1>3. PICK s : s = rs.snd[n].start
  OBVIOUS
<1>4. PICK m : m = [type |-> "STARTED", current |-> TRUE]
  OBVIOUS
<1>5. /\ srv'[n] = [on |-> TRUE, current |-> TRUE, last |-> s.lsn - 1,
                    scd |-> s.scd, down |-> s.down]
      /\ chan'[n] = Append(chan[n], m)
  BY <1>3, <1>4 DEF ServerStart, Types
<1>6. /\ srv'[n].on /\ srv'[n].current /\ srv'[n].last = s.lsn - 1 /\ srv'[n].scd = s.scd
  BY <1>5
<1>7. /\ Len(chan'[n]) = Len(chan[n]) + 1 /\ chan'[n][Len(chan[n]) + 1] = m
      /\ \A i \in 1..Len(chan[n]) : chan'[n][i] = chan[n][i]
  BY <1>1, <1>5
<1>8. /\ Others(rs, rs', n)
      /\ rs'.snd[n].next = rs.snd[n].next /\ rs'.snd[n].start = NoStart
      /\ rs'.snd[n].conn = rs.snd[n].conn /\ rs'.snd[n].current = rs.snd[n].current
  BY ServerStartStep
<1>9. /\ rs'.next = rs.next /\ rs'.low = rs.low /\ rs'.mode = rs.mode
      /\ rs'.rewound = rs.rewound /\ rs.trim =< rs'.trim /\ rs.recs \subseteq rs'.recs
  BY <1>8 DEF Others
<1>10. High(rs') = High(rs)
  BY <1>9, HighSame
<1>11. /\ s.lsn \in 1..rs.snd[n].next /\ rs.snd[n].conn = "CONNECTING"
       /\ rs.snd[n].next =< rs.next
       /\ ~rs.snd[n].current /\ (srv[n].on => rs.rewound)
  BY <1>0, <1>2, <1>3 DEF Session
<1>12. \A i \in 1..Len(chan[n]) : ~Begins(chan[n][i]) /\ srv[n].on
  <2>1. \A i \in 1..Len(chan[n]) : srv[n].on
    <3>1. chan[n] = << >> => Len(chan[n]) = 0
      OBVIOUS
    <3>2. QED
      BY <1>0, <1>1, <3>1 DEF Session
  <2>2. QED
    BY <1>0, <2>1 DEF Session
<1>13. \A i \in 1..Len(chan'[n]) : ~Live(n, i)' \/ chan'[n][i] = m
  <2> SUFFICES ASSUME NEW i \in 1..Len(chan'[n]), i # Len(chan[n]) + 1
               PROVE  ~Live(n, i)'
    BY <1>7
  <2>1. i \in 1..Len(chan[n])
    BY <1>1, <1>7
  <2>2. rs'.rewound /\ ~rs'.snd[n].current
    BY <1>8, <1>9, <1>11, <1>12, <2>1
  <2>3. \A j \in 1..Len(chan'[n]) : j < i => ~Begins(chan'[n][j])
    <3> SUFFICES ASSUME NEW j \in 1..Len(chan'[n]), j < i PROVE ~Begins(chan'[n][j])
      OBVIOUS
    <3>1. j \in 1..Len(chan[n])
      BY <1>1, <1>7, <2>1
    <3>2. QED
      BY <1>7, <1>12, <3>1
  <2>4. QED
    BY <2>2, <2>3 DEF Live
<1>14. ~IsData(m) /\ m.type = "STARTED" /\ Begins(m)
  BY <1>4 DEF IsData, Begins
<1>15. Session(n)'
  <2>1. ASSUME NEW i \in 1..Len(chan'[n]), Begins(chan'[n][i]) PROVE i = Len(chan[n]) + 1
    <3>1. CASE i \in 1..Len(chan[n])
      BY <1>7, <1>12, <2>1, <3>1
    <3>2. QED
      BY <1>1, <1>7, <3>1
  <2>2. \A i \in 1..Len(chan'[n]) : Begins(chan'[n][i]) =>
            /\ rs'.snd[n].conn = "CONNECTING" /\ srv'[n].current
            /\ \A j \in 1..Len(chan'[n]) : Begins(chan'[n][j]) => j = i
    BY <1>6, <1>8, <1>11, <2>1
  <2>3. QED
    BY <1>0, <1>2, <1>6, <1>8, <1>9, <1>11, <2>2 DEF Session
<1>16. AllSendAll(n)'
  BY <1>0, <1>2, <1>3, <1>6, <1>8, <1>9 DEF AllSendAll
<1>17. Order(n)'
  <2>1. \A i \in 1..Len(chan'[n]) :
            chan'[n][i].type = "RECORD" => chan'[n][i].lsn =< High(rs')
    <3> SUFFICES ASSUME NEW i \in 1..Len(chan'[n]), chan'[n][i].type = "RECORD"
                 PROVE  chan'[n][i].lsn =< High(rs')
      OBVIOUS
    <3>1. i \in 1..Len(chan[n])
      BY <1>1, <1>7, <1>14
    <3>2. QED
      BY <1>0, <1>7, <1>10, <3>1 DEF Order
  <2>2. srv'[n].last =< MaxLsn
    BY <1>1, <1>6, <1>11
  <2>3. QED
    BY <1>8, <1>9, <1>11, <1>13, <1>14, <2>1, <2>2 DEF Order
<1>18. Complete(n)'
  <2> SUFFICES ASSUME rs.mode = "ALL" PROVE Received(n)' /\ InFlight(n)' /\ Sent(n)'
    BY <1>9 DEF Complete
  <2>1. \A l \in Lsns : l \in Nat
    BY SizeAssumption DEF Lsns
  <2>2. Received(n)'
    BY <1>1, <1>8, <1>9, <1>11, <2>1 DEF Received
  <2>3. InFlight(n)'
    BY <1>13, <1>14 DEF InFlight
  <2>4. \A l \in Lsns : ~(rs'.snd[n].next =< l /\ l =< srv'[n].last)
    BY <1>1, <1>6, <1>8, <1>11, <2>1
  <2>5. Sent(n)'
    BY <2>4 DEF Sent
  <2>6. QED
    BY <2>2, <2>3, <2>5
<1>19. QED
  BY <1>15, <1>16, <1>17, <1>18 DEF ShardInv

\* The next message of a server read stream.
LEMMA ServerSendFields ==
    ASSUME Types, StreamOK(rs), NEW n \in Shards, ServerSend(n)
    PROVE  \E m \in Message :
            /\ IsData(m) /\ srv[n].last < m.lsn
            /\ chan' = [chan EXCEPT ![n] = Append(@, m)]
            /\ srv' = [srv EXCEPT ![n].last = m.lsn]
            /\ m.type = "RECORD" => m.lsn =< High(rs)
            /\ ~srv[n].scd =>
                \A k \in Lsns : srv[n].last < k /\ k =< m.lsn /\ Holds(n, k) => Accounts(m, k)
<1> DEFINE last == srv[n].last
           S == {l \in last + 1..MaxLsn : Ships(n, l)}
           next == Min0(S)
           before == IF next = 0 THEN MaxLsn ELSE next - 1
           Under(l) == \E k \in last + 1..l : <<n, k>> \in log.lost
<1>0. /\ last \in Nat /\ MaxLsn \in Nat /\ rs.snd[n].high \in Nat /\ High(rs) \in Nat
      /\ rs.snd[n].high =< High(rs) /\ trimAt[n] \in Nat /\ trimAt[n] =< MaxLsn
      /\ High(rs) =< MaxLsn
  BY ShardTypes, SizeAssumption, SenderOf, HighType DEF Types, StreamOK, Linked, Link
<1>1. \/ /\ last < trimAt[n]
         /\ chan' = [chan EXCEPT ![n] = Append(@,
                        [type |-> "GAP", lsn |-> trimAt[n], reason |-> "TRIM"])]
         /\ srv' = [srv EXCEPT ![n].last = trimAt[n]]
      \/ /\ next # 0 /\ next =< rs.snd[n].high
         /\ chan' = [chan EXCEPT ![n] = Append(@,
                        [type |-> "RECORD", lsn |-> next, under |-> Under(next)])]
         /\ srv' = [srv EXCEPT ![n].last = next]
      \/ \E l \in {k \in last + 1..before : k = before \/ k \in log.partial} :
            /\ chan' = [chan EXCEPT ![n] = Append(@,
                          [type |-> "GAP", lsn |-> l,
                           reason |-> IF Under(l) THEN "UNDER" ELSE "NO_RECORDS"])]
            /\ srv' = [srv EXCEPT ![n].last = l]
  BY DEF ServerSend
<1>2. S \subseteq Nat /\ (next # 0 => next \in S /\ \A l \in S : next =< l)
      /\ (next = 0 => S = {})
  <2>1. S \subseteq Nat /\ 0 \notin S
    BY <1>0
  <2>2. next = Min0(S)
    OBVIOUS
  <2> HIDE DEF S, next
  <2>3. CASE S = {}
    BY <2>2, <2>3 DEF Min0
  <2>4. CASE S # {}
    <3>1. next = Min(S)
      BY <2>2, <2>4 DEF Min0
    <3>2. Min(S) \in S /\ \A l \in S : Min(S) =< l
      BY <2>1, <2>4, MinIsLeast
    <3>3. QED
      BY <2>1, <2>4, <3>1, <3>2
  <2>5. QED
    BY <2>3, <2>4
<1>3. next # 0 => next \in Nat /\ last < next /\ next =< MaxLsn
  <2>1. \A l \in S : last < l /\ l =< MaxLsn
    BY <1>0
  <2> HIDE DEF S, next
  <2>2. QED
    BY <1>2, <2>1
<1>4. ~srv[n].scd => \A k \in Lsns : last < k /\ Holds(n, k) => k \in S
  <2> SUFFICES ASSUME ~srv[n].scd, NEW k \in Lsns, last < k, Holds(n, k) PROVE k \in S
    OBVIOUS
  <2>1. Ships(n, k)
    BY DEF Ships
  <2>2. k \in last + 1..MaxLsn
    BY <1>0 DEF Lsns
  <2>3. QED
    BY <2>1, <2>2
<1>5. before \in Nat /\ before =< MaxLsn /\ (next # 0 => before < next)
  <2>1. before = IF next = 0 THEN MaxLsn ELSE next - 1
    OBVIOUS
  <2> HIDE DEF next, before
  <2>2. QED
    BY <1>0, <1>3, <2>1
<1> HIDE DEF S, next, before
<1>6. CASE /\ last < trimAt[n]
           /\ chan' = [chan EXCEPT ![n] = Append(@,
                        [type |-> "GAP", lsn |-> trimAt[n], reason |-> "TRIM"])]
           /\ srv' = [srv EXCEPT ![n].last = trimAt[n]]
  <2>1. PICK m : m = [type |-> "GAP", lsn |-> trimAt[n], reason |-> "TRIM"]
    OBVIOUS
  <2>2. m \in Message
    BY <1>0, <1>6, <2>1 DEF Message, Gap, Lsns
  <2>3. /\ m.type = "GAP" /\ m.lsn = trimAt[n] /\ m.reason = "TRIM"
    BY <2>1
  <2>4. IsData(m) /\ \A k \in Lsns : k =< m.lsn => Accounts(m, k)
    BY <2>3 DEF IsData, Accounts
  <2>5. QED
    BY <1>6, <2>1, <2>2, <2>3, <2>4
<1>7. CASE /\ next # 0 /\ next =< rs.snd[n].high
           /\ chan' = [chan EXCEPT ![n] = Append(@,
                        [type |-> "RECORD", lsn |-> next, under |-> Under(next)])]
           /\ srv' = [srv EXCEPT ![n].last = next]
  <2>0. PICK b \in BOOLEAN : b = Under(next)
    OBVIOUS
  <2>1. PICK m : m = [type |-> "RECORD", lsn |-> next, under |-> b]
    OBVIOUS
  <2>2. m \in Message
    BY <1>0, <1>3, <1>7, <2>1 DEF Message, Record, Lsns
  <2>3. /\ m.type = "RECORD" /\ m.lsn = next
    BY <2>1
  <2>4. IsData(m)
    BY <2>3 DEF IsData
  <2>5. ASSUME ~srv[n].scd, NEW k \in Lsns, last < k, k =< m.lsn, Holds(n, k)
        PROVE  Accounts(m, k)
    <3>1. k \in S /\ k \in Nat
      BY <1>2, <1>4, <2>5
    <3>2. k = next
      BY <1>2, <1>3, <1>7, <2>3, <2>5, <3>1
    <3>3. QED
      BY <2>3, <3>2 DEF Accounts
  <2>6. m.lsn =< High(rs)
    BY <1>0, <1>3, <1>7, <2>3
  <2>7. last < m.lsn
    BY <1>3, <1>7, <2>3
  <2>8. chan' = [chan EXCEPT ![n] = Append(@, m)] /\ srv' = [srv EXCEPT ![n].last = m.lsn]
    BY <1>7, <2>0, <2>1, <2>3
  <2>9. QED
    BY <2>2, <2>4, <2>5, <2>6, <2>7, <2>8
<1>8. ASSUME NEW l \in {k \in last + 1..before : k = before \/ k \in log.partial},
             chan' = [chan EXCEPT ![n] = Append(@,
                          [type |-> "GAP", lsn |-> l,
                           reason |-> IF Under(l) THEN "UNDER" ELSE "NO_RECORDS"])],
             srv' = [srv EXCEPT ![n].last = l]
      PROVE  \E m \in Message :
            /\ IsData(m) /\ srv[n].last < m.lsn
            /\ chan' = [chan EXCEPT ![n] = Append(@, m)]
            /\ srv' = [srv EXCEPT ![n].last = m.lsn]
            /\ m.type = "RECORD" => m.lsn =< High(rs)
            /\ ~srv[n].scd =>
                \A k \in Lsns : srv[n].last < k /\ k =< m.lsn /\ Holds(n, k) => Accounts(m, k)
  <2>0. PICK why \in {"UNDER", "NO_RECORDS"} : why = IF Under(l) THEN "UNDER" ELSE "NO_RECORDS"
    OBVIOUS
  <2>1. PICK m : m = [type |-> "GAP", lsn |-> l, reason |-> why]
    OBVIOUS
  <2>2. l \in Nat /\ last < l /\ l =< before
    BY <1>0, <1>5
  <2>3. m \in Message
    BY <1>0, <1>5, <2>0, <2>1, <2>2 DEF Message, Gap, Lsns
  <2>4. m.type = "GAP" /\ m.lsn = l
    BY <2>1
  <2>5. IsData(m)
    BY <2>4 DEF IsData
  <2>6. ASSUME ~srv[n].scd, NEW k \in Lsns, last < k, k =< m.lsn, Holds(n, k)
        PROVE  FALSE
    <3>1. k \in S /\ k \in Nat
      BY <1>2, <1>4, <2>6
    <3>2. next # 0 /\ next =< k
      BY <1>2, <3>1
    <3>3. QED
      BY <1>3, <1>5, <2>2, <2>4, <2>6, <3>1, <3>2
  <2>7. chan' = [chan EXCEPT ![n] = Append(@, m)] /\ srv' = [srv EXCEPT ![n].last = m.lsn]
    BY <1>8, <2>0, <2>1, <2>4
  <2>8. QED
    BY <2>2, <2>3, <2>4, <2>5, <2>6, <2>7
<1>9. QED
  BY <1>1, <1>6, <1>7, <1>8

LEMMA ServerSendInv ==
    ASSUME Types, StreamOK(rs), NEW n \in Shards, ShardInv(n), ServerSend(n)
    PROVE  ShardInv(n)'
<1>0. Session(n) /\ AllSendAll(n) /\ Order(n) /\ Complete(n)
  BY DEF ShardInv
<1>1. /\ chan[n] \in Seq(Message) /\ Len(chan[n]) \in Nat
      /\ \A i \in 1..Len(chan[n]) : chan[n][i] \in Message
      /\ rs.snd[n].next \in Nat /\ rs.next \in Nat /\ srv[n] \in ServerStream
      /\ srv[n].last \in Nat
  BY ShardTypes
<1>2. log' = log /\ up' = up /\ rs' = rs /\ up[n] /\ srv[n].on
  BY DEF ServerSend
<1>3. PICK m \in Message :
        /\ IsData(m) /\ srv[n].last < m.lsn
        /\ chan' = [chan EXCEPT ![n] = Append(@, m)]
        /\ srv' = [srv EXCEPT ![n].last = m.lsn]
        /\ m.type = "RECORD" => m.lsn =< High(rs)
        /\ ~srv[n].scd =>
            \A k \in Lsns : srv[n].last < k /\ k =< m.lsn /\ Holds(n, k) => Accounts(m, k)
  BY ServerSendFields
<1>4. m.lsn \in Nat /\ m.lsn =< MaxLsn
  BY <1>3, DataLsn DEF IsData
<1>5. PICK e : e = Len(chan[n]) + 1
  OBVIOUS
<1>6. /\ Len(chan'[n]) = e /\ chan'[n][e] = m /\ e \in Nat /\ e \in 1..e
      /\ \A i \in 1..Len(chan[n]) : chan'[n][i] = chan[n][i] /\ i \in 1..e /\ i < e
      /\ \A i \in 1..e : i \in 1..Len(chan[n]) \/ i = e
  <2>1. chan'[n] = Append(chan[n], m)
    BY <1>3 DEF Types
  <2>2. QED
    BY <1>1, <1>5, <2>1
<1>7. /\ srv'[n].on = srv[n].on /\ srv'[n].current = srv[n].current
      /\ srv'[n].last = m.lsn /\ srv'[n].scd = srv[n].scd
  <2>1. srv'[n] = [srv[n] EXCEPT !.last = m.lsn]
    BY <1>3 DEF Types
  <2>2. QED
    BY <1>1, <2>1 DEF ServerStream
<1>8. ~Begins(m)
  BY <1>3 DEF IsData, Begins
<1>9. \A i \in 1..e + 1 : Live(n, i)' <=> (Live(n, i) \/ (i = e + 1 /\ Live(n, e)))
  <2> SUFFICES ASSUME NEW i \in 1..e + 1
               PROVE  Live(n, i)' <=> (Live(n, i) \/ (i = e + 1 /\ Live(n, e)))
    OBVIOUS
  <2>1. (\E j \in 1..Len(chan'[n]) : j < i /\ Begins(chan'[n][j]))
          <=> (\E j \in 1..Len(chan[n]) : j < i /\ Begins(chan[n][j]))
    BY <1>6, <1>8
  <2>2. i = e + 1 => ((\E j \in 1..Len(chan[n]) : j < i /\ Begins(chan[n][j]))
                        <=> (\E j \in 1..Len(chan[n]) : j < e /\ Begins(chan[n][j])))
    BY <1>1, <1>5, <1>6
  <2>3. QED
    BY <1>2, <2>1, <2>2 DEF Live
<1>10. Live(n, e + 1) <=> Live(n, e)
  <2>1. (\E j \in 1..Len(chan[n]) : j < e + 1 /\ Begins(chan[n][j]))
            <=> (\E j \in 1..Len(chan[n]) : j < e /\ Begins(chan[n][j]))
    BY <1>1, <1>5
  <2>2. QED
    BY <2>1 DEF Live
<1>11. \A i \in 1..e + 1 : Live(n, i)' <=> Live(n, i)
  BY <1>9, <1>10
<1>12. Session(n)'
  <2>1. \A i \in 1..Len(chan'[n]) : Begins(chan'[n][i]) =>
            i \in 1..Len(chan[n]) /\ Begins(chan[n][i])
    BY <1>6, <1>8
  <2>2. \A i \in 1..Len(chan'[n]) : Begins(chan'[n][i]) =>
            /\ rs.snd[n].conn = "CONNECTING" /\ srv[n].current
            /\ \A j \in 1..Len(chan'[n]) : Begins(chan'[n][j]) => j = i
    BY <1>0, <2>1 DEF Session
  <2>3. QED
    BY <1>0, <1>2, <1>7, <2>2 DEF Session
<1>13. AllSendAll(n)'
  BY <1>0, <1>2, <1>7 DEF AllSendAll
<1>14. Order(n)'
  <2>1. \A i \in 1..Len(chan'[n]) :
            chan'[n][i].type = "RECORD" => chan'[n][i].lsn =< High(rs)
    BY <1>0, <1>3, <1>6 DEF Order
  <2>2. Live(n, e) => rs.snd[n].next =< srv[n].last + 1 \/ rs.snd[n].next =< rs.next
    BY <1>0, <1>2, <1>5 DEF Order
  <2>3. ASSUME NEW i \in 1..Len(chan[n]), Live(n, i), IsData(chan[n][i])
        PROVE  /\ rs.snd[n].next =< chan[n][i].lsn + 1 \/ rs.snd[n].next =< rs.next
               /\ chan[n][i].lsn =< srv[n].last /\ chan[n][i].lsn < m.lsn
               /\ \A j \in 1..i : Live(n, j) /\ IsData(chan[n][j]) =>
                        chan[n][j].lsn =< chan[n][i].lsn
    <3>1. chan[n][i].lsn \in Nat
      BY <1>1, <2>3, DataLsn DEF IsData
    <3>2. QED
      BY <1>0, <1>1, <1>3, <1>4, <2>3, <3>1 DEF Order
  <2>4. ASSUME NEW i \in 1..Len(chan'[n]), Live(n, i), IsData(chan'[n][i])
        PROVE  /\ rs.snd[n].next =< chan'[n][i].lsn + 1 \/ rs.snd[n].next =< rs.next
               /\ chan'[n][i].lsn =< m.lsn
               /\ \A j \in 1..i : Live(n, j) /\ IsData(chan'[n][j]) =>
                        chan'[n][j].lsn =< chan'[n][i].lsn
    <3>1. CASE i = e
      <4>1. \A j \in 1..i : Live(n, j) /\ IsData(chan'[n][j]) => chan'[n][j].lsn =< m.lsn
        <5> SUFFICES ASSUME NEW j \in 1..e, Live(n, j), IsData(chan'[n][j])
                     PROVE  chan'[n][j].lsn =< m.lsn
          BY <3>1
        <5>1. CASE j \in 1..Len(chan[n])
          <6>1. chan[n][j].lsn \in Nat
            BY <1>1, <1>6, <5>1, DataLsn DEF IsData
          <6>2. QED
            BY <1>4, <1>6, <2>3, <5>1, <6>1
        <5>2. CASE j = e
          BY <1>4, <1>6, <5>2
        <5>3. QED
          BY <1>6, <5>1, <5>2
      <4>2. Live(n, e)
        BY <2>4, <3>1
      <4>3. rs.snd[n].next =< m.lsn + 1 \/ rs.snd[n].next =< rs.next
        BY <1>1, <1>3, <1>4, <2>2, <4>2
      <4>4. chan'[n][i] = m /\ m.lsn =< m.lsn
        BY <1>4, <1>6, <3>1
      <4>5. QED
        BY <4>1, <4>3, <4>4
    <3>2. CASE i \in 1..Len(chan[n])
      <4>1. \A j \in 1..i : j \in 1..Len(chan[n])
        BY <1>1, <3>2
      <4>2. chan[n][i].lsn \in Nat
        BY <1>1, <1>6, <2>4, <3>2, DataLsn DEF IsData
      <4>3. QED
        BY <1>4, <1>6, <2>3, <2>4, <3>2, <4>1, <4>2
    <3>3. QED
      BY <1>6, <2>4, <3>1, <3>2
  <2>5. Live(n, e + 1) => rs.snd[n].next =< m.lsn + 1 \/ rs.snd[n].next =< rs.next
    BY <1>1, <1>3, <1>4, <1>10, <2>2
  <2>6. /\ Len(chan'[n]) = e /\ Len(chan'[n]) + 1 \in 1..e + 1
        /\ \A i \in 1..Len(chan'[n]) : i \in 1..e + 1
        /\ \A i \in 1..Len(chan'[n]) : \A j \in 1..i : j \in 1..e + 1
    BY <1>6
  <2>7. QED
    BY <1>2, <1>4, <1>7, <1>11, <2>1, <2>4, <2>5, <2>6 DEF Order
<1>15. Complete(n)'
  <2> SUFFICES ASSUME rs.mode = "ALL" PROVE Received(n)' /\ InFlight(n)' /\ Sent(n)'
    BY <1>2 DEF Complete
  <2>1. Received(n) /\ InFlight(n) /\ Sent(n)
    BY <1>0 DEF Complete
  <2>2. \A l : Holds(n, l)' <=> Holds(n, l)
    BY <1>2 DEF Holds
  <2>3. Received(n)'
    BY <1>2, <2>1, <2>2 DEF Received
  <2>4. \A l, i : Accounted(n, l, i) => Accounted(n, l, i)'
    <3> SUFFICES ASSUME NEW l, NEW i, Accounted(n, l, i) PROVE Accounted(n, l, i)'
      OBVIOUS
    <3>1. PICK j \in 1..Len(chan[n]) : j =< i /\ Live(n, j) /\ Accounts(chan[n][j], l)
      BY DEF Accounted
    <3>2. j \in 1..Len(chan'[n]) /\ j \in 1..e + 1 /\ chan'[n][j] = chan[n][j]
      BY <1>6
    <3>3. Live(n, j)'
      BY <1>11, <3>1, <3>2
    <3>4. QED
      BY <3>1, <3>2, <3>3 DEF Accounted
  <2>5. ASSUME Live(n, e) PROVE ~srv[n].scd
    <3>1. srv[n].current
      BY <1>0, <1>2, <2>5 DEF Live, Session
    <3>2. QED
      BY <1>0, <1>2, <3>1 DEF AllSendAll
  <2>6. ASSUME Live(n, e), NEW l \in Lsns, rs.snd[n].next =< l, l =< m.lsn, Holds(n, l)
        PROVE  Accounted(n, l, e)'
    <3>0. l \in Nat
      BY SizeAssumption DEF Lsns
    <3>1. CASE l =< srv[n].last
      <4>1. Accounted(n, l, Len(chan[n]))
        BY <1>2, <1>5, <2>1, <2>6, <3>1 DEF Sent
      <4>2. PICK j \in 1..Len(chan[n]) : Live(n, j) /\ Accounts(chan[n][j], l)
        BY <4>1 DEF Accounted
      <4>3. j =< e
        BY <1>1, <1>5
      <4>4. Accounted(n, l, e)
        BY <4>2, <4>3 DEF Accounted
      <4>5. QED
        BY <2>4, <4>4
    <3>2. CASE srv[n].last < l
      <4>1. Accounts(m, l)
        BY <1>3, <2>5, <2>6, <3>2
      <4>2. Live(n, e)' /\ e \in 1..Len(chan'[n]) /\ e =< e
        BY <1>6, <1>11, <2>6
      <4>3. QED
        BY <1>6, <4>1, <4>2 DEF Accounted
    <3>3. QED
      BY <1>1, <3>0, <3>1, <3>2
  <2>7. InFlight(n)'
    <3> SUFFICES ASSUME NEW i \in 1..Len(chan'[n]), Live(n, i)', IsData(chan'[n][i]),
                        NEW l \in Lsns, rs.snd[n].next =< l, l =< chan'[n][i].lsn, Holds(n, l)
                 PROVE  Accounted(n, l, i)'
      BY <1>2, <2>2 DEF InFlight
    <3>1. i \in 1..e /\ i \in 1..e + 1 /\ Live(n, i)
      BY <1>6, <1>11
    <3>2. CASE i = e
      BY <1>6, <2>6, <3>1, <3>2
    <3>3. CASE i \in 1..Len(chan[n])
      BY <1>6, <2>1, <2>4, <3>1, <3>3 DEF InFlight
    <3>4. QED
      BY <1>6, <3>1, <3>2, <3>3
  <2>8. Sent(n)'
    <3> SUFFICES ASSUME Live(n, e + 1)',
                        NEW l \in Lsns, rs.snd[n].next =< l, l =< m.lsn, Holds(n, l)
                 PROVE  Accounted(n, l, e)'
      BY <1>2, <1>6, <1>7, <2>2 DEF Sent
    <3>1. e + 1 \in 1..e + 1
      BY <1>6
    <3>2. Live(n, e)
      BY <1>10, <1>11, <3>1
    <3>3. QED
      BY <2>6, <3>2
  <2>9. QED
    BY <2>3, <2>7, <2>8
<1>16. QED
  BY <1>12, <1>13, <1>14, <1>15 DEF ShardInv

LEMMA ReceiveInv ==
    ASSUME Types, StreamOK(rs), NEW n \in Shards, ShardInv(n), Receive(n)
    PROVE  ShardInv(n)' /\ Others(rs, rs', n) /\ StreamOK(rs')
<1>0. Session(n) /\ AllSendAll(n) /\ Order(n) /\ Complete(n)
  BY DEF ShardInv
<1>1. /\ chan[n] \in Seq(Message) /\ Len(chan[n]) \in Nat /\ chan[n] # << >>
      /\ \A i \in 1..Len(chan[n]) : chan[n][i] \in Message
      /\ rs.snd[n].next \in Nat /\ rs.next \in Nat /\ srv[n].last \in Nat
      /\ rs.trim \in Nat /\ High(rs) \in Nat
  BY ShardTypes DEF Receive
<1>2. log' = log /\ srv' = srv /\ up' = up /\ chan'[n] = Tail(chan[n])
  BY DEF Receive, Types
<1>3. PICK m : m = Head(chan[n])
  OBVIOUS
<1>4. /\ m = chan[n][1] /\ 1 \in 1..Len(chan[n]) /\ m \in Message
      /\ Len(chan'[n]) \in Nat /\ Len(chan[n]) = Len(chan'[n]) + 1
      /\ \A i \in 1..Len(chan'[n]) : chan'[n][i] = chan[n][i + 1] /\ i + 1 \in 1..Len(chan[n])
      /\ \A i \in 1..Len(chan[n]) : i = 1 \/ i - 1 \in 1..Len(chan'[n])
  BY <1>1, <1>2, <1>3
<1>5. srv[n].on
  BY <1>0, <1>1 DEF Session
<1>6. Live(n, 1) <=> Accepts(rs, n)
  BY <1>1 DEF Live, Accepts
<1>7. m.type = "RECORD" => m.lsn =< High(rs)
  BY <1>0, <1>4 DEF Order
<1>8. (m.type # "STARTED" /\ Accepts(rs, n)) =>
            /\ rs.snd[n].next =< m.lsn + 1 \/ rs.snd[n].next =< rs.next
            /\ m.lsn =< srv[n].last /\ m.lsn \in Nat
  BY <1>0, <1>4, <1>6, DataLsn DEF Order, IsData
<1>9. /\ StreamOK(rs') /\ Others(rs, rs', n)
      /\ rs'.snd[n].start = rs.snd[n].start
      /\ m.type = "STARTED" =>
            IF m.current /\ rs.snd[n].conn # "READING"
            THEN /\ rs'.snd[n].conn = "READING" /\ rs'.snd[n].current
                 /\ rs'.snd[n].next = rs.snd[n].next
            ELSE SameSession(rs.snd[n], rs'.snd[n])
      /\ (m.type # "STARTED" /\ ~Accepts(rs, n)) => SameSession(rs.snd[n], rs'.snd[n])
      /\ (m.type # "STARTED" /\ Accepts(rs, n)) =>
            /\ rs'.snd[n].conn = rs.snd[n].conn
            /\ rs'.snd[n].current = rs.snd[n].current
            /\ rs'.snd[n].next = IF m.lsn + 1 < rs.snd[n].next
                                 THEN rs.snd[n].next ELSE m.lsn + 1
            /\ (m.type = "RECORD" /\ m.lsn >= rs.next /\ m.lsn >= rs.snd[n].next)
                    => m.lsn \in rs'.recs
            /\ (m.type = "GAP" /\ m.reason = "TRIM") => m.lsn =< rs'.trim
  BY <1>3, <1>4, <1>7, <1>8, ReceiveStep
<1>10. /\ rs'.next = rs.next /\ rs'.low = rs.low /\ rs'.mode = rs.mode
       /\ rs'.rewound = rs.rewound /\ rs.trim =< rs'.trim /\ rs.recs \subseteq rs'.recs
       /\ rs'.trim \in Nat
  BY <1>9, StreamFields DEF Others, StreamOK
<1>11. High(rs') = High(rs)
  BY <1>10, HighSame
<1>12. Begins(m) =>
            /\ rs.snd[n].conn = "CONNECTING" /\ srv[n].current
            /\ rs'.snd[n].conn = "READING" /\ rs'.snd[n].current
            /\ \A i \in 1..Len(chan'[n]) : ~Begins(chan'[n][i])
  <2> SUFFICES ASSUME Begins(m)
               PROVE  /\ rs.snd[n].conn = "CONNECTING" /\ srv[n].current
                      /\ rs'.snd[n].conn = "READING" /\ rs'.snd[n].current
                      /\ \A i \in 1..Len(chan'[n]) : ~Begins(chan'[n][i])
    OBVIOUS
  <2>1. /\ rs.snd[n].conn = "CONNECTING" /\ srv[n].current
        /\ \A j \in 1..Len(chan[n]) : Begins(chan[n][j]) => j = 1
    BY <1>0, <1>4 DEF Session
  <2>2. \A i \in 1..Len(chan'[n]) : i + 1 # 1
    BY <1>4
  <2>3. m.type = "STARTED" /\ m.current
    BY DEF Begins
  <2>4. rs'.snd[n].conn = "READING" /\ rs'.snd[n].current
    BY <1>9, <2>1, <2>3
  <2>5. \A i \in 1..Len(chan'[n]) : ~Begins(chan'[n][i])
    BY <1>4, <2>1, <2>2
  <2>6. QED
    BY <2>1, <2>4, <2>5
<1>13. ~Begins(m) => /\ rs'.snd[n].conn = rs.snd[n].conn
                     /\ rs'.snd[n].current = rs.snd[n].current
  BY <1>9 DEF Begins, SameSession
<1>14. PICK N : N = rs'.snd[n].next
  OBVIOUS
<1>15. /\ N \in Nat /\ rs.snd[n].next =< N
       /\ (m.type # "STARTED" /\ Live(n, 1)) => m.lsn < N
       /\ N # rs.snd[n].next => m.type # "STARTED" /\ Live(n, 1) /\ N = m.lsn + 1
  BY <1>1, <1>6, <1>8, <1>9, <1>14 DEF SameSession
<1>16. \A i \in 1..Len(chan[n]) : Live(n, i)' <=> Live(n, i + 1)
  <2> SUFFICES ASSUME NEW i \in 1..Len(chan[n]) PROVE Live(n, i)' <=> Live(n, i + 1)
    OBVIOUS
  <2>1. CASE Begins(m)
    <3>1. Live(n, i)'
      BY <1>12, <2>1 DEF Live
    <3>2. 1 < i + 1
      BY <1>1
    <3>3. Live(n, i + 1)
      BY <1>4, <2>1, <3>2 DEF Live
    <3>4. QED
      BY <3>1, <3>3
  <2>2. CASE ~Begins(m)
    <3>1. (\E j \in 1..Len(chan'[n]) : j < i /\ Begins(chan'[n][j]))
             => (\E j \in 1..Len(chan[n]) : j < i + 1 /\ Begins(chan[n][j]))
      <4> SUFFICES ASSUME NEW j \in 1..Len(chan'[n]), j < i, Begins(chan'[n][j])
                   PROVE  \E k \in 1..Len(chan[n]) : k < i + 1 /\ Begins(chan[n][k])
        OBVIOUS
      <4>1. j + 1 \in 1..Len(chan[n]) /\ j + 1 < i + 1 /\ Begins(chan[n][j + 1])
        BY <1>4
      <4>2. QED
        BY <4>1
    <3>2. (\E j \in 1..Len(chan[n]) : j < i + 1 /\ Begins(chan[n][j]))
             => (\E j \in 1..Len(chan'[n]) : j < i /\ Begins(chan'[n][j]))
      <4> SUFFICES ASSUME NEW j \in 1..Len(chan[n]), j < i + 1, Begins(chan[n][j])
                   PROVE  \E k \in 1..Len(chan'[n]) : k < i /\ Begins(chan'[n][k])
        OBVIOUS
      <4>1. j # 1
        BY <1>4, <2>2
      <4>2. j - 1 \in 1..Len(chan'[n]) /\ j - 1 < i /\ (j - 1) + 1 = j
        BY <1>4, <4>1
      <4>3. Begins(chan'[n][j - 1])
        BY <1>4, <4>2
      <4>4. QED
        BY <4>2, <4>3
    <3>3. QED
      BY <1>10, <1>13, <2>2, <3>1, <3>2 DEF Live
  <2>3. QED
    BY <2>1, <2>2
<1>e. PICK e : e = Len(chan[n]) /\ e - 1 = Len(chan'[n]) /\ e = Len(chan'[n]) + 1
  BY <1>4
<1>17. Session(n)'
  <2>1. \A i \in 1..Len(chan'[n]) : Begins(chan'[n][i]) =>
            /\ rs'.snd[n].conn = "CONNECTING" /\ srv[n].current
            /\ \A j \in 1..Len(chan'[n]) : Begins(chan'[n][j]) => j = i
    <3> SUFFICES ASSUME NEW i \in 1..Len(chan'[n]), Begins(chan'[n][i])
                 PROVE  /\ rs'.snd[n].conn = "CONNECTING" /\ srv[n].current
                        /\ \A j \in 1..Len(chan'[n]) : Begins(chan'[n][j]) => j = i
      OBVIOUS
    <3>1. ~Begins(m)
      BY <1>12
    <3>2. i + 1 \in 1..Len(chan[n]) /\ Begins(chan[n][i + 1])
      BY <1>4
    <3>3. /\ rs.snd[n].conn = "CONNECTING" /\ srv[n].current
          /\ \A j \in 1..Len(chan[n]) : Begins(chan[n][j]) => j = i + 1
      BY <1>0, <3>2 DEF Session
    <3>4. ASSUME NEW j \in 1..Len(chan'[n]), Begins(chan'[n][j]) PROVE j = i
      <4>1. j + 1 = i + 1
        BY <1>4, <3>3, <3>4
      <4>2. QED
        BY <1>4, <4>1
    <3>5. QED
      BY <1>13, <3>1, <3>3, <3>4
  <2>2. rs'.snd[n].current => rs'.snd[n].conn = "READING"
    BY <1>0, <1>12, <1>13 DEF Session
  <2>3. rs'.snd[n].start # NoStart =>
            /\ rs'.snd[n].start.lsn \in 1..N
            /\ rs'.snd[n].conn = "CONNECTING" \/ (srv[n].on /\ srv[n].current)
    <3>1. rs.snd[n].start # NoStart =>
            /\ rs.snd[n].start.lsn \in 1..rs.snd[n].next
            /\ rs.snd[n].conn = "CONNECTING" \/ (srv[n].on /\ srv[n].current)
      BY <1>0 DEF Session
    <3>2. 1..rs.snd[n].next \subseteq 1..N
      BY <1>1, <1>15
    <3>3. QED
      BY <1>5, <1>9, <1>12, <1>13, <3>1, <3>2
  <2>4. (rs'.snd[n].conn = "CONNECTING" /\ rs.rewound) => N =< rs.next
    <3> SUFFICES ASSUME rs'.snd[n].conn = "CONNECTING", rs.rewound PROVE N =< rs.next
      OBVIOUS
    <3>1. ~Begins(m)
      BY <1>12
    <3>2. rs.snd[n].conn = "CONNECTING" /\ ~rs.snd[n].current
      BY <1>0, <1>13, <3>1 DEF Session
    <3>3. ~Live(n, 1)
      BY <1>6, <3>2 DEF Accepts
    <3>4. N = rs.snd[n].next
      BY <1>15, <3>3
    <3>5. QED
      BY <1>0, <3>2, <3>4 DEF Session
  <2>5. rs'.snd[n].conn # "RECONNECT_PENDING"
    BY <1>0, <1>5, <1>12, <1>13 DEF Session
  <2>6. up[n]
    BY <1>0, <1>5 DEF Session
  <2>7. rs'.snd[n].current \/ ~rs.rewound => srv[n].current
    BY <1>0, <1>5, <1>12, <1>13 DEF Session
  <2>8. QED
    BY <1>2, <1>5, <1>10, <1>14, <2>1, <2>2, <2>3, <2>4, <2>5, <2>6, <2>7 DEF Session
<1>18. AllSendAll(n)'
  BY <1>0, <1>2, <1>9, <1>10 DEF AllSendAll
<1>19. Order(n)'
  <2>1. \A i \in 1..Len(chan'[n]) :
            chan'[n][i].type = "RECORD" => chan'[n][i].lsn =< High(rs)
    BY <1>0, <1>4 DEF Order
  <2>2. ASSUME NEW i \in 1..Len(chan'[n]), Live(n, i)', IsData(chan'[n][i])
        PROVE  /\ N =< chan'[n][i].lsn + 1 \/ N =< rs.next
               /\ chan'[n][i].lsn =< srv[n].last
               /\ \A j \in 1..i : Live(n, j)' /\ IsData(chan'[n][j]) =>
                        chan'[n][j].lsn =< chan'[n][i].lsn
    <3>1. PICK p : p = i + 1
      OBVIOUS
    <3>2. p \in 1..Len(chan[n]) /\ chan'[n][i] = chan[n][p] /\ i \in 1..Len(chan[n]) /\ 1 \in 1..p
      BY <1>4, <3>1
    <3>3. Live(n, p) /\ IsData(chan[n][p])
      BY <1>16, <2>2, <3>1, <3>2
    <3>4. /\ rs.snd[n].next =< chan[n][p].lsn + 1 \/ rs.snd[n].next =< rs.next
          /\ chan[n][p].lsn =< srv[n].last
          /\ \A j \in 1..p : Live(n, j) /\ IsData(chan[n][j]) =>
                    chan[n][j].lsn =< chan[n][p].lsn
      BY <1>0, <3>2, <3>3 DEF Order
    <3>5. chan[n][p].lsn \in Nat
      BY <1>1, <3>2, <3>3, DataLsn DEF IsData
    <3>6. N =< chan[n][p].lsn + 1 \/ N =< rs.next
      <4>1. CASE N = rs.snd[n].next
        BY <3>4, <4>1
      <4>2. CASE N # rs.snd[n].next
        <5>1. m.type # "STARTED" /\ Live(n, 1) /\ N = m.lsn + 1
          BY <1>15, <4>2
        <5>2. m.lsn =< chan[n][p].lsn
          BY <1>4, <3>2, <3>4, <5>1 DEF IsData
        <5>3. m.lsn \in Nat
          BY <1>6, <1>8, <5>1
        <5>4. QED
          BY <3>5, <5>1, <5>2, <5>3
      <4>3. QED
        BY <4>1, <4>2
    <3>7. ASSUME NEW j \in 1..i, Live(n, j)', IsData(chan'[n][j])
          PROVE  chan'[n][j].lsn =< chan'[n][i].lsn
      <4>1. /\ j \in 1..Len(chan'[n]) /\ j \in 1..Len(chan[n]) /\ j + 1 \in 1..p
        BY <1>4, <3>1, <3>2
      <4>2. chan'[n][j] = chan[n][j + 1] /\ Live(n, j + 1)
        BY <1>4, <1>16, <3>7, <4>1
      <4>3. QED
        BY <3>2, <3>4, <3>7, <4>1, <4>2
    <3>8. QED
      BY <3>2, <3>4, <3>6, <3>7
  <2>3. ASSUME Live(n, e)' PROVE N =< srv[n].last + 1 \/ N =< rs.next
    <3>1. Live(n, Len(chan[n]) + 1)
      BY <1>4, <1>16, <1>e, <2>3
    <3>2. rs.snd[n].next =< srv[n].last + 1 \/ rs.snd[n].next =< rs.next
      BY <1>0, <1>5, <3>1 DEF Order
    <3>3. CASE N = rs.snd[n].next
      BY <3>2, <3>3
    <3>4. CASE N # rs.snd[n].next
      <4>1. m.type # "STARTED" /\ Live(n, 1) /\ N = m.lsn + 1
        BY <1>15, <3>4
      <4>2. m.lsn =< srv[n].last /\ m.lsn \in Nat
        BY <1>6, <1>8, <4>1
      <4>3. QED
        BY <1>1, <4>1, <4>2
    <3>5. QED
      BY <3>3, <3>4
  <2>4. srv[n].last =< MaxLsn
    BY <1>0 DEF Order
  <2>5. QED
    BY <1>2, <1>10, <1>11, <1>14, <1>e, <2>1, <2>2, <2>3, <2>4 DEF Order
<1>20. Complete(n)'
  <2> SUFFICES ASSUME rs.mode = "ALL" PROVE Received(n)' /\ InFlight(n)' /\ Sent(n)'
    BY <1>10 DEF Complete
  <2>1. Received(n) /\ InFlight(n) /\ Sent(n)
    BY <1>0 DEF Complete
  <2>2. \A l : Holds(n, l)' <=> Holds(n, l)
    BY <1>2 DEF Holds
  <2>3. \A l \in Lsns : l \in Nat
    BY SizeAssumption DEF Lsns
  <2>4. Received(n)'
    <3> SUFFICES ASSUME NEW l \in Lsns, rs.next =< l, l < N, Holds(n, l)
                 PROVE  l \in rs'.recs \/ l =< rs'.trim
      BY <1>10, <1>14, <2>2 DEF Received
    <3>1. CASE l < rs.snd[n].next
      <4>1. l \in rs.recs \/ l =< rs.trim
        BY <2>1, <3>1 DEF Received
      <4>2. QED
        BY <1>1, <1>10, <2>3, <4>1
    <3>2. CASE rs.snd[n].next =< l
      <4>1. N # rs.snd[n].next
        BY <1>1, <1>15, <2>3, <3>2
      <4>2. m.type # "STARTED" /\ Live(n, 1) /\ N = m.lsn + 1
        BY <1>15, <4>1
      <4>3. m.lsn \in Nat
        BY <1>6, <1>8, <4>2
      <4>4. l =< m.lsn
        BY <1>15, <2>3, <4>2, <4>3
      <4>5. Accounted(n, l, 1)
        BY <1>4, <2>1, <3>2, <4>2, <4>4 DEF InFlight, IsData
      <4>6. PICK j \in 1..Len(chan[n]) : j =< 1 /\ Accounts(chan[n][j], l)
        BY <4>5 DEF Accounted
      <4>7. j = 1
        BY <1>1, <4>6
      <4>8. Accounts(m, l)
        BY <1>4, <4>6, <4>7
      <4>9. CASE m.type = "RECORD" /\ m.lsn = l
        <5>1. l \in rs'.recs
          BY <1>1, <1>6, <1>9, <2>3, <3>2, <4>2, <4>9
        <5>2. QED
          BY <5>1
      <4>10. CASE m.type = "GAP" /\ m.reason = "TRIM"
        <5>1. m.lsn =< rs'.trim
          BY <1>6, <1>9, <4>2, <4>10
        <5>2. QED
          BY <1>10, <2>3, <4>3, <4>4, <5>1
      <4>11. QED
        BY <4>8, <4>9, <4>10 DEF Accounts
    <3>3. QED
      BY <1>1, <2>3, <3>1, <3>2
  <2>5. ASSUME NEW l \in Lsns, N =< l, NEW p \in 1..Len(chan[n]), Accounted(n, l, p)
        PROVE  Accounted(n, l, p - 1)'
    <3>1. PICK j \in 1..Len(chan[n]) : j =< p /\ Live(n, j) /\ Accounts(chan[n][j], l)
      BY <2>5 DEF Accounted
    <3>2. j # 1
      <4> SUFFICES ASSUME j = 1 PROVE FALSE
        OBVIOUS
      <4>1. m.type # "STARTED" /\ Live(n, 1) /\ l =< m.lsn
        BY <1>4, <2>3, <3>1 DEF Accounts
      <4>2. m.lsn < N /\ m.lsn \in Nat
        BY <1>6, <1>8, <1>15, <4>1
      <4>3. QED
        BY <1>15, <2>3, <2>5, <4>1, <4>2
    <3>3. /\ j - 1 \in 1..Len(chan'[n]) /\ j - 1 =< p - 1 /\ (j - 1) + 1 = j
          /\ j - 1 \in 1..Len(chan[n])
      BY <1>4, <3>1, <3>2
    <3>4. Live(n, j - 1)' /\ chan'[n][j - 1] = chan[n][j]
      BY <1>4, <1>16, <3>1, <3>3
    <3>5. QED
      BY <3>1, <3>3, <3>4 DEF Accounted
  <2>6. \A l \in Lsns : N =< l => rs.snd[n].next =< l
    BY <1>1, <1>15, <2>3
  <2>7. InFlight(n)'
    <3> SUFFICES ASSUME NEW i \in 1..Len(chan'[n]), Live(n, i)', IsData(chan'[n][i]),
                        NEW l \in Lsns, N =< l, l =< chan'[n][i].lsn, Holds(n, l)
                 PROVE  Accounted(n, l, i)'
      BY <1>14, <2>2 DEF InFlight
    <3>1. PICK p : p = i + 1
      OBVIOUS
    <3>2. /\ p \in 1..Len(chan[n]) /\ chan'[n][i] = chan[n][p] /\ i \in 1..Len(chan[n])
          /\ p - 1 = i
      BY <1>4, <3>1
    <3>3. Live(n, p)
      BY <1>16, <3>1, <3>2
    <3>4. Accounted(n, l, p)
      BY <2>1, <2>6, <3>2, <3>3 DEF InFlight
    <3>5. Accounted(n, l, p - 1)'
      BY <2>5, <3>2, <3>4
    <3>6. QED
      BY <3>2, <3>5
  <2>8. Sent(n)'
    <3> SUFFICES ASSUME Live(n, e)',
                        NEW l \in Lsns, N =< l, l =< srv[n].last, Holds(n, l)
                 PROVE  Accounted(n, l, e - 1)'
      BY <1>2, <1>14, <1>e, <2>2 DEF Sent
    <3>1. Live(n, e + 1) /\ e \in 1..Len(chan[n])
      BY <1>4, <1>16, <1>e
    <3>2. Accounted(n, l, e)
      BY <1>5, <1>e, <2>1, <2>6, <3>1 DEF Sent
    <3>3. QED
      BY <2>5, <3>1, <3>2
  <2>9. QED
    BY <2>4, <2>7, <2>8
<1>21. QED
  BY <1>9, <1>17, <1>18, <1>19, <1>20 DEF ShardInv

-----------------------------------------------------------------------------
(* The invariant.                                                          *)

IInv == Types /\ StreamOK(rs) /\ \A n \in Shards : ShardInv(n)

\* Steps of the stream that leave the sessions alone.
LEMMA OnwardInv ==
    ASSUME IInv, StreamOK(rs'), Onward(rs, rs'), UNCHANGED <<log, srv, chan>>,
           up' \in [Shards -> BOOLEAN], \A k \in Shards : up[k] => up'[k],
           trimAt' \in [Shards -> 0..MaxLsn],
           given' \in [Lsns -> {"nothing", "record", "trimmed", "lost"}]
    PROVE  IInv'
<1>1. Types /\ rs' \in Stream
  BY DEF IInv, StreamOK
<1>2. Types'
  BY <1>1 DEF Types
<1>3. ASSUME NEW k \in Shards PROVE ShardInv(k)'
  <2>1. Kept(k)
    BY <1>1, OnwardKept
  <2>2. QED
    BY <1>1, <2>1, KeptInv DEF IInv
<1>4. QED
  BY <1>2, <1>3 DEF IInv

\* Steps of the session with shard n.
LEMMA SessionStepInv ==
    ASSUME IInv, StreamOK(rs'), NEW n \in Shards, Others(rs, rs', n), ShardInv(n)',
           UNCHANGED <<log, trimAt, given>>,
           srv' \in [Shards -> ServerStream], chan' \in [Shards -> Seq(Message)],
           up' \in [Shards -> BOOLEAN],
           \A k \in Shards : k # n => srv'[k] = srv[k] /\ chan'[k] = chan[k] /\ up'[k] = up[k]
    PROVE  IInv'
<1>1. Types /\ rs' \in Stream
  BY DEF IInv, StreamOK
<1>2. Types'
  BY <1>1 DEF Types
<1>3. ASSUME NEW k \in Shards, k # n PROVE ShardInv(k)'
  <2>1. Kept(k)
    BY <1>1, <1>3, OthersKept
  <2>2. QED
    BY <1>1, <1>3, <2>1, KeptInv DEF IInv
<1>4. QED
  BY <1>2, <1>3 DEF IInv

LEMMA RewindStepInv ==
    ASSUME IInv, RewindOnDataLoss \/ ScheduledRewind
    PROVE  IInv'
<1>0. Types /\ StreamOK(rs) /\ Window(rs)
  BY DEF IInv, StreamOK
<1>1. StreamOK(rs') /\ Rewound(rs, rs')
  BY <1>0, RewindOnDataLossStep, ScheduledRewindStep
<1>2. Outdated /\ UNCHANGED <<log, up, trimAt, given>>
  BY DEF RewindOnDataLoss, ScheduledRewind
<1>3. Types'
  BY <1>0, <1>1, <1>2, OutdatedFields DEF Types, StreamOK
<1>4. \A k \in Shards : ShardInv(k)'
  BY <1>0, <1>1, <1>2, RewoundInv DEF IInv, StreamOK
<1>5. QED
  BY <1>1, <1>3, <1>4 DEF IInv

LEMMA DeliverType ==
    ASSUME Types, NEW what \in {"record", "trimmed", "lost"}, NEW hi, NEW r, NEW q,
           Deliver(what, hi, r, q)
    PROVE  given' \in [Lsns -> {"nothing", "record", "trimmed", "lost"}]
<1>1. CASE given' = [l \in Lsns |-> IF l \in rs.next..hi THEN what ELSE given[l]]
  BY <1>1 DEF Types
<1>2. CASE given' = given
  BY <1>2 DEF Types
<1>3. QED
  BY <1>1, <1>2 DEF Deliver

LEMMA LoopStepInv ==
    ASSUME IInv, LoopStep
    PROVE  IInv'
<1>0. /\ Types /\ StreamOK(rs)
      /\ up \in [Shards -> BOOLEAN] /\ trimAt \in [Shards -> 0..MaxLsn]
      /\ given \in [Lsns -> {"nothing", "record", "trimmed", "lost"}]
  BY DEF IInv, Types
<1>1. CASE DeliverTrimGap
  <2>1. given' \in [Lsns -> {"nothing", "record", "trimmed", "lost"}]
    BY <1>0, <1>1, DeliverType DEF DeliverTrimGap
  <2>2. StreamOK(rs') /\ Onward(rs, rs') /\ UNCHANGED <<log, srv, chan, up, trimAt>>
    BY <1>0, <1>1, DeliverTrimGapStep DEF DeliverTrimGap
  <2>3. QED
    BY <1>0, <2>1, <2>2, OnwardInv
<1>2. CASE DeliverRecord
  <2>1. given' \in [Lsns -> {"nothing", "record", "trimmed", "lost"}]
    BY <1>0, <1>2, DeliverType DEF DeliverRecord
  <2>2. StreamOK(rs') /\ Onward(rs, rs') /\ UNCHANGED <<log, srv, chan, up, trimAt>>
    BY <1>0, <1>2, DeliverRecordStep DEF DeliverRecord
  <2>3. QED
    BY <1>0, <2>1, <2>2, OnwardInv
<1>3. CASE ClearMarker
  <2>1. StreamOK(rs') /\ Onward(rs, rs') /\ UNCHANGED <<log, srv, chan, up, trimAt, given>>
    BY <1>0, <1>3, ClearMarkerStep DEF ClearMarker
  <2>2. QED
    BY <1>0, <2>1, OnwardInv
<1>4. CASE RewindOnDataLoss
  BY <1>4, RewindStepInv
<1>5. CASE DeliverDataLoss
  <2>1. given' \in [Lsns -> {"nothing", "record", "trimmed", "lost"}]
    BY <1>0, <1>5, DeliverType DEF DeliverDataLoss
  <2>2. StreamOK(rs') /\ Onward(rs, rs') /\ UNCHANGED <<log, srv, chan, up, trimAt>>
    BY <1>0, <1>5, DeliverDataLossStep DEF DeliverDataLoss
  <2>3. QED
    BY <1>0, <2>1, <2>2, OnwardInv
<1>6. CASE NoProgress
  <2>1. StreamOK(rs') /\ Onward(rs, rs') /\ UNCHANGED <<log, srv, chan, up, trimAt, given>>
    BY <1>0, <1>6, NoProgressStep DEF NoProgress
  <2>2. QED
    BY <1>0, <2>1, OnwardInv
<1>7. QED
  BY <1>1, <1>2, <1>3, <1>4, <1>5, <1>6 DEF LoopStep

LEMMA TimerStepInv ==
    ASSUME IInv, GracePeriodExpired \/ Redeliver \/ ShardsDownTimeout \/ AllSendAllTimeout
    PROVE  IInv'
<1>0. /\ Types /\ StreamOK(rs)
      /\ up \in [Shards -> BOOLEAN] /\ trimAt \in [Shards -> 0..MaxLsn]
      /\ given \in [Lsns -> {"nothing", "record", "trimmed", "lost"}]
  BY DEF IInv, Types
<1>1. StreamOK(rs') /\ Onward(rs, rs')
  BY <1>0, GracePeriodExpiredStep, RedeliverStep, ShardsDownTimeoutStep, AllSendAllTimeoutStep
<1>2. UNCHANGED <<log, srv, chan, up, trimAt, given>>
  BY DEF GracePeriodExpired, Redeliver, ShardsDownTimeout, AllSendAllTimeout
<1>3. QED
  BY <1>0, <1>1, <1>2, OnwardInv

LEMMA TrimInv ==
    ASSUME IInv, NEW n \in Shards, Trim(n) \/ ComeBack(n)
    PROVE  IInv'
<1>0. /\ Types /\ StreamOK(rs) /\ rs \in Stream /\ log \in Logs
      /\ up \in [Shards -> BOOLEAN] /\ trimAt \in [Shards -> 0..MaxLsn]
      /\ given \in [Lsns -> {"nothing", "record", "trimmed", "lost"}]
  BY DEF IInv, Types
<1>1. rs' = rs /\ UNCHANGED <<log, srv, chan, given>>
  BY DEF Trim, ComeBack
<1>2. StreamOK(rs') /\ Onward(rs, rs')
  BY <1>0, <1>1, AlikeReflexive, AlikeOnward
<1>3. log.trim[n] \in 0..MaxLsn
  BY <1>0, LogsAssumption
<1>4. /\ up' \in [Shards -> BOOLEAN] /\ \A k \in Shards : up[k] => up'[k]
      /\ trimAt' \in [Shards -> 0..MaxLsn]
  <2>1. CASE Trim(n)
    BY <1>0, <1>3, <2>1 DEF Trim
  <2>2. CASE ComeBack(n)
    BY <1>0, <2>2 DEF ComeBack
  <2>3. QED
    BY <2>1, <2>2
<1>5. QED
  BY <1>0, <1>1, <1>2, <1>4, OnwardInv

LEMMA ServerStepInv ==
    ASSUME IInv, NEW n \in Shards, ServerStart(n) \/ ServerSend(n)
    PROVE  IInv'
<1>0. /\ Types /\ StreamOK(rs) /\ rs \in Stream /\ ShardInv(n)
      /\ up \in [Shards -> BOOLEAN] /\ srv \in [Shards -> ServerStream]
      /\ chan \in [Shards -> Seq(Message)]
  BY DEF IInv, Types
<1>1. CASE ServerStart(n)
  <2>1. StreamOK(rs') /\ Others(rs, rs', n)
    BY <1>0, <1>1, ServerStartStep
  <2>2. ShardInv(n)'
    BY <1>0, <1>1, ServerStartAgainInv, ServerStartNewInv
  <2>3. UNCHANGED <<log, up, trimAt, given>>
    BY <1>1 DEF ServerStart
  <2>4. CASE srv' = srv /\ chan' = chan
    BY <1>0, <2>1, <2>2, <2>3, <2>4, SessionStepInv
  <2>5. CASE ~(srv[n].on /\ srv[n].current)
    <3>1. PICK s : s = rs.snd[n].start
      OBVIOUS
    <3>2. s \in StartMessage /\ s.lsn \in 1..rs.snd[n].next /\ rs.snd[n].next \in Nat
      BY <1>0, <1>1, <3>1, SenderOf DEF ServerStart, ShardInv, Session
    <3>3. PICK v : v = [on |-> TRUE, current |-> TRUE, last |-> s.lsn - 1,
                        scd |-> s.scd, down |-> s.down]
      OBVIOUS
    <3>4. PICK m : m = [type |-> "STARTED", current |-> TRUE]
      OBVIOUS
    <3>5. srv' = [srv EXCEPT ![n] = v] /\ chan' = [chan EXCEPT ![n] = Append(@, m)]
      BY <1>1, <2>5, <3>1, <3>3, <3>4 DEF ServerStart
    <3>6. v \in ServerStream /\ m \in Message
      BY <3>2, <3>3, <3>4 DEF ServerStream, StartMessage, Message, Started
    <3>7. Append(chan[n], m) \in Seq(Message)
      BY <1>0, <3>6
    <3>8. srv' \in [Shards -> ServerStream] /\ chan' \in [Shards -> Seq(Message)]
      BY <1>0, <3>5, <3>6, <3>7
    <3>9. \A k \in Shards : k # n => srv'[k] = srv[k] /\ chan'[k] = chan[k]
      BY <1>0, <3>5
    <3>10. QED
      BY <1>0, <2>1, <2>2, <2>3, <3>8, <3>9, SessionStepInv
  <2>6. QED
    BY <1>1, <2>4, <2>5 DEF ServerStart
<1>2. CASE ServerSend(n)
  <2>1. rs' = rs /\ UNCHANGED <<log, up, trimAt, given>>
    BY <1>2 DEF ServerSend
  <2>2. StreamOK(rs') /\ Others(rs, rs', n)
    <3>1. rs.trim \in Nat
      BY <1>0, StreamFields
    <3>2. QED
      BY <1>0, <2>1, <3>1 DEF Others, SameSession
  <2>3. ShardInv(n)'
    BY <1>0, <1>2, ServerSendInv
  <2>4. PICK m \in Message :
            /\ IsData(m) /\ chan' = [chan EXCEPT ![n] = Append(@, m)]
            /\ srv' = [srv EXCEPT ![n].last = m.lsn]
    BY <1>0, <1>2, ServerSendFields
  <2>5. m.lsn \in Nat
    BY <2>4, DataLsn DEF IsData
  <2>6. Append(chan[n], m) \in Seq(Message)
    BY <1>0
  <2>a. PICK x \in Nat : x = m.lsn
    BY <2>5
  <2>b. PICK v : v = [srv[n] EXCEPT !.last = x]
    OBVIOUS
  <2>c. srv[n] \in ServerStream
    BY <1>0
  <2>7. v \in ServerStream
    BY <2>b, <2>c DEF ServerStream
  <2>8. srv' = [srv EXCEPT ![n] = v]
    BY <1>0, <2>4, <2>a, <2>b
  <2>9. srv' \in [Shards -> ServerStream] /\ chan' \in [Shards -> Seq(Message)]
    BY <1>0, <2>4, <2>6, <2>7, <2>8
  <2>10. \A k \in Shards : k # n => srv'[k] = srv[k] /\ chan'[k] = chan[k]
    BY <1>0, <2>4, <2>8
  <2>11. QED
    BY <1>0, <2>1, <2>2, <2>3, <2>9, <2>10, SessionStepInv
<1>3. QED
  BY <1>1, <1>2

LEMMA ConnectionStepInv ==
    ASSUME IInv, NEW n \in Shards,
           Receive(n) \/ Reconnect(n) \/ StartedTimeout(n) \/ StartFails(n) \/ Disconnect(n)
    PROVE  IInv'
<1>0. /\ Types /\ StreamOK(rs) /\ ShardInv(n)
      /\ up \in [Shards -> BOOLEAN] /\ srv \in [Shards -> ServerStream]
      /\ chan \in [Shards -> Seq(Message)]
  BY DEF IInv, Types
<1>1. CASE Receive(n)
  <2>1. StreamOK(rs') /\ Others(rs, rs', n) /\ ShardInv(n)'
    BY <1>0, <1>1, ReceiveInv
  <2>2. UNCHANGED <<log, srv, up, trimAt, given>>
    BY <1>1 DEF Receive
  <2>3. chan' = [chan EXCEPT ![n] = Tail(@)] /\ chan[n] # << >>
    BY <1>1 DEF Receive
  <2>4. Tail(chan[n]) \in Seq(Message)
    BY <1>0, <2>3
  <2>5. /\ chan' \in [Shards -> Seq(Message)]
        /\ \A k \in Shards : k # n => chan'[k] = chan[k]
    BY <1>0, <2>3, <2>4
  <2>6. QED
    BY <1>0, <2>1, <2>2, <2>5, SessionStepInv
<1>2. CASE Reconnect(n) \/ StartedTimeout(n)
  <2>1. UNCHANGED <<log, srv, chan, up, trimAt, given>>
    BY <1>2 DEF Reconnect, StartedTimeout
  <2>2. rs' = RunLoop(SendStart(rs, n), FALSE, FALSE, NoShard)
    BY <1>2 DEF Reconnect, StartedTimeout
  <2>3. StreamOK(rs') /\ Others(rs, rs', n)
    BY <1>0, <2>2, StartStep
  <2>4. ShardInv(n)'
    BY <1>0, <1>2, StartInv
  <2>5. QED
    BY <1>0, <2>1, <2>3, <2>4, SessionStepInv
<1>3. CASE StartFails(n)
  <2>1. StreamOK(rs') /\ Others(rs, rs', n) /\ ShardInv(n)'
    BY <1>0, <1>3, StartFailsInv
  <2>2. UNCHANGED <<log, srv, chan, up, trimAt, given>>
    BY <1>3 DEF StartFails
  <2>3. QED
    BY <1>0, <2>1, <2>2, SessionStepInv
<1>4. CASE Disconnect(n)
  <2>1. StreamOK(rs') /\ Others(rs, rs', n) /\ ShardInv(n)'
    BY <1>0, <1>4, DisconnectInv
  <2>2. /\ up' = [up EXCEPT ![n] = FALSE] /\ srv' = [srv EXCEPT ![n] = NoServerStream]
        /\ chan' = [chan EXCEPT ![n] = << >>] /\ UNCHANGED <<log, trimAt, given>>
    BY <1>4 DEF Disconnect
  <2>3. NoServerStream \in ServerStream /\ << >> \in Seq(Message)
    BY DEF NoServerStream, ServerStream
  <2>4. /\ up' \in [Shards -> BOOLEAN] /\ srv' \in [Shards -> ServerStream]
        /\ chan' \in [Shards -> Seq(Message)]
        /\ \A k \in Shards : k # n => srv'[k] = srv[k] /\ chan'[k] = chan[k] /\ up'[k] = up[k]
    BY <1>0, <2>2, <2>3
  <2>5. QED
    BY <1>0, <2>1, <2>2, <2>4, SessionStepInv
<1>5. QED
  BY <1>1, <1>2, <1>3, <1>4

LEMMA InvInit ==
    ASSUME Init
    PROVE  IInv
<1>0. MaxLsn \in Nat /\ MaxLsn >= 1 /\ WindowSize \in Nat /\ WindowSize >= 1
  BY SizeAssumption
<1>1. NewSender \in Sender /\ NewSender.current = FALSE
  BY DEF NewSender, Sender, NoStart, StartMessage
<1>2. /\ NewStream \in Stream /\ NewStream.next = 1 /\ NewStream.low = 1
      /\ NewStream.recs = {} /\ NewStream.marks = {} /\ NewStream.gapOut = 0
      /\ NewStream.trim = 0 /\ NewStream.mode = "SCD" /\ NewStream.rewound = FALSE
      /\ NewStream.redeliver = FALSE /\ NewStream.loop = "idle"
      /\ \A n \in Shards : NewStream.snd[n] = NewSender
  <2>1. [n \in Shards |-> NewSender] \in [Shards -> Sender]
    BY <1>1
  <2> HIDE DEF NewSender
  <2>2. QED
    BY <2>1 DEF NewStream, Stream
<1>3. PICK r0 : r0 = NewStream
  OBVIOUS
<1>4. PICK snd : snd = [n \in Shards |-> Starting(r0, r0.snd[n])]
  OBVIOUS
<1>5. rs = [r0 EXCEPT !.snd = snd]
  BY <1>3, <1>4 DEF Init
<1>6. r0 \in Stream
  BY <1>2, <1>3
<1>7. ASSUME NEW n \in Shards
      PROVE  /\ snd[n] \in Sender /\ snd[n].conn = "CONNECTING" /\ ~snd[n].current
             /\ snd[n].next = r0.next /\ snd[n].gap = "NONE" /\ snd[n].slot = 0
             /\ snd[n].ur = 0 /\ snd[n].high = High(r0) /\ snd[n].start.lsn = r0.next
             /\ snd[n].start.scd = (r0.mode = "SCD")
  <2>1. PICK s : s = r0.snd[n]
    OBVIOUS
  <2>2. s \in Sender /\ s.current = FALSE
    BY <1>1, <1>2, <1>3, <2>1
  <2>3. snd[n] = Starting(r0, s)
    BY <1>4, <2>1
  <2>4. /\ snd[n] \in Sender /\ snd[n].conn = "CONNECTING" /\ snd[n].current = s.current
        /\ snd[n].next = r0.next /\ snd[n].gap = "NONE" /\ snd[n].slot = 0
        /\ snd[n].ur = 0 /\ snd[n].high = High(r0) /\ snd[n].start.lsn = r0.next
        /\ snd[n].start.scd = (r0.mode = "SCD")
    BY <1>6, <2>2, <2>3, StartingFields
  <2>5. QED
    BY <2>2, <2>4
<1>8. snd \in [Shards -> Sender]
  BY <1>4, <1>7
<1>9. /\ rs \in Stream /\ rs.next = r0.next /\ rs.low = r0.low /\ rs.recs = r0.recs
      /\ rs.marks = r0.marks /\ rs.gapOut = r0.gapOut /\ rs.trim = r0.trim
      /\ rs.mode = r0.mode /\ rs.rewound = r0.rewound /\ rs.loop = r0.loop
      /\ rs.redeliver = r0.redeliver /\ rs.snd = snd
  BY <1>5, <1>6, <1>8 DEF Stream
<1>10. High(rs) = High(r0)
  BY <1>9, HighSame
<1>11. /\ rs.next = 1 /\ rs.low = 1 /\ rs.recs = {} /\ rs.marks = {} /\ rs.gapOut = 0
       /\ rs.trim = 0 /\ rs.mode = "SCD" /\ rs.rewound = FALSE /\ rs.loop = "idle"
  BY <1>2, <1>3, <1>9
<1>12. High(rs) \in Nat /\ 1 =< High(rs)
  BY <1>0, <1>9, <1>11, HighType
<1>13. Window(rs)
  BY <1>0, <1>11 DEF Window
<1>14. \A n \in Shards : Restarted(rs, rs.snd[n]) /\ ~rs.snd[n].current
  BY <1>7, <1>9, <1>10 DEF Restarted
<1>15. Linked(rs) /\ \A n \in Shards : rs.snd[n].slot # rs.next
  BY <1>9, <1>13, <1>14, RestartedLink DEF Linked
<1>16. StreamOK(rs)
  BY <1>9, <1>11, <1>12, <1>13, <1>15 DEF StreamOK, Quiet
<1>17. Types
  BY <1>0, <1>9 DEF Init, Types, NoServerStream, ServerStream
<1>18. ASSUME NEW n \in Shards PROVE ShardInv(n)
  <2>1. /\ rs.snd[n].conn = "CONNECTING" /\ ~rs.snd[n].current /\ rs.snd[n].next = 1
        /\ rs.snd[n].start.lsn = 1
    BY <1>11, <1>14 DEF Restarted
  <2>2. /\ ~srv[n].on /\ srv[n].last = 0 /\ chan[n] = << >> /\ up[n]
    BY DEF Init, NoServerStream
  <2>3. \A i \in 1..Len(chan[n]) : FALSE
    BY <2>2
  <2>4. Session(n)
    BY <1>11, <2>1, <2>2, <2>3 DEF Session
  <2>5. AllSendAll(n) /\ Complete(n)
    BY <1>11 DEF AllSendAll, Complete
  <2>6. Order(n)
    BY <1>0, <2>2, <2>3 DEF Order
  <2>7. QED
    BY <2>4, <2>5, <2>6 DEF ShardInv
<1>19. QED
  BY <1>16, <1>17, <1>18 DEF IInv

LEMMA InvNext ==
    ASSUME IInv, [Next]_vars
    PROVE  IInv'
<1>1. CASE UNCHANGED vars
  <2>1. rs' = rs /\ UNCHANGED <<log, srv, chan, up, trimAt, given>>
    BY <1>1 DEF vars
  <2>2. Types /\ StreamOK(rs) /\ rs \in Stream
    BY DEF IInv, Types
  <2>3. StreamOK(rs') /\ Onward(rs, rs')
    BY <2>1, <2>2, AlikeReflexive, AlikeOnward
  <2>4. QED
    BY <2>1, <2>2, <2>3, OnwardInv DEF Types
<1>2. ASSUME NEW n \in Shards,
             \/ ServerStart(n) \/ ServerSend(n) \/ Trim(n) \/ Receive(n)
             \/ Reconnect(n) \/ StartedTimeout(n) \/ StartFails(n)
             \/ Disconnect(n) \/ ComeBack(n)
      PROVE  IInv'
  BY <1>2, ServerStepInv, ConnectionStepInv, TrimInv
<1>3. CASE LoopStep
  BY <1>3, LoopStepInv
<1>4. CASE GracePeriodExpired \/ Redeliver \/ ShardsDownTimeout \/ AllSendAllTimeout
  BY <1>4, TimerStepInv
<1>5. CASE ScheduledRewind
  BY <1>5, RewindStepInv
<1>6. QED
  BY <1>1, <1>2, <1>3, <1>4, <1>5 DEF Next

-----------------------------------------------------------------------------
(* The theorems.                                                           *)

\* The inductive invariant holds of every behaviour: the buffer, the links and
\* the gap states of the stream are consistent between any two handlers, and
\* what a shard has said to the stream under its current filter version accounts
\* for every record that it holds (ClientReadStream, CatchupOneStream).
THEOREM Invariance == Spec => []IInv
<1>1. Init => IInv
  BY InvInit
<1>2. IInv /\ [Next]_vars => IInv'
  BY InvNext
<1>3. QED
  BY <1>1, <1>2, PTL DEF Spec

\* The buffer of a read stream stays in its window, and every sender that is
\* linked is linked to a marker of the buffer (updateGapState(),
\* unlinkRecordState(), slideSenderWindows(), rewind()).
THEOREM StreamTypeCorrect == Spec => []TypeOK
<1>1. IInv => TypeOK
  <2> SUFFICES ASSUME IInv PROVE TypeOK
    OBVIOUS
  <2>1. rs \in Stream /\ Window(rs) /\ Linked(rs)
    BY DEF IInv, StreamOK
  <2>2. /\ rs.next \in 1..MaxLsn + 1 /\ rs.low =< rs.next
        /\ rs.recs \cup rs.marks \subseteq rs.next..High(rs)
    BY <2>1, SizeAssumption, StreamFields DEF Window
  <2>3. /\ rs.down \subseteq Shards /\ rs.newDown \subseteq Shards
        /\ rs.mode \in {"SCD", "ALL"} /\ rs.toMode \in {"SCD", "ALL", "none"}
    BY <2>1, StreamFields
  <2>4. ASSUME NEW n \in Shards
        PROVE  /\ rs.snd[n].conn \in {"CONNECTING", "READING", "RECONNECT_PENDING"}
               /\ rs.snd[n].gap \in {"NONE", "GAP", "UNDER"}
               /\ rs.snd[n].slot \in {0} \cup rs.marks
    BY <2>1, SenderOf DEF Linked, Link, LinkAt, GapStates
  <2>5. QED
    BY <2>2, <2>3, <2>4 DEF TypeOK
<1>2. QED
  BY <1>1, Invariance, PTL

\* Between two handlers the gap state of every sender, which the code maintains
\* step by step, is what its definition says: GAP or UNDER_REPLICATED if and
\* only if the shard has nothing for the next LSN (updateGapState(),
\* unlinkRecordState(), slideSenderWindows(), rewind()), except at the front of
\* the buffer while the application refuses a TRIM gap.
THEOREM GapStatesExact == Spec => []GapStateExact
<1>1. IInv => GapStateExact
  <2> SUFFICES ASSUME IInv, Idle, NEW n \in Shards, NEW s, s = rs.snd[n]
               PROVE  IF s.slot = rs.next THEN rs.redeliver /\ CanSkipTrimmed(rs)
                      ELSE /\ (s.gap # "NONE") <=> (s.next > rs.next)
                           /\ (s.gap = "UNDER") <=> (s.next > rs.next /\ s.ur > rs.next)
                           /\ s.gap = "NONE" => s.slot = 0
    BY DEF GapStateExact
  <2>1. rs \in Stream /\ Linked(rs) /\ Quiet(rs) /\ rs.loop = "idle" /\ ~Done(rs)
    BY DEF IInv, StreamOK, Idle
  <2>2. rs.next =< High(rs)
    BY <2>1 DEF Quiet
  <2>3. LinkAt(rs.next, High(rs), rs.marks, rs.gapOut, s.next, s.ur, s.gap, s.slot)
    BY <2>1 DEF Linked, Link
  <2>4. CASE s.slot = rs.next
    BY <2>1, <2>4 DEF Quiet
  <2>5. CASE s.slot # rs.next
    BY <2>2, <2>3, <2>5 DEF LinkAt
  <2>6. QED
    BY <2>4, <2>5
<1>2. QED
  BY <1>1, Invariance, PTL

\* A shard that has answered for the next LSN has nothing below the end of the gap.
LEMMA GapEndBelow ==
    ASSUME StreamOK(rs), rs.next =< High(rs), rs.next \notin rs.recs \cup rs.marks,
           GapEnd(rs) # 0, NEW n \in HeardFrom(rs)
    PROVE  GapEnd(rs) =< rs.snd[n].next
<1>0. rs \in Stream /\ Window(rs) /\ Linked(rs) /\ n \in Shards /\ rs.snd[n].gap # "NONE"
  BY DEF StreamOK, HeardFrom
<1>1. /\ GapEnd(rs) \in Nat /\ \A l \in rs.recs \cup rs.marks : GapEnd(rs) =< l
  BY <1>0, GapEndBounds
<1>2. PICK s : s = rs.snd[n]
  OBVIOUS
<1>3. s.next \in Nat /\ s.slot \in Nat /\ s.gap \in GapStates /\ High(rs) \in Nat
      /\ rs.next \in Nat /\ rs.gapOut \in Nat /\ rs.next >= 1
  BY <1>0, <1>2, SenderOf, HighType, StreamFields DEF Window
<1>4. LinkAt(rs.next, High(rs), rs.marks, rs.gapOut, s.next, s.ur, s.gap, s.slot)
  BY <1>0, <1>2 DEF Linked, Link
<1>5. CASE s.slot # 0
  <2>1. s.slot \in rs.marks /\ s.slot =< s.next
    BY <1>4, <1>5 DEF LinkAt
  <2>2. QED
    BY <1>1, <1>2, <1>3, <2>1
<1>6. CASE s.slot = 0
  <2>1. s.next > High(rs) /\ s.next > rs.next
    BY <1>0, <1>2, <1>3, <1>4, <1>6 DEF LinkAt
  <2>2. rs.gapOut \in 1..s.next
    BY <1>4, <2>1 DEF LinkAt
  <2>3. CASE rs.recs \cup rs.marks = {}
    BY <1>2, <1>3, <2>2, <2>3 DEF GapEnd
  <2>4. CASE rs.recs \cup rs.marks # {}
    <3>1. PICK l \in rs.recs \cup rs.marks : TRUE
      BY <2>4
    <3>2. l \in Nat /\ l =< High(rs) /\ GapEnd(rs) =< l
      BY <1>0, <1>1, <1>3 DEF Window
    <3>3. QED
      BY <1>1, <1>2, <1>3, <2>1, <3>2
  <2>5. QED
    BY <2>3, <2>4
<1>7. QED
  BY <1>5, <1>6

\* An f-majority, or all shards, have a shard in common with any set of
\* Replication shards.
LEMMA FMajorityMeets ==
    ASSUME NEW A, A \subseteq Shards, NEW B, B \subseteq Shards,
           Cardinality(B) >= Replication,
           A = Shards \/ Cardinality(A) > Cardinality(Shards) - Replication
    PROVE  \E n \in A : n \in B
<1>1. /\ IsFiniteSet(Shards) /\ Replication \in Nat /\ Replication >= 1
      /\ Cardinality(Shards) \in Nat
  BY SizeAssumption, FS_CardinalityType
<1>2. /\ IsFiniteSet(A) /\ IsFiniteSet(B)
  BY <1>1, FS_Subset
<1>3. Cardinality(A) \in Nat /\ Cardinality(B) \in Nat
  BY <1>2, FS_CardinalityType
<1>4. B # {}
  BY <1>1, <1>2, <1>3, FS_EmptySet
<1>5. CASE A = Shards
  BY <1>4, <1>5
<1>6. CASE Cardinality(A) > Cardinality(Shards) - Replication
  <2> SUFFICES ASSUME A \cap B = {} PROVE FALSE
    OBVIOUS
  <2>1. Cardinality(A \cup B) = Cardinality(A) + Cardinality(B)
    <3>1. Cardinality(A \cap B) = 0
      BY FS_EmptySet
    <3>2. Cardinality(A \cup B) = Cardinality(A) + Cardinality(B) - Cardinality(A \cap B)
      BY <1>2, FS_Union
    <3>3. QED
      BY <1>3, <3>1, <3>2
  <2>2. Cardinality(A \cup B) =< Cardinality(Shards)
    BY <1>1, FS_Subset
  <2>3. QED
    BY <1>1, <1>3, <1>6, <2>1, <2>2
<1>7. QED
  BY <1>5, <1>6

LEMMA DataLossSound ==
    ASSUME IInv, DeliverDataLoss, NEW l \in Lsns, l \in rs.next..GapEnd(rs) - 1
    PROVE  Cardinality({n \in Shards : Holds(n, l)}) < Replication
<1>0. /\ Types /\ StreamOK(rs) /\ rs \in Stream /\ Window(rs)
      /\ \A n \in Shards : Complete(n)
  BY DEF IInv, Types, StreamOK, ShardInv
<1>1. /\ ~(rs.next > High(rs)) /\ rs.next \notin rs.recs \cup rs.marks /\ ~CanSkipTrimmed(rs)
      /\ CheckFMajority(rs) = "ISSUE_GAP" /\ GapEnd(rs) # 0
  BY DEF DeliverDataLoss, AtHole, Blocked, SkipTrimmed, HasRecord, IssueGap
<1>2. /\ rs.next \in Nat /\ High(rs) \in Nat /\ rs.next =< High(rs) /\ rs.trim \in Nat
  BY <1>0, <1>1, StreamFields, HighType
<1>3. rs.mode = "ALL"
  <2>1. ~ScdActive(rs)
    BY <1>1 DEF CheckFMajority
  <2>2. QED
    BY <1>0, <2>1, StreamFields DEF ScdActive
<1>4. HeardFrom(rs) = Shards \/ GapSenders(rs) = Shards
        \/ Cardinality(GapSenders(rs)) > Cardinality(Shards) - Replication
  BY <1>1 DEF CheckFMajority, IsFmajority
<1>5. /\ GapEnd(rs) \in Nat /\ rs.next < GapEnd(rs)
      /\ \A k \in rs.recs \cup rs.marks : GapEnd(rs) =< k
  BY <1>0, <1>1, <1>2, GapEndBounds
<1>6. l \in Nat /\ rs.next =< l /\ l < GapEnd(rs)
  BY <1>2, <1>5
<1>7. ASSUME NEW n \in HeardFrom(rs), Holds(n, l) PROVE FALSE
  <2>1. n \in Shards
    BY DEF HeardFrom
  <2>2. GapEnd(rs) =< rs.snd[n].next /\ rs.snd[n].next \in Nat
    BY <1>0, <1>1, <1>2, <2>1, GapEndBelow, SenderOf
  <2>3. l < rs.snd[n].next
    BY <1>5, <1>6, <2>2
  <2>4. l \in rs.recs \/ l =< rs.trim
    BY <1>0, <1>3, <1>6, <1>7, <2>1, <2>3 DEF Complete, Received
  <2>5. l \notin rs.recs
    BY <1>5, <1>6
  <2>6. QED
    BY <1>1, <1>2, <1>6, <2>4, <2>5 DEF CanSkipTrimmed
<1>8. PICK B : B = {n \in Shards : Holds(n, l)}
  OBVIOUS
<1>9. /\ B \subseteq Shards /\ \A n \in B : Holds(n, l)
      /\ HeardFrom(rs) \subseteq Shards /\ GapSenders(rs) \subseteq HeardFrom(rs)
  BY <1>8 DEF HeardFrom, GapSenders
<1>10. Cardinality(B) \in Nat /\ Replication \in Nat
  BY <1>9, SizeAssumption, FS_Subset, FS_CardinalityType
<1>11. ~(Cardinality(B) >= Replication)
  <2> SUFFICES ASSUME Cardinality(B) >= Replication PROVE FALSE
    OBVIOUS
  <2>1. \E n \in HeardFrom(rs) : n \in B
    <3>1. CASE HeardFrom(rs) = Shards
      BY <1>9, <3>1, FMajorityMeets
    <3>2. CASE HeardFrom(rs) # Shards
      <4>1. \E n \in GapSenders(rs) : n \in B
        BY <1>4, <1>9, <3>2, FMajorityMeets
      <4>2. QED
        BY <1>9, <4>1
    <3>3. QED
      BY <3>1, <3>2
  <2>2. QED
    BY <1>7, <1>9, <2>1
<1>12. QED
  BY <1>8, <1>10, <1>11

\* A record of which Replication copies exist is never reported lost, whatever
\* rewinds, reconnections, timeouts and changes between SCD and ALL_SEND_ALL
\* have happened before the DATALOSS gap (detectGap(), checkFMajority() and the
\* filter versions of rewind()).
THEOREM ReplicatedRecordsNotLost == Spec => []ReplicatedNeverLost
<1>1. Init => ReplicatedNeverLost
  BY DEF Init, ReplicatedNeverLost
<1>2. IInv /\ ReplicatedNeverLost /\ [Next]_vars => ReplicatedNeverLost'
  <2> SUFFICES ASSUME IInv, ReplicatedNeverLost, [Next]_vars,
                      NEW l \in Lsns, given'[l] = "lost"
               PROVE  Cardinality({n \in Shards : Holds(n, l)'}) < Replication
    BY DEF ReplicatedNeverLost
  <2>1. log' = log
    BY DEF Next, vars, LoopStep, ServerStart, ServerSend, Trim, Receive, Reconnect,
       StartedTimeout, StartFails, Disconnect, ComeBack, DeliverTrimGap, DeliverRecord,
       ClearMarker, RewindOnDataLoss, DeliverDataLoss, NoProgress, GracePeriodExpired,
       Redeliver, ScheduledRewind, ShardsDownTimeout, AllSendAllTimeout
  <2>2. \A n \in Shards : Holds(n, l)' <=> Holds(n, l)
    BY <2>1 DEF Holds
  <2>3. \/ given' = given
        \/ DeliverTrimGap \/ DeliverRecord \/ DeliverDataLoss
    BY DEF Next, vars, LoopStep, ServerStart, ServerSend, Trim, Receive, Reconnect,
       StartedTimeout, StartFails, Disconnect, ComeBack,
       ClearMarker, RewindOnDataLoss, NoProgress, GracePeriodExpired,
       Redeliver, ScheduledRewind, ShardsDownTimeout, AllSendAllTimeout
  <2>4. given[l] = "lost" \/ (DeliverDataLoss /\ l \in rs.next..GapEnd(rs) - 1)
    <3>1. CASE given' = given
      BY <3>1
    <3>2. CASE DeliverTrimGap
      BY <3>2 DEF DeliverTrimGap, Deliver
    <3>3. CASE DeliverRecord
      BY <3>3 DEF DeliverRecord, Deliver
    <3>4. CASE DeliverDataLoss
      BY <3>4 DEF DeliverDataLoss, Deliver
    <3>5. QED
      BY <2>3, <3>1, <3>2, <3>3, <3>4
  <2>5. Cardinality({n \in Shards : Holds(n, l)}) < Replication
    BY <2>4, DataLossSound DEF ReplicatedNeverLost
  <2>6. {n \in Shards : Holds(n, l)'} = {n \in Shards : Holds(n, l)}
    BY <2>2
  <2>7. QED
    BY <2>5, <2>6
<1>3. QED
  BY <1>1, <1>2, Invariance, PTL DEF Spec
=============================================================================
