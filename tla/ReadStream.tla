----------------------------- MODULE ReadStream -----------------------------
(***************************************************************************)
(* A client read stream (ClientReadStream) that reads the LSNs             *)
(* 1..MaxLsn of one epoch from a set of storage shards: the window, the    *)
(* buffer with its records and gap markers, the gap state of each sender,  *)
(* gap detection with its grace period, rewinds, single copy delivery      *)
(* (SCD) with its known-down list and the way to ALL_SEND_ALL and back,    *)
(* redelivery to the application, reconnection; and, on the other side,    *)
(* the server read stream of each shard (CatchupOneStream).                *)
(*                                                                         *)
(* The stream runs on one worker thread.  A handler that calls             *)
(* findGapsAndRecords() sets loop to "run"; the iterations of that loop    *)
(* are actions of their own, and no other handler runs until the loop has  *)
(* ended.                                                                  *)
(***************************************************************************)
EXTENDS Integers, Sequences, FiniteSets, FiniteSetsExt

CONSTANTS
    Shards,        \* the read set
    Replication,   \* the replication factor
    MaxLsn,        \* until_lsn_
    WindowSize,    \* capacity of the buffer
    GraceLimit,    \* grace_counter_limit
    Logs,          \* what the shards may hold: see LogsAssumption
    MaxInFlight    \* bound: messages of a shard on their way to the client

Lsns == 1..MaxLsn

\* copyset: the copyset of the record of each LSN, in the order in which SCD
\* looks at it, << >> if there is no record; lost: copies a shard has lost,
\* and knows that it may have; trim: the trim point each shard learns at some
\* time; partial: where a read may end early; faults: bound on the broken
\* connections, timeouts and refused deliveries.
ASSUME LogsAssumption ==
    \A g \in Logs :
        /\ \A l \in Lsns : Len(g.copyset[l]) \in {0, Replication}
        /\ g.lost \subseteq Shards \X Lsns
        /\ g.trim \in [Shards -> 0..MaxLsn]
        /\ g.partial \subseteq Lsns /\ g.faults \in Nat

ASSUME SizeAssumption ==
    /\ IsFiniteSet(Shards) /\ Replication \in 1..Cardinality(Shards)
    /\ MaxLsn \in Nat \ {0} /\ WindowSize \in Nat \ {0}
    /\ MaxInFlight \in Nat \ {0} /\ GraceLimit \in Nat

VARIABLES
    log,       \* member of Logs
    rs,        \* the read stream, see Init
    srv,       \* per shard: the server read stream
    chan,      \* per shard: messages on their way to the client
    up,        \* per shard: the node can be reached
    trimAt,    \* per shard: its trim point
    given,     \* what the application has been given for each LSN
    faults     \* how many faults are still to come at most

vars == <<log, rs, srv, chan, up, trimAt, given, faults>>

NoStart == [lsn |-> 0, scd |-> FALSE, down |-> {}]
NoShard == "none"

Min0(S) == IF S = {} THEN 0 ELSE Min(S)
Larger(a, b) == IF a > b THEN a ELSE b

-----------------------------------------------------------------------------
(* The window and the buffer.                                              *)

\* calcWindowHigh()
High(r) == IF r.low < MaxLsn - WindowSize + 1 THEN r.low + WindowSize - 1 ELSE MaxLsn

\* calcNextLSNToSlideWindow(), with flow_control_threshold_ of 0.7
SlideAfter(r) == r.low + (7 * (WindowSize - 1)) \div 10

Done(r) == r.next > MaxLsn

\* canDeliverRecordsNow(), canSkipPartiallyTrimmedSection()
HasRecord(r) == r.next \in r.recs
CanSkipTrimmed(r) == r.trim >= r.next

GapSenders(r) == {n \in Shards : r.snd[n].gap = "GAP"}
HeardFrom(r) == {n \in Shards : r.snd[n].gap # "NONE"}

-----------------------------------------------------------------------------
(* Gap state of the senders.                                               *)

WithSender(r, n, s) == [r EXCEPT !.snd = [@ EXCEPT ![n] = s]]

\* Bug: the marker may lie outside of the window.
UpdateGapStateUnbounded(r, n, l) ==
    LET s == r.snd[n]
    IN  IF l < s.next THEN r
        ELSE IF l =< r.next THEN WithSender(r, n, [s EXCEPT !.next = l])
        ELSE [WithSender(r, n, [s EXCEPT !.next = l, !.slot = l,
                    !.gap = IF r.next < s.ur THEN "UNDER" ELSE "GAP"])
                EXCEPT !.marks = @ \cup {l}]

\* Where the gap state of a sender changes next that sends nothing below l.
Transition(r, s, l) == IF r.next < s.ur THEN s.ur ELSE l

\* The state of a sender that has nothing below l, which is ahead of the stream.
Ahead(r, s, l) ==
    [s EXCEPT !.next = l,
              !.gap = IF r.next < s.ur THEN "UNDER" ELSE "GAP",
              !.urDown = @ /\ r.next < s.ur,
              !.slot = IF s.gap = "NONE" /\ Transition(r, s, l) =< High(r)
                       THEN Transition(r, s, l) ELSE @]

\* The shard will send nothing below l: updateGapState().
UpdateGapState(r, n, l) ==
    LET s == r.snd[n]
    IN  IF l < s.next THEN r
        ELSE IF l =< r.next THEN WithSender(r, n, [s EXCEPT !.next = l])
        ELSE [WithSender(r, n, Ahead(r, s, l)) EXCEPT
                !.marks = @ \cup ({Transition(r, s, l)} \cap 1..High(r)),
                !.gapOut = IF l > High(r) /\ (@ = 0 \/ l < @) THEN l ELSE @]

\* The markers up to hi are behind the stream: each sender linked to one of
\* them moves to the marker of its next transition (unlinkRecordState(),
\* for one marker or, from deliverFastForwardGap(), for several).
NextMarker(s, hi) == IF s.next =< hi THEN 0 ELSE IF hi < s.ur THEN s.ur ELSE s.next

Moved(r, s, hi) ==
    [s EXCEPT
        !.gap = IF s.next =< hi THEN "NONE"
                ELSE IF hi < s.ur THEN "UNDER" ELSE "GAP",
        !.urDown = @ /\ (s.next =< hi \/ hi < s.ur),
        !.slot = IF NextMarker(s, hi) =< High(r) THEN NextMarker(s, hi) ELSE 0]

Unlink(r, hi) ==
    LET moved == {n \in Shards : r.snd[n].slot \in 1..hi}
    IN  [r EXCEPT
            !.snd = [n \in Shards |-> IF n \in moved THEN Moved(r, r.snd[n], hi)
                                                     ELSE r.snd[n]],
            !.marks = @ \cup ({NextMarker(r.snd[n], hi) : n \in moved} \cap 1..High(r))]

\* resetGapParametersForSender()
ResetGapParameters(s) ==
    [s EXCEPT !.next = 0, !.gap = "NONE", !.slot = 0, !.ur = 0,
              !.sentRecord = FALSE, !.strikes = 0]

-----------------------------------------------------------------------------
(* Single copy delivery: the known-down list, and what schedules a rewind. *)

ScdActive(r) == r.mode = "SCD"

\* addToShardsDownAndScheduleRewind()
AddToShardsDown(r, n) ==
    IF n \in r.down THEN r
    ELSE [r EXCEPT !.newDown = @ \cup {n}, !.due = @ \/ n \notin r.newDown]

\* scheduleRewindToMode()
ScheduleRewindToMode(r, mode) == [r EXCEPT !.toMode = mode, !.due = TRUE]

\* everyoneSentGapOrIsFilteredOut()
EveryoneSentGapOrIsFilteredOut(r) == HeardFrom(r) \cup r.down = Shards

\* promoteUnderreplicatedShardsToKnownDown()
PromoteUnderReplicated(r) ==
    LET S == {n \in Shards : r.snd[n].gap = "UNDER" /\ ~r.snd[n].urDown}
    IN  [r EXCEPT !.snd = [n \in Shards |-> [r.snd[n] EXCEPT !.urDown = @ \/ n \in S]],
                  !.newDown = @ \cup (S \ r.down),
                  !.due = @ \/ ~(S \subseteq r.down \cup r.newDown)]

\* checkNeedsRewindIfEveryoneSentGapOrIsFilteredOut()
CheckNeedsRewind(r) ==
    IF ~ScdActive(r) \/ Done(r) \/ r.due \/ HasRecord(r) \/ CanSkipTrimmed(r)
          \/ ~EveryoneSentGapOrIsFilteredOut(r)
    THEN r
    ELSE IF \E n \in Shards : r.snd[n].gap = "UNDER" /\ ~r.snd[n].down
         THEN PromoteUnderReplicated(r)
         ELSE ScheduleRewindToMode(r, "ALL")

\* scheduleRewindIfShardBackUp()
RewindIfShardBackUp(r, n) ==
    IF /\ ScdActive(r) /\ n \in r.newDown
       /\ r.snd[n].sentRecord /\ r.snd[n].next # 0 /\ ~r.snd[n].urDown
    THEN [r EXCEPT !.newDown = @ \ {n}, !.due = TRUE]
    ELSE r

\* applyScheduledChanges()
ApplyScheduledChanges(r) ==
    LET changed == r.toMode # "ALL" /\ r.newDown # r.down
        all == changed /\ r.newDown = Shards
        q == IF changed THEN [r EXCEPT !.down = r.newDown] ELSE r
        to == IF all THEN "ALL" ELSE r.toMode
    IN  CASE to = "ALL" -> [q EXCEPT !.mode = "ALL", !.down = {}, !.newDown = {},
                                     !.toMode = "none"]
          [] to = "SCD" -> [q EXCEPT !.mode = "SCD", !.grace = FALSE, !.toMode = "none"]
          [] to = "none" -> q

-----------------------------------------------------------------------------
(* Connections.                                                            *)

\* sendStart()
Starting(r, s) ==
    [ResetGapParameters(s) EXCEPT
        !.next = r.next, !.conn = "CONNECTING", !.high = High(r),
        !.start = [lsn |-> r.next, scd |-> ScdActive(r), down |-> r.down]]

SendStart(r, n) == WithSender(r, n, Starting(r, r.snd[n]))

\* sendWindowMessage()
SendWindow(r, s) ==
    IF ~r.due /\ s.conn = "READING" THEN [s EXCEPT !.high = High(r)] ELSE s

\* onConnectionFailure()
OnConnectionFailure(r, n) ==
    IF ScdActive(r) /\ n \notin r.down
    THEN AddToShardsDown(r, n)
    ELSE WithSender(r, n, [r.snd[n] EXCEPT !.conn = "RECONNECT_PENDING"])

\* Shards that slideSenderWindows() and rewind() know to be of no use to SCD.
KnownDown(r) ==
    {n \in Shards : r.snd[n].conn = "RECONNECT_PENDING" \/ r.snd[n].urDown}

\* rewind()
Rewind(r) ==
    LET cleared == [r EXCEPT
            !.snd = [n \in Shards |->
                        [ResetGapParameters(r.snd[n]) EXCEPT !.current = FALSE]],
            !.recs = {}, !.marks = {}, !.gapOut = 0, !.rewound = TRUE]
        applied == ApplyScheduledChanges(cleared)
        readded == IF r.mode = "ALL" /\ ScdActive(applied)
                   THEN [applied EXCEPT !.newDown = @ \cup KnownDown(r)] ELSE applied
        final == [ApplyScheduledChanges(readded) EXCEPT !.due = FALSE]
    IN  [final EXCEPT !.snd =
            [n \in Shards |->
                Starting(final, [final.snd[n] EXCEPT !.down = n \in final.down])]]

\* Bug: the gap states are kept as they are.
SlideWithoutRebuild(r) ==
    LET moved == [r EXCEPT !.low = r.next, !.gapOut = 0]
    IN  [moved EXCEPT !.snd = [n \in Shards |-> SendWindow(moved, r.snd[n])]]

\* slideSenderWindows(), past its guard: WINDOW messages, then the gap states
\* are built anew.
Rebuilt(r, s) ==
    LET none == [s EXCEPT !.gap = "NONE", !.slot = 0]
    IN  IF s.next =< r.next THEN none ELSE Ahead(r, none, s.next)

SlideSenderWindows(r) ==
    LET moved == [r EXCEPT !.low = r.next, !.gapOut = 0]
        ahead == {n \in Shards : r.snd[n].next > r.next}
        rebuilt == [moved EXCEPT
            !.snd = [n \in Shards |-> Rebuilt(moved, SendWindow(moved, r.snd[n]))],
            !.marks = @ \cup ({Transition(r, r.snd[n], r.snd[n].next) : n \in ahead}
                                \cap 1..High(moved)),
            !.gapOut = Min0({r.snd[n].next : n \in ahead} \ 1..High(moved))]
    IN  IF ~ScdActive(r) /\ KnownDown(r) # Shards
        THEN ScheduleRewindToMode(rebuilt, "SCD") ELSE rebuilt

-----------------------------------------------------------------------------
(* Gap detection.                                                          *)

\* FailureDomainNodeSet::isFmajority() at node scope, all shards authoritative
IsFmajority(S) ==
    IF S = Shards THEN "COMPLETE"
    ELSE IF Cardinality(S) > Cardinality(Shards) - Replication THEN "INCOMPLETE"
    ELSE "NONE"

\* checkFMajority() and shouldWaitForGracePeriod()
CheckFMajority(r) ==
    LET complete == IsFmajority(HeardFrom(r)) = "COMPLETE"
        result == IsFmajority(GapSenders(r))
    IN  IF r.due \/ ScdActive(r) \/ (result = "NONE" /\ ~complete) THEN "WAIT"
        ELSE IF /\ result = "INCOMPLETE" /\ ~complete
                /\ ~r.expired /\ ~CanSkipTrimmed(r)
                /\ \E n \in Shards \ HeardFrom(r) : r.snd[n].strikes =< GraceLimit
             THEN "WAIT_FOR_GRACE_PERIOD"
             ELSE "ISSUE_GAP"

\* Where the gap ends (exclusive) that detectGap() would issue, 0 if unknown
GapEnd(r) == IF r.recs \cup r.marks # {} THEN Min(r.recs \cup r.marks) ELSE r.gapOut

-----------------------------------------------------------------------------
(* Initial state: start() has sent START to every shard, in SCD mode.      *)

NewSender ==
    [conn |-> "CONNECTING", start |-> NoStart, high |-> 0, next |-> 0,
     gap |-> "NONE", slot |-> 0, ur |-> 0, current |-> FALSE,
     sentRecord |-> FALSE, strikes |-> 0, down |-> FALSE, urDown |-> FALSE]

NewStream ==
    [next |-> 1, low |-> 1, recs |-> {}, marks |-> {}, gapOut |-> 0, trim |-> 0,
     snd |-> [n \in Shards |-> NewSender],
     mode |-> "SCD", down |-> {}, newDown |-> {}, toMode |-> "none", due |-> FALSE,
     rewound |-> FALSE, retried |-> 0, grace |-> FALSE, redeliver |-> FALSE,
     loop |-> "idle", expired |-> FALSE, redelivering |-> FALSE, from |-> NoShard]

NoServerStream == [on |-> FALSE, current |-> FALSE, last |-> 0,
                   scd |-> FALSE, down |-> {}]

Init ==
    /\ log \in Logs
    /\ rs = [NewStream EXCEPT !.snd = [n \in Shards |-> Starting(NewStream, @[n])]]
    /\ srv = [n \in Shards |-> NoServerStream]
    /\ chan = [n \in Shards |-> << >>]
    /\ up = [n \in Shards |-> TRUE]
    /\ trimAt = [n \in Shards |-> 0]
    /\ given = [l \in Lsns |-> "nothing"]
    /\ faults = log.faults

-----------------------------------------------------------------------------
(* The servers.  A shard sends the records it ships in the order of their  *)
(* LSNs; a gap message tells how far it has looked in vain.                *)

Holds(n, l) ==
    /\ \E i \in 1..Len(log.copyset[l]) : log.copyset[l][i] = n
    /\ <<n, l>> \notin log.lost

\* LocalLogStoreReadFilter: in SCD the first shard of the copyset that is not
\* down ships the record; a shard does not count itself as down.
Ships(n, l) ==
    LET c == log.copyset[l]
        willing == {i \in 1..Len(c) : c[i] = n \/ c[i] \notin srv[n].down}
    IN  Holds(n, l) /\ (srv[n].scd => c[Min(willing)] = n)

\* START_onReceived() and sendStarted().  A START of the version that the
\* stream has already changes nothing.
ServerStart(n) ==
    LET s == rs.snd[n].start
    IN  /\ up[n] /\ s # NoStart /\ Len(chan[n]) < MaxInFlight
        /\ rs.loop = "idle" /\ ~Done(rs)
        /\ rs' = WithSender(rs, n, [rs.snd[n] EXCEPT !.start = NoStart])
        /\ IF srv[n].on /\ srv[n].current THEN UNCHANGED <<srv, chan>>
           ELSE /\ srv' = [srv EXCEPT ![n] =
                              [on |-> TRUE, current |-> TRUE, last |-> s.lsn - 1,
                               scd |-> s.scd, down |-> s.down]]
                /\ chan' = [chan EXCEPT ![n] =
                              Append(@, [type |-> "STARTED", current |-> TRUE])]
        /\ UNCHANGED <<log, up, trimAt, given, faults>>

\* CatchupOneStream: the next message of the stream.  A read may end before
\* the next record (E::PARTIAL); at the end of the window the gap reaches up
\* to the next record, which may lie behind the window.
ServerSend(n) ==
    LET last == srv[n].last
        next == Min0({l \in last + 1..MaxLsn : Ships(n, l)})
        before == IF next = 0 THEN MaxLsn ELSE next - 1
        Under(l) == \E k \in last + 1..l : <<n, k>> \in log.lost
        Send(m, l) == /\ chan' = [chan EXCEPT ![n] = Append(@, m)]
                      /\ srv' = [srv EXCEPT ![n].last = l]
    IN  /\ up[n] /\ srv[n].on /\ Len(chan[n]) < MaxInFlight
        /\ rs.loop = "idle" /\ ~Done(rs)
        /\ last < rs.snd[n].high
        /\ IF last < trimAt[n]
           THEN Send([type |-> "GAP", lsn |-> trimAt[n], reason |-> "TRIM"], trimAt[n])
           ELSE \/ /\ next # 0 /\ next =< rs.snd[n].high
                   /\ Send([type |-> "RECORD", lsn |-> next, under |-> Under(next)], next)
                \/ \E l \in {k \in last + 1..before : k = before \/ k \in log.partial} :
                     Send([type |-> "GAP", lsn |-> l,
                           reason |-> IF Under(l) THEN "UNDER" ELSE "NO_RECORDS"], l)
        /\ UNCHANGED <<log, rs, up, trimAt, given, faults>>

\* The shard learns a new trim point.
Trim(n) ==
    /\ trimAt[n] < log.trim[n]
    /\ rs.loop = "idle" /\ ~Done(rs)
    /\ trimAt' = [trimAt EXCEPT ![n] = log.trim[n]]
    /\ UNCHANGED <<log, rs, srv, chan, up, given, faults>>

-----------------------------------------------------------------------------
(* Messages from the shards.                                               *)

RunLoop(r, expired, redelivering, from) ==
    [r EXCEPT !.loop = "run", !.expired = expired,
              !.redelivering = redelivering, !.from = from]

\* Bug: the version is not looked at.
AcceptsAnyVersion(r, n) == TRUE

\* Data of another filter version than the last is dropped.
Accepts(r, n) == ~r.rewound \/ r.snd[n].current

\* Bug: the version that the shard has answered is not noted.
OnStartedNoVersion(r, n, m) ==
    IF ~m.current \/ r.snd[n].conn = "READING" THEN r
    ELSE WithSender(r, n, SendWindow(r, [r.snd[n] EXCEPT !.conn = "READING"]))

\* onStarted(), with status OK
OnStarted(r, n, m) ==
    IF ~m.current \/ r.snd[n].conn = "READING" THEN r
    ELSE WithSender(r, n, SendWindow(r, [r.snd[n] EXCEPT !.current = TRUE,
                                                         !.conn = "READING"]))

\* onDataRecord()
OnDataRecord(r, n, m) ==
    LET noted == WithSender(r, n, [r.snd[n] EXCEPT
            !.sentRecord = TRUE, !.strikes = 0,
            !.ur = IF m.under THEN Larger(@, m.lsn + 1) ELSE @])
        buffered == [noted EXCEPT !.recs = @ \cup {m.lsn}]
    IN  IF m.lsn > High(r) \/ ~Accepts(r, n) \/ m.lsn < r.snd[n].next THEN r
        ELSE IF m.lsn < r.next
             THEN RewindIfShardBackUp(UpdateGapState(noted, n, m.lsn + 1), n)
             ELSE RunLoop(UpdateGapState(buffered, n, m.lsn + 1), FALSE, FALSE, n)

\* onGap()
OnGap(r, n, m) ==
    LET heard == WithSender(r, n, [r.snd[n] EXCEPT !.strikes = 0])
        noted == [WithSender(r, n, [r.snd[n] EXCEPT !.strikes = 0,
                    !.ur = IF m.reason = "UNDER" THEN Larger(@, m.lsn + 1) ELSE @])
                  EXCEPT !.trim = IF m.reason = "TRIM" THEN Larger(@, m.lsn) ELSE @]
    IN  IF ~Accepts(r, n) THEN heard
        ELSE RunLoop(UpdateGapState(noted, n, m.lsn + 1), FALSE, FALSE, NoShard)

Receive(n) ==
    /\ rs.loop = "idle" /\ ~Done(rs) /\ chan[n] # << >>
    /\ LET m == Head(chan[n])
       IN  rs' = CASE m.type = "STARTED" -> OnStarted(rs, n, m)
                   [] m.type = "RECORD" -> OnDataRecord(rs, n, m)
                   [] m.type = "GAP" -> OnGap(rs, n, m)
    /\ chan' = [chan EXCEPT ![n] = Tail(@)]
    /\ UNCHANGED <<log, srv, up, trimAt, given, faults>>

-----------------------------------------------------------------------------
(* The loop of findGapsAndRecords(), one action per iteration.             *)

\* No progress is tried outside of the window, or before a redelivery.
Blocked == rs.next > High(rs) \/ rs.redeliver

SkipTrimmed == CanSkipTrimmed(rs) /\ (~rs.redelivering \/ ~HasRecord(rs))

\* STARTEDs on their way, and server read streams, are of an old version now.
Outdated ==
    /\ chan' = [n \in Shards |-> [i \in 1..Len(chan[n]) |->
                  IF chan[n][i].type = "STARTED"
                  THEN [chan[n][i] EXCEPT !.current = FALSE] ELSE chan[n][i]]]
    /\ srv' = [n \in Shards |-> [srv[n] EXCEPT !.current = FALSE]]

\* The application takes what it is given for the LSNs up to hi, and the loop
\* goes on with r; or it refuses, which leaves q and the redelivery timer.
Deliver(what, hi, r, q) ==
    \/ /\ given' = [l \in Lsns |-> IF l \in rs.next..hi THEN what ELSE given[l]]
       /\ rs' = [r EXCEPT !.next = hi + 1, !.grace = FALSE, !.redelivering = FALSE]
       /\ UNCHANGED faults
    \/ /\ faults > 0 /\ faults' = faults - 1
       /\ rs' = [q EXCEPT !.redeliver = TRUE]
       /\ UNCHANGED given

Running == rs.loop = "run" /\ ~Done(rs)

\* deliverFastForwardGap()
DeliverTrimGap ==
    /\ Running /\ ~Blocked /\ SkipTrimmed
    /\ Deliver("trimmed", rs.trim,
               [Unlink(rs, rs.trim) EXCEPT !.recs = @ \ 1..rs.trim,
                                           !.marks = @ \ 1..rs.trim],
               rs)
    /\ UNCHANGED <<log, srv, chan, up, trimAt>>

\* handleRecord() and deliverRecord()
DeliverRecord ==
    /\ Running /\ ~Blocked /\ ~SkipTrimmed /\ HasRecord(rs)
    /\ Deliver("record", rs.next,
               [Unlink(rs, rs.next) EXCEPT !.recs = @ \ {rs.next},
                                           !.marks = @ \ {rs.next}],
               Unlink(rs, rs.next))
    /\ UNCHANGED <<log, srv, chan, up, trimAt>>

\* A gap marker in the front slot: clearRecordState().
ClearMarker ==
    /\ Running /\ ~Blocked /\ ~SkipTrimmed /\ ~HasRecord(rs)
    /\ rs.next \in rs.marks
    /\ rs' = [Unlink(rs, rs.next) EXCEPT
                !.marks = @ \ {rs.next}, !.grace = FALSE, !.redelivering = FALSE]
    /\ UNCHANGED <<log, srv, chan, up, trimAt, given, faults>>

\* The buffer has nothing for the next LSN.
AtHole == ~Blocked /\ ~SkipTrimmed /\ rs.next \notin rs.recs \cup rs.marks

IssueGap == CheckFMajority(rs) = "ISSUE_GAP" /\ GapEnd(rs) # 0

\* detectGap() and handleGap(): the first gap from an LSN rewinds the stream.
RewindOnDataLoss ==
    /\ Running /\ AtHole /\ IssueGap /\ rs.retried # rs.next
    /\ rs' = [Rewind([rs EXCEPT !.retried = rs.next]) EXCEPT
                !.grace = FALSE, !.redelivering = FALSE]
    /\ Outdated
    /\ UNCHANGED <<log, up, trimAt, given, faults>>

DeliverDataLoss ==
    /\ Running /\ AtHole /\ IssueGap /\ rs.retried = rs.next
    /\ Deliver("lost", GapEnd(rs) - 1, rs, [rs EXCEPT !.grace = FALSE])
    /\ UNCHANGED <<log, srv, chan, up, trimAt>>

\* End of the handler, disposeIfDone() aside.
EndLoop(r) ==
    LET checked == CheckNeedsRewind(r)
        back == IF r.from # NoShard THEN RewindIfShardBackUp(checked, r.from)
                ELSE checked
    IN  [back EXCEPT !.loop = "idle", !.expired = FALSE,
                     !.redelivering = FALSE, !.from = NoShard]

\* No progress: slide the window and go on, or leave.
NoProgress ==
    LET decision == CheckFMajority(rs)
        grace == decision = "WAIT_FOR_GRACE_PERIOD" /\ (rs.grace \/ GapEnd(rs) # 0)
        r == IF AtHole THEN [rs EXCEPT !.grace = grace] ELSE rs
    IN  /\ Running
        /\ Blocked \/ (AtHole /\ ~IssueGap)
        /\ rs' = IF r.next > SlideAfter(r) /\ MaxLsn > High(r)
                 THEN SlideSenderWindows(r) ELSE EndLoop(r)
        /\ UNCHANGED <<log, srv, chan, up, trimAt, given, faults>>

-----------------------------------------------------------------------------
(* Timers and connections.                                                 *)

Idle == rs.loop = "idle" /\ ~Done(rs)
Fault == faults > 0 /\ faults' = faults - 1

\* The callback of grace_period_, with updateGraceCounters()
GracePeriodExpired ==
    /\ Idle /\ rs.grace
    /\ LET Strike(s) == IF s.gap = "NONE" /\ s.strikes =< GraceLimit
                        THEN [s EXCEPT !.strikes = @ + 1] ELSE s
       IN  rs' = RunLoop([rs EXCEPT !.grace = FALSE,
                            !.snd = [n \in Shards |-> Strike(rs.snd[n])]],
                         TRUE, FALSE, NoShard)
    /\ UNCHANGED <<log, srv, chan, up, trimAt, given, faults>>

\* redeliver()
Redeliver ==
    /\ Idle /\ rs.redeliver
    /\ rs' = RunLoop([rs EXCEPT !.redeliver = FALSE], FALSE, TRUE, NoShard)
    /\ UNCHANGED <<log, srv, chan, up, trimAt, given, faults>>

\* RewindScheduler::rewind()
ScheduledRewind ==
    /\ Idle /\ rs.due
    /\ rs' = Rewind(rs)
    /\ Outdated
    /\ UNCHANGED <<log, up, trimAt, given, faults>>

\* reconnectTimerCallback(): sendStart() and applyShardStatus()
Reconnect(n) ==
    /\ Idle /\ up[n] /\ rs.snd[n].conn = "RECONNECT_PENDING"
    /\ rs' = RunLoop(SendStart(rs, n), FALSE, FALSE, NoShard)
    /\ UNCHANGED <<log, srv, chan, up, trimAt, given, faults>>

\* startedTimerCallback()
StartedTimeout(n) ==
    /\ Idle /\ rs.snd[n].conn = "CONNECTING" /\ rs.snd[n].start = NoStart /\ Fault
    /\ rs' = RunLoop(SendStart(rs, n), FALSE, FALSE, NoShard)
    /\ UNCHANGED <<log, srv, chan, up, trimAt, given>>

\* START cannot be sent: sendStart() or onStartSent() with an error
StartFails(n) ==
    /\ Idle /\ ~up[n] /\ rs.snd[n].conn = "CONNECTING"
    /\ rs' = OnConnectionFailure(
                WithSender(rs, n, [rs.snd[n] EXCEPT !.start = NoStart]), n)
    /\ UNCHANGED <<log, srv, chan, up, trimAt, given, faults>>

\* The node goes away, and the SocketClosedCallback is called.
Disconnect(n) ==
    /\ Idle /\ up[n] /\ Fault
    /\ up' = [up EXCEPT ![n] = FALSE]
    /\ srv' = [srv EXCEPT ![n] = NoServerStream]
    /\ chan' = [chan EXCEPT ![n] = << >>]
    /\ LET lost == WithSender(rs, n, [rs.snd[n] EXCEPT !.current = FALSE,
                                                       !.start = NoStart])
       IN  rs' = IF rs.snd[n].conn = "RECONNECT_PENDING" THEN rs
                 ELSE OnConnectionFailure(lost, n)
    /\ UNCHANGED <<log, trimAt, given>>

ComeBack(n) ==
    /\ Idle /\ ~up[n]
    /\ up' = [up EXCEPT ![n] = TRUE]
    /\ UNCHANGED <<log, rs, srv, chan, trimAt, given, faults>>

\* FailoverTimer::callback(): shards not in the list that have sent nothing
\* for the next LSN
Silent == {n \in Shards : ~rs.snd[n].down /\ rs.snd[n].next =< rs.next}

\* shardsDownFailoverTimerCallback()
ShardsDownTimeout ==
    /\ Idle /\ ScdActive(rs) /\ rs.toMode # "ALL" /\ ~HasRecord(rs) /\ Fault
    /\ Silent # {}
    /\ Cardinality(rs.down) + Cardinality(Silent) < Cardinality(Shards)
    /\ rs' = [rs EXCEPT !.newDown = @ \cup Silent, !.due = TRUE]
    /\ UNCHANGED <<log, srv, chan, up, trimAt, given>>

\* allSendAllFailoverTimerCallback()
AllSendAllTimeout ==
    /\ Idle /\ ScdActive(rs) /\ rs.toMode # "ALL" /\ ~HasRecord(rs) /\ Fault
    /\ \/ Silent = {}
       \/ Cardinality(rs.down) + Cardinality(Silent) = Cardinality(Shards)
    /\ rs' = ScheduleRewindToMode(rs, "ALL")
    /\ UNCHANGED <<log, srv, chan, up, trimAt, given>>

-----------------------------------------------------------------------------

LoopStep ==
    \/ DeliverTrimGap \/ DeliverRecord \/ ClearMarker
    \/ RewindOnDataLoss \/ DeliverDataLoss \/ NoProgress

Next ==
    \/ \E n \in Shards :
        \/ ServerStart(n) \/ ServerSend(n) \/ Trim(n) \/ Receive(n)
        \/ Reconnect(n) \/ StartedTimeout(n) \/ StartFails(n)
        \/ Disconnect(n) \/ ComeBack(n)
    \/ LoopStep
    \/ GracePeriodExpired \/ Redeliver \/ ScheduledRewind
    \/ ShardsDownTimeout \/ AllSendAllTimeout

Spec == Init /\ [][Next]_vars

\* Something is under way that does not depend on a node that is down.
Pending ==
    /\ ~Done(rs)
    /\ \/ rs.loop = "run" \/ rs.grace \/ rs.redeliver \/ rs.due
       \/ \E n \in Shards : LET s == rs.snd[n] IN
            \/ chan[n] # << >>
            \/ IF up[n] THEN \/ s.start # NoStart \/ s.conn = "RECONNECT_PENDING"
                             \/ srv[n].on /\ srv[n].last < s.high
                        ELSE s.conn = "CONNECTING"

\* What is under way goes on.  Faults, trim points and nodes that come back are
\* finitely many, and none of them is assumed to happen.
FairSpec == Spec /\ ([]<>(~Pending) \/ []<><<TRUE>>_vars)

-----------------------------------------------------------------------------
(* Properties.                                                             *)

\* The buffer of the stream lies in its window, and each sender is linked to a
\* marker of it or to none.
TypeOK ==
    /\ rs.next \in 1..MaxLsn + 1 /\ rs.low =< rs.next
    /\ rs.recs \cup rs.marks \subseteq rs.next..High(rs)
    /\ rs.down \subseteq Shards /\ rs.newDown \subseteq Shards
    /\ rs.mode \in {"SCD", "ALL"} /\ rs.toMode \in {"SCD", "ALL", "none"}
    /\ \A n \in Shards :
        /\ rs.snd[n].conn \in {"CONNECTING", "READING", "RECONNECT_PENDING"}
        /\ rs.snd[n].gap \in {"NONE", "GAP", "UNDER"}
        /\ rs.snd[n].slot \in {0} \cup rs.marks

\* A record that has all its copies is never passed over with a DATALOSS gap,
\* whatever rewinds, reconnections and changes between SCD and ALL_SEND_ALL
\* have happened: detectGap() and the filter versions.
ReplicatedNeverLost ==
    \A l \in Lsns : given[l] = "lost" =>
        Cardinality({n \in Shards : Holds(n, l)}) < Replication

\* Between two handlers the gap state of a sender, which is maintained
\* incrementally (updateGapState(), unlinkRecordState(), slideSenderWindows(),
\* rewind()), is what its definition says.  The exception: a sender may still
\* be linked to the front of the buffer if the application has refused the
\* TRIM gap that is to be delivered from there, since deliverFastForwardGap()
\* returns before it clears the markers.
GapStateExact ==
    Idle => \A n \in Shards : LET s == rs.snd[n] IN
        IF s.slot = rs.next THEN rs.redeliver /\ CanSkipTrimmed(rs)
        ELSE /\ (s.gap # "NONE") <=> (s.next > rs.next)
             /\ (s.gap = "UNDER") <=> (s.next > rs.next /\ s.ur > rs.next)
             /\ s.gap = "NONE" => s.slot = 0

\* The stream reaches until_lsn_, and does not rewind forever.  A node that
\* stays away does not hold it up, unless other shards may have lost copies.
ReachesUntilLsn ==
    (log.lost = {} \/ []<>(\A n \in Shards : up[n])) => <>Done(rs)
=============================================================================
