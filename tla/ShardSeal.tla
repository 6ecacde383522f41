------------------------------ MODULE ShardSeal ------------------------------
(***************************************************************************)
(* STORE and SEAL on one storage shard, for one log.                       *)
(*                                                                         *)
(* A STORE goes through a worker thread (StoreStateMachine), which may     *)
(* have to recover the seals and to soft-seal the log, and then through a  *)
(* storage thread (WriteBatchStorageTask), which checks the seals again,   *)
(* writes and caches the record.  A SEAL is a task on another storage      *)
(* thread (SealStorageTask): it writes the seal, publishes it in memory,   *)
(* looks for a higher soft seal, takes stock of the epochs, from the       *)
(* record cache if it can, and answers after a sync.  No lock excludes the *)
(* two.  The local log store is a write-ahead log: a crash loses any part  *)
(* of it that was not synced.                                              *)
(***************************************************************************)
EXTENDS Integers, Sequences, FiniteSets, FiniteSetsExt

CONSTANTS
    Stores,     \* STORE messages
    Mixes,      \* what they may be: epoch, recovery epoch (0: an append), drain
    Seals,      \* SEAL messages
    SealOf,     \* SealOf[y]: epoch to seal, last clean epoch
    MaxFaults   \* bound: crashes and failing disks

ASSUME ShardSealAssumption ==
    /\ IsFiniteSet(Stores) /\ IsFiniteSet(Seals)
    /\ \A m \in Mixes, x \in Stores : m[x].epoch \in Nat \ {0}
    /\ \A y \in Seals : SealOf[y].epoch \in Nat \ {0} /\ SealOf[y].clean \in Nat
    /\ MaxFaults \in Nat

VARIABLES
    durable,    \* what the local log store has synced: seals and records
    wal,        \* the writes after that, in order
    failSafe,   \* the local log store refuses writes
    normal,     \* in-memory normal seal, -1 when it is not known
    soft,       \* in-memory soft seal, -1 when it is not known
    cache,      \* stores in the record cache
    head,       \* first epoch in the record cache, 0 when it is empty
    auth,       \* last nonauthoritative epoch, -1 when it is not known
    msg,        \* msg[x]: the header of STORE x
    store,      \* store[x]: where STORE x is
    task,       \* task[y]: where SEAL y is
    acked,      \* stores answered OK whose record is still there
    faults,     \* number of faults so far
    sealedAt    \* sealedAt[x]: highest epoch sealed when STORE x arrived

history == <<msg, sealedAt>>
memory == <<normal, soft, cache, head, auth>>
vars == <<durable, wal, failSafe, memory, store, task, acked, faults, history>>

\* The local log store d after the first n writes of w.
Replay(d, w, n) ==
    LET Of(kind) == {w[i].value : i \in {j \in 1..n : w[j].kind = kind}}
    IN  [normal |-> Max({d.normal} \cup Of("normal")),
         soft |-> Max({d.soft} \cup Of("soft")),
         records |-> d.records \cup Of("record")]

Applied(n) == Replay(durable, wal, n)
Disk == Applied(Len(wal))

\* A seal metadata update; a value that is not higher is UPTODATE.
Update(kind, e) ==
    IF e > Disk[kind] THEN Append(wal, [kind |-> kind, value |-> e]) ELSE wal

At(st) == [st |-> st]
Done(status) == [st |-> "done", status |-> status]

\* SEALs answered OK; no epoch is sealed in the beginning.
Answered == {y \in Seals : task[y].st = "done" /\ task[y].status = "OK"}

SealedUpTo == Max({0} \cup {SealOf[y].epoch : y \in Answered})

\* The last epoch in which an append has been acknowledged.
IsAppend(x) == msg[x].recovery = 0

LastAcked == Max({0} \cup {msg[x].epoch : x \in {z \in acked : IsAppend(z)}})

Init ==
    /\ msg \in Mixes
    /\ durable = [normal |-> 0, soft |-> 0, records |-> {}]
    /\ wal = <<>>
    /\ failSafe = FALSE
    /\ normal = -1
    /\ soft = -1
    /\ cache = {}
    /\ head = 0
    /\ auth = -1
    /\ store = [x \in Stores |-> At("new")]
    /\ task = [y \in Seals |-> At("new")]
    /\ acked = {}
    /\ faults = 0
    /\ sealedAt = [x \in Stores |-> 0]

\* updateLastNonAuthoritativeEpoch() with the given soft seal: an epoch
\* after the next one has never been stored before.
Authoritative(s) == IF auth = -1 /\ s # -1 THEN s + 1 ELSE auth
-----------------------------------------------------------------------------
(* STORE.                                                                  *)

\* STORE_Message::checkIfPreempted().
Preempted(x, n, s) ==
    LET m == msg[x]
        By(seal) == IF m.recovery # 0 THEN m.recovery < seal ELSE m.epoch =< seal
    IN  By(n) \/ (~m.drain /\ By(s))

\* Bug: off by one.
NeedsSoftSealLate(x, s) == msg[x].epoch > s + 2

NeedsSoftSeal(x, s) == msg[x].epoch > s + 1

\* StoreStateMachine::onSealRecovered() with seals n and s.
FirstCheck(x, n, s) ==
    IF Preempted(x, n, s) THEN Done("PREEMPTED")
    ELSE At(IF NeedsSoftSeal(x, s) THEN "soft" ELSE "queued")

\* The STORE arrives.  The seals are recovered if one is not known.
Arrive(x) ==
    /\ store[x].st = "new"
    /\ sealedAt' = [sealedAt EXCEPT ![x] = SealedUpTo]
    /\ store' = [store EXCEPT ![x] =
            CASE failSafe -> Done("DISABLED")
              [] ~failSafe /\ (normal = -1 \/ soft = -1) -> At("recover")
              [] OTHER -> FirstCheck(x, normal, soft)]
    /\ UNCHANGED <<durable, wal, failSafe, memory, task, acked, faults, msg>>

\* RecoverSealTask reads the seals,
ReadSeals(x) ==
    /\ store[x].st = "recover"
    /\ store' = [store EXCEPT ![x] = [st |-> "recovered", normal |-> Disk.normal,
                                      soft |-> Disk.soft]]
    /\ UNCHANGED <<durable, wal, failSafe, memory, task, acked, faults, history>>

\* and its callback goes on with them, or with higher ones found meanwhile.
SealsRecovered(x) ==
    LET n == Max({normal, store[x].normal})
        s == Max({soft, store[x].soft})
    IN  /\ store[x].st = "recovered"
        /\ auth' = Authoritative(soft)
        /\ normal' = n
        /\ soft' = s
        /\ store' = [store EXCEPT ![x] = FirstCheck(x, n, s)]
        /\ UNCHANGED <<durable, wal, failSafe, cache, head, task, acked, faults,
                       history>>

\* Bug: the soft seal is kept in memory only.
SoftSealInMemory(x) ==
    /\ store[x].st = "soft"
    /\ store' = [store EXCEPT ![x] = At("softened")]
    /\ UNCHANGED <<durable, wal, failSafe, memory, task, acked, faults, history>>

\* SoftSealStorageTask writes the soft seal, without a sync; a failure is
\* left to the store that follows.
WriteSoftSeal(x) ==
    /\ store[x].st = "soft"
    /\ IF failSafe
       THEN /\ store' = [store EXCEPT ![x] = At("queued")]
            /\ UNCHANGED wal
       ELSE /\ store' = [store EXCEPT ![x] = At("softened")]
            /\ wal' = Update("soft", msg[x].epoch - 1)
    /\ UNCHANGED <<durable, failSafe, memory, task, acked, faults, history>>

SoftSealed(x) ==
    LET s == Max({soft, msg[x].epoch - 1})
    IN  /\ store[x].st = "softened"
        /\ soft' = s
        /\ auth' = Authoritative(s)
        /\ store' = [store EXCEPT ![x] = At("queued")]
        /\ UNCHANGED <<durable, wal, failSafe, normal, cache, head, task, acked,
                       faults, history>>

\* A storage task is dropped under load, or a store times out in the queue.
Dropped(x) ==
    /\ store[x].st \in {"recover", "soft", "queued"}
    /\ store' = [store EXCEPT ![x] = At("new")]
    /\ UNCHANGED <<durable, wal, failSafe, memory, task, acked, faults, history>>

\* Bug: the check of the worker thread is taken to be enough.
NoSecondCheck(x) == FALSE

\* StoreStorageTask::isPreempted().
IsPreempted(x) == Preempted(x, normal, soft)

\* WriteBatchStorageTask: the check,
Admit(x) ==
    /\ store[x].st = "queued"
    /\ store' = [store EXCEPT ![x] =
                    IF IsPreempted(x) THEN Done("PREEMPTED") ELSE At("admitted")]
    /\ UNCHANGED <<durable, wal, failSafe, memory, task, acked, faults, history>>

\* the write,
Write(x) ==
    /\ store[x].st = "admitted"
    /\ IF failSafe
       THEN /\ store' = [store EXCEPT ![x] = Done("DISABLED")]
            /\ UNCHANGED wal
       ELSE /\ store' = [store EXCEPT ![x] = At("written")]
            /\ wal' = Append(wal, [kind |-> "record", value |-> x])
    /\ UNCHANGED <<durable, failSafe, memory, task, acked, faults, history>>

\* putCache() and STORED.  An epoch before the first cached one is not cached.
PutCache(x) ==
    LET e == msg[x].epoch
    IN  /\ store[x].st = "written"
        /\ store' = [store EXCEPT ![x] = Done("OK")]
        /\ acked' = acked \cup {x}
        /\ cache' = IF e >= head THEN cache \cup {x} ELSE cache
        /\ head' = IF head = 0 THEN e ELSE head
        /\ auth' = IF head = 0 THEN Authoritative(soft) ELSE auth
        /\ UNCHANGED <<durable, wal, failSafe, normal, soft, task, faults, history>>
-----------------------------------------------------------------------------
(* SEAL.                                                                   *)

\* SEAL_onReceived() and executeImpl(): a higher seal in memory preempts at
\* once; then recoverSoftSeals(),
ReceiveSeal(y) ==
    /\ task[y].st = "new"
    /\ IF normal > SealOf[y].epoch
       THEN /\ task' = [task EXCEPT ![y] = Done("PREEMPTED")]
            /\ UNCHANGED <<soft, auth>>
       ELSE /\ task' = [task EXCEPT ![y] = [st |-> "started", ahead |-> LastAcked]]
            /\ soft' = IF soft = -1 THEN Disk.soft ELSE soft
            /\ auth' = Authoritative(soft')
    /\ UNCHANGED <<durable, wal, failSafe, normal, cache, head, store, acked,
                   faults, history>>

\* updateLogMetadata(): only a write asks for a sync,
WriteSeal(y) ==
    LET e == SealOf[y].epoch
        old == Disk.normal
    IN  /\ task[y].st = "started"
        /\ task' = [task EXCEPT ![y] =
                IF failSafe THEN Done("FAILED")
                ELSE [st |-> "stored", ahead |-> @.ahead, sync |-> e > old,
                      seal |-> Max({e, old})]]
        /\ wal' = IF failSafe THEN wal ELSE Update("normal", e)
        /\ UNCHANGED <<durable, failSafe, memory, store, acked, faults, history>>

\* updateSeal(),
PublishSeal(y) ==
    LET n == Max({normal, task[y].seal})
    IN  /\ task[y].st = "stored"
        /\ normal' = n
        /\ task' = [task EXCEPT ![y].st = "sealed", ![y].seal = n]
        /\ UNCHANGED <<durable, wal, failSafe, soft, cache, head, auth, store,
                       acked, faults, history>>

\* Bug: soft seals do not preempt.
NoSoftSeals(y) == task[y].seal > SealOf[y].epoch

\* A higher normal seal, or a higher soft seal, was found.
IsOutdated(y) == task[y].seal > SealOf[y].epoch \/ soft > task[y].seal

\* getEpochRecordCache(): every unclean epoch up to the seal is in the cache
\* and complete, or known to be empty.
CacheHit(y) ==
    /\ auth # -1
    /\ \A e \in (SealOf[y].clean + 1)..SealOf[y].epoch : e >= head /\ e > auth

InRange(x, y) ==
    /\ msg[x].epoch > SealOf[y].clean
    /\ msg[x].epoch =< SealOf[y].epoch

\* Stores past the second check that have not been answered.
InFlight == {x \in Stores : store[x].st \in {"admitted", "written"}}

\* checkSoftSeals() and getEpochInfo(), from the cache or from the store.
TakeStock(y) ==
    LET Info(S) == [st |-> "stocked", ahead |-> task[y].ahead,
                    sync |-> task[y].sync,
                    info |-> {x \in S : InRange(x, y)},
                    late |-> {x \in InFlight \ S : InRange(x, y)}]
    IN  /\ task[y].st = "sealed"
        /\ \/ /\ IsOutdated(y)
              /\ task' = [task EXCEPT ![y] =
                    [st |-> "preempted", sync |-> task[y].sync]]
           \/ /\ ~IsOutdated(y)
              /\ task' = [task EXCEPT ![y] = Info(Disk.records)]
           \/ /\ ~IsOutdated(y)
              /\ CacheHit(y)
              /\ task' = [task EXCEPT ![y] = Info(cache)]
        /\ UNCHANGED <<durable, wal, failSafe, memory, store, acked, faults,
                       history>>

\* Bug: SEALED is sent before the seal is durable.
NeverSync(y) == FALSE

\* The write-ahead log is synced if the task has written.
NeedsSync(y) == task[y].sync

\* SEALED.
AnswerSeal(y) ==
    /\ task[y].st \in {"stocked", "preempted"}
    /\ durable' = IF NeedsSync(y) THEN Disk ELSE durable
    /\ wal' = IF NeedsSync(y) THEN <<>> ELSE wal
    /\ task' = [task EXCEPT ![y] =
            IF @.st = "preempted" THEN Done("PREEMPTED")
            ELSE [st |-> "done", status |-> "OK", ahead |-> @.ahead,
                  info |-> @.info, late |-> @.late]]
    /\ UNCHANGED <<failSafe, memory, store, acked, faults, history>>
-----------------------------------------------------------------------------
(* Faults.                                                                 *)

Fault == faults < MaxFaults /\ faults' = faults + 1

\* A write fails: the local log store accepts no more writes.
EnterFailSafe ==
    /\ Fault
    /\ ~failSafe
    /\ failSafe' = TRUE
    /\ UNCHANGED <<durable, wal, memory, store, task, acked, history>>

\* The node restarts with the first `kept' writes, which opening the store
\* makes durable.  What was not answered is sent again.
Crash(kept) ==
    /\ Fault
    /\ durable' = Applied(kept)
    /\ wal' = <<>>
    /\ failSafe' = FALSE
    /\ normal' = -1
    /\ soft' = -1
    /\ cache' = {}
    /\ head' = 0
    /\ auth' = -1
    /\ store' = [x \in Stores |-> IF store[x].st = "done" THEN store[x] ELSE At("new")]
    /\ task' = [y \in Seals |-> IF task[y].st = "done" THEN task[y] ELSE At("new")]
    /\ acked' = acked \cap Applied(kept).records
    /\ UNCHANGED history

StoreNext(x) ==
    \/ Arrive(x) \/ ReadSeals(x) \/ SealsRecovered(x)
    \/ WriteSoftSeal(x) \/ SoftSealed(x) \/ Dropped(x)
    \/ Admit(x) \/ Write(x) \/ PutCache(x)

SealNext(y) ==
    \/ ReceiveSeal(y) \/ WriteSeal(y) \/ PublishSeal(y)
    \/ TakeStock(y) \/ AnswerSeal(y)

Next ==
    \/ \E x \in Stores : StoreNext(x)
    \/ \E y \in Seals : SealNext(y)
    \/ EnterFailSafe
    \/ \E kept \in 0..Len(wal) : Crash(kept)

Spec == Init /\ [][Next]_vars
-----------------------------------------------------------------------------
\* What the node has in memory never runs ahead of its disk: not the seals, not
\* the record cache, not the stores it has acknowledged.
TypeOK ==
    /\ wal \in Seq([kind : {"normal", "soft"}, value : Nat]
                    \cup [kind : {"record"}, value : Stores])
    /\ failSafe \in BOOLEAN
    /\ normal >= -1 /\ normal =< Disk.normal
    /\ soft >= -1 /\ soft =< Disk.soft
    /\ cache \subseteq Disk.records
    /\ acked \subseteq Disk.records

\* What a SEALED answer reports holds every acknowledged record of its range,
\* but for stores that were past the second check already.
SealedReportsAcked ==
    \A y \in Answered : \A x \in acked :
        IsAppend(x) /\ InRange(x, y) => x \in task[y].info \cup task[y].late

\* A STORE of a sealed epoch that arrives after SEALED is refused, even if
\* the node has restarted in between.
SealedRefusesLater ==
    \A x \in acked : IsAppend(x) => msg[x].epoch > sealedAt[x]

\* Recovery can tell from the soft seal which epochs have never been stored:
\* RecordCache relies on it.
SoftSealCoversRecords ==
    \A x \in Disk.records : msg[x].epoch =< Disk.soft + 1

\* A sequencer is not told that it has sealed the log if a store of a later
\* sequencer was acknowledged before.
OutdatedSealPreempted ==
    \A y \in Answered : task[y].ahead =< SealOf[y].epoch + 1

\* EpochRecovery.h: after SEALED the shard accepts no store of a sealed epoch.
NoStoreAfterSealed ==
    \A y \in Answered : \A x \in acked :
        IsAppend(x) /\ InRange(x, y) => x \in task[y].info
=============================================================================
