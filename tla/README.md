# TLA+ models of LogDevice

LogDevice is a distributed log. A log is a sequence of records, each with a log
sequence number (LSN) made of an epoch and an epoch sequence number (ESN). One
node runs the *sequencer* of a log: it numbers the records of the current epoch
and stores each on a *copyset*, some of the storage shards of the epoch's
*nodeset*. When the sequencer fails or moves, another one is activated with a
higher epoch, *recovers* the epochs below, and only then releases records of
its own epoch to readers.

The promise of this core is small to state and hard to keep:

* a record whose append was acknowledged is never lost;
* all parties end up with the same content of every LSN, record or hole;
* a reader is shown a record only if everything before it is settled;
* appends, draining and recovery do not get stuck.

These models are about that core: the write path down to the storage shard, the
handover from one epoch to the next, recovery, how storage shards learn of its
result and purge the rest, and how a client reads.

## 1. Inventory

All paths are below `src/logdevice/`.

| Component | State it keeps | Operations | Talks to |
|---|---|---|---|
| `common/Sequencer` | state, current and draining epoch, `preempted_epoch_`, `last_released_` | start, complete and fail an activation; drain, evict, become unavailable; note preemption; start and complete recovery; note a reaped Appender | epoch store, EpochSequencer, LogRecoveryRequest |
| `common/EpochSequencer` | state, window, `lng_`, `last_reaped_`, `draining_target_` | run an Appender, retire, reap; transitions ACTIVE, DRAINING, DYING, QUIESCENT | Sequencer, window, Appenders |
| `common/SlidingWindowSingleEpoch.h` | ring of slots, `right_`, `size_`, `prev_epoch_tail_` | grow, retire, disable, set the previous tail; all lock-free | EpochSequencer |
| `common/Appender` | recipients, replies, wave | store, acknowledge, retire, abort | storage shards, window |
| `common/AllSequencers`, `SequencerBackgroundActivator` | requests to the epoch store | activation, conditional on an acceptable epoch or not | epoch store (`EpochMetaData` znode) |
| `common/LogRecoveryRequest`, `Worker` | running recovery per log, queue of logs | admission, queueing, replacement, completion; order of the epochs | Sequencer, EpochRecovery |
| `common/EpochRecovery` | phase, seal epoch, LNG, digest, Mutators | seal, digest, mutate, clean, advance the LCE; preemption, timeouts, restart | storage shards, epoch store |
| `common/RecoverySet`, `common/RecoveryNode` | state of each shard in a recovery | transitions of a shard | EpochRecovery |
| `common/Digest` | copies received, by ESN | precedence, bridge records, mutation set of an ESN | EpochRecovery |
| `common/Mutator` | one ESN to store, amend set, replies | store, preemption, completion | storage shards |
| `common/FailureDomainNodeSet` | attributes of shards | can replicate, f-majority | all of the above |
| storage shard (`server/storage`, `common/protocol/STORE_Message`) | seals, copies, LNG, local LCE | SEAL, STORE, START, CLEAN | recoveries and Appenders |
| epoch store (`common/EpochStore`) | epoch metadata, last clean epoch and tail record | compare-and-set | sequencers, recoveries |
| `server/StoreStateMachine`, `StoreStorageTask`, `storage/SealStorageTask`, `LogStorageState`, `RecordCache` | normal and soft seals in memory and on disk, cached epochs | the steps of STORE and SEAL on worker and storage threads | local log store |
| `server/storage/PurgeCoordinator`, `PurgeUncleanEpochs`, `PurgeSingleEpoch`, `PurgeScheduler` | local LCE, permanent error, buffered CLEAN and RELEASE, active purge, tokens | answer or buffer CLEAN and RELEASE; purge unclean epochs; replay | recoveries, sequencers, other shards |
| `common/PeriodicReleases` | what each shard was told | broadcast of the last released LSN | Sequencer |
| `common/client_read_stream` | window, buffer of records and gap markers, gap state of each sender, known-down list, filter version | START, handling of STARTED, RECORD and GAP, gap detection, rewinds, failover, redelivery | storage shards, application |
| `server/read_path` | read pointer, window, filter | delivery of records and gaps | client read streams, local log store |
| failure detector, replicated state machines and event log, rebuilding, nodes configuration, maintenance, BufferedWriter, local log store, messaging, admin | | | |

What is hard in this code:

* **Recovery races with everybody.** The old sequencer does not know that it
  was replaced. Recoveries of several later sequencers work on the same epoch,
  each may be preempted or time out half-way, and what it stored stays.
* **Quorums that intersect in data, not in votes.** There is no ballot. A
  recovery learns of a record only because the shards it digested and the
  copyset of the record share a shard that was sealed after it stored.
* **Lock-free reaping.** Each thread that retires an Appender may become the
  one that reaps, and `noteAppenderReaped()` relies on there being one of them.
* **Draining against reaping.** The transition to DRAINING and the last reaped
  Appender each have to see what the other did.
* **Writers of `last_released_`.** Reapers of several epochs and the end of
  recovery write it.
* **Late answers**: of the epoch store, of shards, of timers, of a recovery
  queue, all of which may belong to an epoch that is over.
* **A store races with its seal** over several threads of one node, without a
  lock, with seals in memory and on disk, a cache that answers for the disk, and
  crashes that lose what was not synced.
* **Purging deletes records** on the word of other shards, which may be purging
  themselves, while messages that were checked before a purge wait for its lock.
* **A reader concludes from silence.** That no shard has sent an LSN means that
  it is lost only if each shard that could have sent it was asked to, and a
  rewind changes who is asked while answers to the old request are under way.

`PROJECT.json` lists each hazard with the line where it bites and the
properties that look at it.

## 2. Modules

```
Digest            precedence, bridge records, mutation sets (operators only)
  EpochRecovery         the recovery protocol with shards, old sequencer, LCE
    EpochRecoveryProofs   theorems (TLAPS): acknowledged records, precedence
      EpochAgreementProofs  theorems: recoveries agree, and so do the shards
    MCEpochRecovery       instances for TLC
OrderedWindow     what a window of Appenders promises
SlidingWindow     the lock-free window; implements OrderedWindow
  SlidingWindowProofs
Sequencer         sequencer, its epochs, activation, release, recovery requests
  SequencerProofs
  MCSequencer
Purging           CLEAN, RELEASE and the purging of unclean epochs
  PurgingProofs
  MCPurging
ShardSeal         STORE and SEAL on one shard, step by step
  ShardSealProofs
  MCShardSeal
ReadStream        a client read stream and the servers it reads from
  ReadStreamProofs
  MCReadStream
Extrema           lemmas on least and greatest members of finite sets of numbers
```

Definitions in the modules that are introduced by `Bug:` are variants of the
definition that follows them, with a mistake one could make in the code. No
specification uses them: they are put in place of the correct definition, one
at a time, to see that a property notices (`mutants` in `PROJECT.json`).

### 2.1 EpochRecovery and Digest

*State.* The shards with their seal, local log store, LNG and local last clean
epoch; the Appenders of the old sequencer (what was issued, stored,
acknowledged); for each recovery, named by its seal epoch, the fields of
`EpochRecovery` and its Digest and Mutators; the outcome registered with the
last clean epoch. A stored copy is a record or a hole, possibly a bridge record
(the end of the epoch), with what decides its precedence: written by recovery
or by an Appender, and the wave or seal epoch.

| Action | Code |
|---|---|
| `Append`, `StoreRecord`, `Acknowledge` | `EpochSequencer::runAppender`, `STORE_Message`, `StoreStorageTask`, `Appender` |
| `Seal`, `SealReplyLost`, `SealPreempted` | `SealStorageTask`, `EpochRecovery::onSealed` |
| `StartDigest`, `DigestShard` | `onSealedOrActivated`, `onDigestStreamStarted`, `onDigestRecord`, `onDigestGap` |
| `StartMutations` | `onDigestComplete`, `startMutations`, `mutateEpoch`, all of `Digest` |
| `MutateShard`, `MutatePreempted`, `MutationComplete` | `Mutator`, `onMutationComplete`, `advanceToCleaning` |
| `Clean` | `PurgeCoordinator::onCleanMessage`, `onCleaned` |
| `AdvanceLCE`, `AdvanceLCEReplyLost` | `setLastCleanEpoch`, `onLastCleanEpochUpdated` |
| `Restart` | `onTimeout`, `onRecoveryNodeFailure`, `restart` |

`Digest` holds the pure part: `Precedes` orders copies, `Selections` is the set
of choices the digest can make among copies of equal precedence (the code keeps
the one that arrived first), `AfterBridges` removes what a bridge record hides,
`Settled` says what each ESN is settled as, `NeedsMutation` whether it has to
be stored. The nodeset is abstract: `CopySets` is any family of sets of shards,
a set can replicate if it contains one of them, and an f-majority is a set that
meets all of them.

What the model takes for granted:

* a shard checks the seal and writes in one step (the code has a gap between
  the two: 2.5 and the run `shard_store_after_sealed`), and handles the messages of one recovery in the order
  they were sent;
* a message that is delayed or lost is a step not taken. STOREs of a Mutator
  that land after its machine has moved on are equivalent to ones that land
  before it does, since nothing between the two reads the shard on behalf of
  that machine; likewise a late write of the LCE by an incarnation that has
  been restarted;
* all shards are fully authoritative: no unavailable or under-replicated
  shards, no digests that are complete only to the best of knowledge;
* the mutation set is any replicable subset of the digested shards, the grace
  period and mutation timers choose which;
* an Appender has one wave; digests cover the whole epoch; the seal epoch
  of a recovery is that of its sequencer less one, hence at least `Epoch`;
* payloads, byte offsets, timestamps, write streams and `ESN_MAX` are left out.
  `Outcome` (which ESNs are records) stands for the content and the tail record.

### 2.2 SlidingWindow and OrderedWindow

A step of `SlidingWindow` is one atomic operation of one thread in `grow()`,
`retire()`, `disable()` or `set_prev_tail()`. A compare-and-swap loop that only
retries is its successful step; the loop on `right_` and the one for RETIRED,
where a failure changes what is done, are explicit. `OrderedWindow` is the
promise: ESNs are issued in sequence while there is room and the window is
open, elements are retired in any order and reaped in sequence, each once
(`SafeSpec`), and a retired prefix is eventually reaped (`Spec`).

### 2.3 Sequencer

*State.* `Sequencer` (state, current and draining epoch, preemption,
`last_released_`), its `EpochSequencer`s by epoch, the threads inside them by
program counter, draining timers, requests to and answers of the epoch store,
seals that shards have, and the way of a recovery from `startRecovery()` through
the worker's queue to `onRecoveryCompleted()`.

| Actions | Code |
|---|---|
| `StartActivation`, `EpochStoreReply`, `EpochStoreError`, `EpochStoreAborted`, `CompleteActivation`, `OnActivationFailed`, `OnPermanentError` | `Sequencer::startActivation`, `completeActivationWithMetaData`, `onActivationFailed`, `onPermanentError`, `AllSequencers::onEpochMetaDataFromEpochStore`, `finalizeActivation` |
| `SetUnavailable` | `setUnavailable` |
| `OtherNodeActivates`, `OtherNodeSeals` | another node's sequencer (environment) |
| `NotePreempted`, `EnterPreempted` | the two checks of `notePreempted` |
| `RunAppender`, `RetireReplicated`, `RetireAborted` | `runAppender`, `retireAppender` |
| `ReapLng`, `ReapStore`, `Release`, `AdvanceLastReleased` | the two `noteAppenderReaped`, with the loop on `last_released_` |
| `TransitionTo`, `SetTarget`, `SetState`, `CheckQuiescent`, `OnEpochQuiescent`, `NoteDrainingCompleted`, `ReturnFromTransition`, `OnDrainingTimerExpired` | `EpochSequencer::transitionTo`, `onEpochQuiescent`, `Sequencer::noteDrainingCompleted`, `onDrainingTimerExpired` |
| `StartRecovery`, `DropRecovery`, `RunRecovery`, `QueueRecovery`, `PopRecoveryRequest`, `SealEpochs`, `RecoveryCompleted`, `FinishRecovery`, `RecoveryFailed`, `RecoveryPreempted` | `Sequencer::startRecovery`, `LogRecoveryRequest`, `Worker::popRecoveryRequest`, `onRecoveryCompleted` |

A step is one atomic operation or one section under a mutex. Two mutex sections
are split because lock-free code can see the inside: `transitionTo()` stores
the window, the target and the state one after the other, and
`onRecoveryCompleted()` reads the LNG before it writes `last_released_`; the
mutex is then modelled as held in between.

What the model takes for granted: one reaper per epoch and reaping in order
(that is `OneReaper` and `ImplementsOrderedWindow` of `SlidingWindow`); the
maximum taken by `notePreempted()` and its first check are one step;
a release build (assertions do not stop the node; `EpochStateAdvances` checks
one of them). The recovery of epoch 1 has nothing to recover; its immediate
end goes through the same steps. The end of a recovery with `E::NOTINCONFIG`
is `SetUnavailable(FALSE)` followed by `RecoveryFailed`. Epoch metadata,
periodic releases, redirected appends and byte offsets are left out.

### 2.4 Purging

*State.* Of each shard, on disk: its records and LNG, the
EpochRecoveryMetadata (ERM) of each epoch, seal and last clean epoch. In memory,
lost in a restart: `LogStorageState` (last clean epoch, seal, permanent error,
last released) and `PurgeCoordinator` (messages past the unlocked check,
buffered CLEANs and RELEASE, the active purge). Recoveries appear as what they
settle of each epoch and how far they are.

| Actions | Code |
|---|---|
| `StartRecovery`, `SealShard`, `SettleAndClean`, `SendClean`, `AdvanceLCE`, `SendRelease` | recovery and `PeriodicReleases`, as far as a storage shard sees them; `SealShard` is all of `SealStorageTask` |
| `Receive`, `AnswerClean`, `DoRelease`, `MustPurge`, `BufferClean`, `BufferRelease`, `Replay` | `PurgeCoordinator::onReceived`, `checkPreemption`, `onCleanMessage`, `onReleaseMessage`, `doRelease`, `onStateMachineDone`, `startBufferedMessages` |
| `WriteCleaned` | `CleanedResponseRequest` |
| `OtherPurgeStarts`, `OtherPurgeEnds` | `PurgeScheduler`, with a limit of one and one other log |
| `PurgeSeal`, `AskErm`, `PurgeRecords`, `PurgeWriteErm`, `WriteLastClean`, `LastCleanDone` | `PurgeUncleanEpochs`, `GetEpochRecoveryMetadataRequest`, `PurgeSingleEpoch` |
| `TaskFails`, `Crash` | `onPermanentError`; a restart of the node |

What the model takes for granted: the nodeset is the same in all epochs, all
shards are fully authoritative, there are no trim points and no log is skipped by
recovery; the reading of historical metadata is left out; a retry is a step that
has not been taken yet.

### 2.5 ShardSeal

*State.* The local log store as a durable part and the writes after it, of
which a crash may lose any suffix; the normal and the soft seal in memory; the
record cache with its first epoch and the last nonauthoritative epoch; for each
STORE and SEAL where it is.

| Actions | Code |
|---|---|
| `Arrive`, `ReadSeals`, `SealsRecovered` | `StoreStateMachine::execute`, `onSealRecovered`, `RecoverSealTask` |
| `WriteSoftSeal`, `SoftSealed` | `SoftSealStorageTask` |
| `Dropped`, `Admit`, `Write`, `PutCache` | `WriteBatchStorageTask::execute`, `StoreStorageTask::isPreempted`, `onDone` |
| `ReceiveSeal`, `WriteSeal`, `PublishSeal`, `TakeStock`, `AnswerSeal` | `SEAL_onReceived`, `SealStorageTask` |
| `EnterFailSafe`, `Crash` | `RocksDBLogStoreBase::enterFailSafeMode`; a restart of the node |

Left out: stores of rebuilding (which ignore seals), SYNC stores, permanent
read errors, `getHighestInsertedLSN`, forwarding along a chain; an epoch of which
the cache does not know whether it was stored to before is a miss.

### 2.6 ReadStream

*State.* `ClientReadStream` with its window, buffer, gap state, SCD mode and
known-down list, and scheduled rewind; one `ClientReadStreamSenderState` and one
server read stream per shard; messages under way; what the application was given
for each LSN. The read stream lives on one worker thread. The loop of
`findGapsAndRecords()` is a sequence of actions, during which no other handler
runs.

| Actions | Code |
|---|---|
| `ServerStart`, `ServerSend`, `Trim` | `START_onReceived`, `CatchupOneStream`, `LocalLogStoreReadFilter` |
| `OnStarted`, `OnDataRecord`, `OnGap` | the handlers of `ClientReadStream`, with `updateGapState` |
| `SkipTrimmed`, `DeliverTrimGap`, `DeliverRecord`, `ClearMarker`, `RewindOnDataLoss`, `DeliverDataLoss`, `EndLoop` | the iterations of `findGapsAndRecords`, `detectGap`, `checkFMajority`, `handleRecord`, `handleGap`, `slideSenderWindows` |
| `GracePeriodExpired`, `Redeliver`, `ScheduledRewind`, `Reconnect`, `StartedTimeout` | timers |
| `ShardsDownTimeout`, `AllSendAllTimeout` | the failover timers of `ClientReadStreamScd` |
| `StartFails`, `Disconnect` | `onStartSent` with an error, `SocketClosedCallback` |

What the model takes for granted: the range lies inside one epoch (no bridges, no
epoch metadata, the read set does not change) and is released; shards are fully
authoritative and send STARTED with OK, or are down; the window has a fixed size
and records go to a callback, which may refuse one. No checksum failures,
server-side filters, detection of slow shards, local SCD, `wait_for_all_copies`,
`require_full_read_set` or efficiency over delivery. Of filter versions only
whether a message has the current one is kept. WINDOW is delivered at once, a
START that has not been handled is superseded by the next one, and `START_SENT`
is part of `CONNECTING`.

## 3. Runs

`tlc -config <run>.cfg <module>` repeats a run.

### Properties that hold

| Run | Instance | What it shows |
|---|---|---|
| `recovery_crash` | 3 shards, 2 copies, 3 recoveries after a crash that left a half-stored record, minimal quorums, bridge records in empty epochs | recoveries agree (`Agreement`), also with the registered outcome (`AgreesWithLCE`); a finished recovery leaves each settled ESN replicated and uncontradicted in its mutation set (`RecoveredReplicated`); clean shards hold nothing that contradicts the registered outcome (`CleanShardsAgree`) |
| `recovery_durability` | 2 shards, 1 copy, 2 ESNs, the old sequencer and 2 recoveries, no bridge records in empty epochs | acknowledged records stay (`AckedNeverLost`, `AckedReplicated`), the LNG is sound (`LngSound`), no write replaces a copy of higher precedence (`PrecedenceAscends`), and the invariant that the proofs use is one (`DurabilityInv`) |
| `recovery_termination` | 2 shards, 1 copy, 2 recoveries, lost replies and a restart | some recovery completes, `RecoveryTerminates` |
| `window` | 3 threads, 2 slots, 4 ESNs, conditional appends | one reaper; a slot is free when it is used; nothing is left undone between operations; conditional appends follow the tail they name; the last ESN after `disable()`; `OrderedWindow` is implemented, with liveness |
| `sequencer_safety` | `Stop`, `Switch` or `Activations` (see below) | released means replicated, with gaps among the Appenders too: nothing after a gap is released (`ReleasedReplicated`); `last_released_` is monotone and enters an epoch through a recovery of it; QUIESCENT is declared in time and once; an epoch's state only advances; ACTIVATING always has an answer on the way (`NeverStuckActivating`) |
| `sequencer_liveness` | `Stop` or `Handover` | an evicted epoch becomes quiescent, and recovery happens |
| `purging` | 3 shards, 2 copies, 2 epochs of up to 2 ESNs, one recovery, another log on one shard, one fault | purging leaves each settled record on a copyset (`SettledReplicated`); a shard that holds an epoch for clean, or has released beyond it, shows what was settled (`CleanShowsSettled`, `ReleasedSettled`); an epoch that is clean in the epoch store has its ERM on an f-majority (`GlobalCleanHasErm`), without which purging could not decide; a buffered message always has a purge, or the purge token of another log, to wait for (`NeverStranded`) |
| `shard_seal` | 2 STOREs in 3 mixes, the SEALs of 2 sequencers, one crash or failing disk | SEALED reports each acknowledged record, but for stores past the second check (`SealedReportsAcked`); a STORE that arrives after SEALED is refused, also after a restart (`SealedRefusesLater`); the soft seal covers the records, as the record cache relies on (`SoftSealCoversRecords`); a SEAL is not answered OK once a store of a later sequencer was acknowledged (`OutdatedSealPreempted`) |
| `read_stream` | 3 shards, 2 copies, 3 LSNs, a window of 2, three logs (a hole; lost copies; a trim point), one message in flight per shard, one fault | a record that has its copies is not reported lost (`ReplicatedNeverLost`); the gap state of each sender, kept incrementally, agrees with its definition (`GapStateExact`); the stream reaches its end (`ReachesUntilLsn`), with a node that stays away unless copies are lost as well |

*Bounds.* Two copies on three shards are the least for which an f-majority
(two shards) is smaller than the nodeset and a record can be half stored. One
ESN already has four forms (nothing, a record, a hole, a bridge) and with the
slot after it shows a bridge record next to a record; two ESNs are needed
for an LNG above which something happens. Two recoveries race in all phases; a
third one can see what two others left, which is where precedence among
recoveries decides, and it is in the run for agreement. `MinimalQuorums` and
`OthersStartLate` (in `MCEpochRecovery`) and `MaxRestarts` cut the state space
of the runs that name them. Minimal quorums are what lets two recoveries share
a single shard; they exclude complete digests and mutation sets that are not
f-majorities, and there the properties of `recovery_crash` do not all hold: see
the first two observations at the end of this section. Two recoveries with two
ESNs and any quorums whose mutation sets are f-majorities satisfy `Agreement`
and `AgreesWithLCE` (891 910 states), and all four if the states are those where
no recovery has digested what a later one stored (681 956 states); section 4.2
proves both for any instance. A window of two slots
and four ESNs wraps around twice, so that a slot is reused while its previous
owner is still leaving; three threads are a reaper, one that takes over and one
that grows. Two epochs suffice for all pairs of a draining and a current
epoch; a third one, which is activated while the first is still draining, is in
`Activations` only. The bounds of `Sequencer` are a set of records, and a
behaviour chooses one of them (`MCSequencer`): `Stop` is one epoch with three
Appenders and a stop, `Switch` two epochs with an Appender in the first, two
requests to the epoch store in flight, an epoch of another node and a stop,
`Handover` two epochs with an Appender each, `Activations` three epochs without
Appenders. With `OrderedReplies` the answers of the epoch store are handled in
the order in which it gave out the epochs, which is the normal case. It matters:
after `setUnavailable()`, `current_epoch_` no longer protects from the answer to
an older request, and with `OrderedReplies = FALSE` an epoch below one that was
released can become current.

Two epochs are the least for which a shard may miss the CLEAN of the first and
be told of the second, and purge one epoch while the other is decided; three
shards with two copies let one shard be left out of the recovery. Two SEALs and
two STOREs let each overtake the other, with a mutation of the first recovery
under the seal of the second one. A window of two and three LSNs makes the window
slide once with something in the buffer; each log has its own reason not to
deliver: nothing there, copies lost, or trimmed on one shard while it is read.

Agreement is checked with bridge records in empty epochs
(`BridgeForEmptyEpoch`). Without them, as in metadata logs always, a recovery of
an empty digest leaves nothing on the shards; a slower one that meets a record
which was never acknowledged settles on it and gets STALE, so that `AgreesWithLCE`
fails in `recovery_crash` with `BridgeForEmptyEpoch = FALSE`. Acknowledged
records are not concerned.

Deadlock is not checked where the system may stop: all recoveries have ended,
each message was answered, the stream is done, or the bounds are used up. The window is different: it never stops, and its
run checks for deadlock.

*Fairness.* For recovery, weak fairness of each state machine as a whole: each
message has a retry timer behind it (`seal_retry_handler_`, the retransmission
and the timers of Mutator and EpochRecovery), so a machine that can take a step
does. It is not said which one, so that a machine may well be preempted or
restart instead of completing. For the window, threads that are inside an
operation go on, and nobody has to start one. For the sequencer, weak fairness
of threads inside an operation, of timers, of the retirement of Appenders that
have been aborted, and of the steps of a recovery request; strong fairness of
`RunRecovery` and `RecoveryCompleted`, because the code retries for as long as
the epoch is current: a log that is retried again and again finds room on its
worker, and its recovery finds its shards. Appenders that are *not* aborted
need not finish: the draining timer must do without them. For the read stream,
what is under way goes on: handlers, timers that are armed, servers that have
something to send (`Pending`). Nothing is assumed of faults, of trimming or of
nodes coming back; a stream that waits for copies that were lost may wait for
a node that is down, so `ReachesUntilLsn` asks for the nodes there.

### Claims of comments that do not hold

Each is a run that TLC ends with a counterexample; the finding in
`PROJECT.json` quotes the comment.

* `recovery_restart_split`. `restart()` builds a new digest but keeps the seal
  epoch with which copies are stamped. The first incarnation of a recovery may
  have stored a hole on one shard and the second one settle on the record it
  finds on another; both kinds of copies have the same precedence, and a later
  recovery that sees the first one settles differently from what was
  registered. The comment in `onLastCleanEpochUpdated` takes the tail record of
  another recovery to be the same. Acknowledged records are not concerned: the
  theorem `NoAckedRecordLost` includes restarts.
* `purging_clean_without_metadata`. `UPTODATE` from the local log store counts as
  success when the ERM of a CLEAN is written, but the store also returns it,
  without storing, when a higher seal has arrived since the CLEAN was checked.
  The shard answers CLEANED, and the epoch may become clean in the epoch store
  with the ERM on less than an f-majority, against the comment in
  `CleanedResponseRequest.h`. It takes two recoveries at a time; with one,
  `GlobalCleanHasErm` holds.
* `shard_store_after_sealed`. A STORE that has passed `isPreempted()` is written
  and acknowledged after the shard has answered SEALED, without being in
  the answer. `EpochRecovery.h` says that the node accepts no more STOREs.

Further observations, met while modelling, that have no run of their own:

* the digest must come from an f-majority, but digested shards that may not be
  written to (`canMutateShard`) are filtered out of it, and what is left need
  only hold a copyset. With two copies on four shards two recoveries can have
  disjoint mutation sets, and a bridge record that only a filtered shard has sent
  is not applied. `Agreement` then fails with `CrashSpec`, four shards, `MaxEsn
  = 2`, two recoveries and the constraint `OthersStartLate`: the first recovery
  digests n2, n3, n4, mutates n2 and n3 and ends the epoch before ESN 1; the
  second digests n1, n2, n4, mutates n1 and n4 and settles on the record at ESN
  2 that n1 has from the sequencer. It takes two changes of who is writable, and
  the record was not acknowledged;
* with a complete digest, copies of the highest precedence on a copyset need no
  mutation, whoever wrote them, and START is served whatever the seal of the
  shard. `RecoveredReplicated` fails with `CrashSpec`, the instance of
  `recovery_crash` and any quorums: recovery 1 seals all shards, recovery 2
  settles on a hole for n2 and n3, recovery 3 on a record, which it stores on n1
  and n2; recovery 1 digests all shards only then and needs no mutation. When the
  STORE of recovery 2 reaches n3, which nobody has sealed since, there is a hole
  in the mutation set of recovery 1. Its CLEAN, which marks n3 clean before it
  is answered PREEMPTED, makes `CleanShardsAgree` fail as well, against the
  comment in `Digest.h:301`. `Agreement` holds all the same: `MachinesAgree` of
  section 4.2 covers this instance;
* an Appender that is reaped between the two steps of `onRecoveryCompleted()`
  advances the LNG but gives up its release; the record stays unreleased until
  the next one of the epoch is reaped;
* `startRecovery()` recovers up to the epoch that is current when it runs, so a
  call made for an older epoch seals the draining epoch under its running
  Appenders, which `Sequencer.h` says is avoided;
* on `E::ABORTED` the next epoch of the epoch store is noted as the preemptor's
  epoch, which is one less (`SequencerBackgroundActivator.cpp` does subtract
  it); a sequencer that gets this next epoch holds itself for preempted;
* a record that the application has refused is discarded by a rewind; if its LSN
  has been trimmed meanwhile, a TRIM gap passes over it, which the comment at
  `ClientReadStream.cpp:1546` means to exclude. It takes two faults.

## 4. Proofs

The theorems hold for every value of the constants that meets the assumptions
of the module: any number of shards, threads, ESNs, epochs, requests and faults,
any family of copysets. TLC checks the same statements on the instances of
section 3. The inductive invariants were checked with TLC on these instances
before they were proved; those about the content of epochs in Purging on the
instance of `purging` with one sequencer and the states where `Concluded` holds. `tlapm <module>` repeats a proof.

| Module | Theorem | States |
|---|---|---|
| `EpochRecoveryProofs` | `TypeCorrect` | `[]TypeOK` |
| | `Durability` | `[]DurabilityInv`, the inductive invariant |
| | `NoAckedRecordLost` | `[]AckedNeverLost` |
| | `AckedStaysReplicated` | `[]AckedReplicated` |
| | `LastKnownGoodSound` | `[]LngSound` |
| | `PrecedenceNeverDrops` | `PrecedenceAscends` |
| `EpochAgreementProofs` | `MachinesAgree`, `AgreesWithRegistered` | `[]Agreement`, `[]AgreesWithLCE`, given `NoRestart`, `BridgeForEmptyEpoch` and `[]Majorities` |
| | `RecoveredIsReplicated`, `CleanShardsHoldOutcome` | `[]RecoveredReplicated`, `[]CleanShardsAgree`, given also `[]DigestsInOrder` |
| `SlidingWindowProofs` | `ReaperUnique`, `SlotsAreFree`, `CondAppendsFollow`, `DisableIsFinal`, `NothingLeftUndone` | `[]OneReaper`, `[]SlotIsFree`, `[]CondAppendFollowsTail`, `[]NextIsFinal`, `[]QuietWindow` |
| | `ImplementsOrdered` | `Spec => Ordered!SafeSpec`, the refinement |
| `SequencerProofs` | `ActivationMovesOn`, `ReleasesAreReplicated`, `QuiescentIsDone` | `[]NeverStuckActivating`, `[]ReleasedReplicated`, `[]QuiescentMeansDone` |
| | `ReleasesOnlyAdvance`, `StatesAdvance` | `ReleasedMonotone`, `EpochStateAdvances` |
| | `ReleasesEnterRecovered` | `ReleaseEntersRecovered`, given `OrderedReplies` |
| `ShardSealProofs` | `MemoryNeverAhead`, `SoftSealsSuffice`, `LaterSequencerPreempts` | `[]TypeOK`, `[]SoftSealCoversRecords`, `[]OutdatedSealPreempted` |
| | `SealsSurvive`, `ReportsComplete` | `[]SealedRefusesLater`, `[]SealedReportsAcked`, given `DistinctSeals` |
| `PurgingProofs` | `PurgesAdvance`, `BuffersAreReplayed` | `[]TypeOK`, `[]NeverStranded` |
| | `MetadataOnFMajority` | `[]GlobalCleanHasErm`, given `SingleRecovery` |
| | `SettledStaysReplicated`, `CleanShowsOnlySettled`, `ReleasedIsSettled` | `[]SettledReplicated`, `[]CleanShowsSettled`, `[]ReleasedSettled`, given `SingleRecovery` and `[]Concluded` |
| `ReadStreamProofs` | `StreamTypeCorrect`, `GapStatesExact`, `ReplicatedRecordsNotLost` | `[]TypeOK`, `[]GapStateExact`, `[]ReplicatedNeverLost` |
| | `Invariance` | `[]IInv`, the inductive invariant |

### 4.1 EpochRecovery

*Assumptions*: copysets are sets of shards; `Epoch` is a positive number and
seal epochs are not below it; the other constants have their types. The
copysets need not have the same size, intersect, or exist. Lost replies and
bridge records in empty epochs may be there or not.

*Argument.* That an acknowledged ESN is safe is not inductive, since a recovery
can take its digest before the append is acknowledged. The invariant speaks of
ESNs that *may still* be acknowledged: `Choosable(e)` says that some copyset
consists of shards that have stored `e` or are not sealed. This only ever
shrinks (`ChoosableShrinks`): a shard that gets sealed, or is sealed
already, takes no more copies. For each choosable ESN

* no shard holds a hole for it, or a bridge record at or below it, and the
  shards that stored it have a record (`StoreInv`);
* the same is true of what each recovery has digested (`DigestInv`);
* what each recovery settled keeps it, unless the LNG covers it
  (`SettledInv`).

The central lemma is `SettlesRecord`. The shards of a sufficient digest meet
every copyset; take the shard they share with the copyset that makes `e`
choosable. It was sealed when it was digested (`SealedInv`), so it must be one
that has stored `e`, and its digest has the record. As no copy in the digest is
a hole at `e` or a bridge at or below it, whichever copy precedence selects is
a record, and no bridge hides it. `AckedInv` connects the two: an
acknowledged ESN is on a copyset, hence choosable for ever (`AckedChoosable`).
One lemma per action shows that it preserves the invariant.

`PrecedenceNeverDrops` needs that a copy which recovery wrote on a shard carries
a seal epoch not above the seal of the shard, and that an Appender's copy is
written once; a STORE that the seal admits then never has the lower precedence.

### 4.2 EpochRecovery: agreement

*Hypotheses.* Beyond the assumptions of 4.1:

* `NoRestart`, on the constants: no recovery goes back to sealing. With restarts
  the statement is false, which is the run `recovery_restart_split`;
* `BridgeForEmptyEpoch`: recovery writes a bridge record also to an empty epoch,
  as it does for data logs. Without it `AgreesWithLCE` fails (section 3);
* `[]Majorities`, on the behaviour: mutation sets are f-majorities. The code asks
  for less, and the first observation of section 3 is what comes of it;
* `[]DigestsInOrder`, for the two theorems about what the shards hold: no recovery
  has digested a copy that a later one stored. The second observation of section
  3 is a behaviour without it. Agreement does not need it.

The instance of `recovery_crash` has the first two, and its quorums the third.
With two copies on three shards every mutation set is an f-majority, whatever
the quorums. Nothing is assumed about how many
recoveries there are, in which order they reach a shard, or what gets lost.

*Argument.* The seal epoch works like the ballot of a consensus algorithm, with
two differences that make the proof long: a recovery reads before it knows that
nobody else will write, and what it finds well replicated it does not write
again. A recovery has *proposed* once its plan is made. What it settled for an
ESN is *open* as long as some copyset consists of shards that have stored it or
are not sealed beyond it, and *chosen* when a copyset has stored it; openness
only shrinks, and a machine is `Decided` when all that it stores is chosen.
The invariant `AgreementInv` has:

* `CopyInv`, `DigestCopyInv`: each copy, on a shard or in a digest, comes from an
  Appender or from the proposal of the recovery whose seal epoch it carries
  (`Origin`), and a copy that a recovery stored is only ever replaced by a later
  one (`Kept`);
* `ShapeInv`: a proposal is a run of records and holes, ends with one bridge
  record, placed where its outcome ends, and has nothing behind that;
* `PlanInv`: what a proposal does not store is on a copyset already, from an
  Appender or from the proposal of another recovery (`Elsewhere`); and unless it
  stores all it settled, it has heard from every shard that there is
  nothing above (`NothingAbove`);
* `ChoiceInv`: a later proposal agrees with an earlier one on each ESN that is
  open in the earlier one, and is the same as a whole if the earlier one stores
  all of it and all of it is open.

`ChoiceInv` is where quorums meet. The shards of a digest meet the copyset that
keeps an ESN of an earlier proposal open; the shard they share has been sealed
by the later recovery, so it must be one that has stored, and the digest has its
copy or a later recovery's. The copy that precedence selects is then of the
earlier proposal or of one in between, which agrees with it by the invariant.
Bridge records are settled in the same way, at the ESN where the outcome ends.
`Majorities` is used there: only bridge records that a shard of the mutation set
has sent are applied, so it is the mutation set that has to meet the copyset. To reason about recoveries that were preempted after they stored something, the
model keeps what each has settled and stored when it ends.

For the content of the shards, `ContentInv` adds that what a proposal left was
found below it (`FoundInv`), that what a shard has sent to a recovery is still
there unless that recovery or a later one wrote over it (`FreshInv`), what the
shards of a mutation set hold for each kind of ESN (`MutatedInv`) and that a
clean shard holds what some recovery decided (`CleanInv`).

TLC checked the invariants before the proof: with three shards, two copies, three
recoveries and minimal quorums (522 329 states), with two recoveries, two ESNs
and any quorums that the hypotheses admit (the two numbers of section 3), and
together with the old sequencer on two shards (30 764 states).

### 4.3 SlidingWindow

*Assumptions*: `Threads` is finite, the capacity is at least 2, `EsnMax` is at
least the capacity, `Unknown` is not an ESN.

*Argument.* The invariant says who owns what. A token of `size_` is owned by a
thread inside `grow()`, by an issued ESN that is not reaped, or by the reaper
that has not given it back (`TokenInv`, with cardinalities of finite sets, hence
the first assumption). A retired element is owned by its slot, by the thread in
`retire()` that swapped it out, or by the reaper. TAIL is owned by the slot of
the left edge or by the reaper. A thread about to set TAIL and one about to
set RETIRED on the same slot meet in that slot's atomic, and the invariant says
what each has still to do for either order. So there is one reaper, a free token
means a cleared slot, and nobody leaves before the left edge has moved past
everything that is retired. The
refinement maps the window to issued, retired and reaped ESNs; each step of a
thread is one step of `OrderedWindow` or a stutter. Its liveness stays with TLC.

### 4.4 Sequencer

*Assumptions*: the set of bounds is finite and not empty, the fields of a bound
are natural numbers.

*Argument.* The invariant has ten parts, one for each mechanism: types and
which epoch each thread is in, epochs given out by the epoch store, where a
recovery is, what a fresh epoch looks like, the LNG against the Appenders,
`last_released_` against the LNG, the draining target, the mutex sections that
the model splits, what a thread inside a call has promised to do (`Due`,
`Promises`), and the order of the epochs. Steps are first classified by what
they touch (`StepKinds`), so that each part is shown once for each kind of step
that can disturb it, rather than once for each action. A release is always of
the LNG, which stops below the first Appender that is not replicated: that is
`ReleasesAreReplicated`, and the compare-and-swap loop on `last_released_`
gives `ReleasesOnlyAdvance`. `NeverStuckActivating` names what moves the
sequencer on: a request that the epoch store has not answered, an answer that
has not been handled, or a thread about to call `onActivationFailed()`.

`ReleasesEnterRecovered` assumes that the answers of the epoch store are handled
in the order of the epochs. Without it the statement is false (section 3).

### 4.5 ShardSeal

*Assumptions*: the sets of STOREs and SEALs are finite, epochs are positive.

*Argument.* A crash drops a suffix of the writes after the durable part, so the
invariant is stated for every state that a crash can leave, by a fold of the
write-ahead log (`Replay`): whatever prefix survives, what has been
acknowledged is in it, and what memory says is covered by the whole log.
`SoftSealsSuffice` follows as soft seals are written before the records they
cover, in one batch order. `SealsSurvive` and `ReportsComplete` assume
`DistinctSeals`: no two SEALs carry the same seal. The assumption is needed. A
retried SEAL finds its own seal in the local log store, gets `UPTODATE`, takes
this for success and asks for no sync (`SealStorageTask.cpp:125`), so it may be
answered before the sync of the first attempt; TLC finds the crash that then
takes the seal back when the run is given two SEALs of one epoch.

### 4.6 Purging

*Assumptions*: copysets are sets of shards and not empty, sequencers are
numbered from 2 to `MaxEpoch + 1`.

*Argument.* `PurgesAdvance` rests on `LceInv`: the last clean epoch on disk is
the one in memory, except between the write and the sync of a purge, and the
active purge started from it. `BuffersAreReplayed` is inductive with the types.

The other four are about one recovery at a time (`SingleRecovery`: `Seqs` has
one member), as with two the run `purging_clean_without_metadata` has a
counterexample to the first of them, and TLC finds one to each of the others. The invariant
`OneInv` has: epochs are settled one after the other and registered in order
(`ProgressInv`); metadata anywhere, on disk, in a CLEAN or in the hands of a
purge, is what was settled (`OutInv`, `ErmInv`, `AnswerInv`); a CLEAN reaches
participants only, a RELEASE comes when everything is registered (`MsgInv`);
a purge works on registered epochs only, and the epoch of its CLEAN is one that
its shard took part in (`TargetInv`); a participant that has answered CLEANED
has the metadata (`CleanedInv`). `Forward` says what no step takes back, and
with it messages, purges and answers of the shards that stand by stay good.

The content of the epochs needs that no purge gives up on an epoch (`Concluded`).
A GetEpochRecoveryMetadataRequest that has heard from all shards without an
answer for an epoch, because those that know are the ones that failed, ends
with `UNKNOWN` for it; the purge then skips the epoch
(`PurgeUncleanEpochs.cpp:381`) and still writes its last clean epoch, so that
records which were not settled can be shown. It takes two permanent errors
among three shards, one more than the bound of the run, and TLC confirms it. The
theorems have `[]Concluded` as a hypothesis on the behaviour, and allow any
faults otherwise. `ContentInv` then has, for each settled epoch: a *keeper*
(a shard where it is clean, or a participant of its recovery) shows nothing else
(`ShownInv`); a settled record is on a copyset each member of which is a keeper,
or will delete nothing at or below the LNG that was settled (`KeptInv`); a shard
where a registered epoch is clean has its metadata unless it is empty
(`KnownInv`), so the answer EMPTY is true; and what a purge has found, heard and
done with each of its epochs (`StockInv`). The LNG of a shard is covered by
the settled ESN because the copyset that made it good meets the participants.

### 4.7 ReadStream

*Assumptions*: there are finitely many shards and at least `Replication` of them;
the copyset of a record has `Replication` places; sizes are positive. Windows
of any size, any number of messages in flight and faults, and any set of logs are
covered.

*Argument, the stream.* `Window` places the buffer. `Link` says, for each sender,
how its next LSN, the end of its under-replicated region, its gap state and the
marker to which it is linked go together; a sender that is not linked has nothing
to say inside the window, and the end of the gap behind the window is not above
its next LSN. It is stated on numbers (`LinkAt`), so that `updateGapState()`,
`unlinkRecordState()` and `slideSenderWindows()` are each one lemma without
records in it. `Quiet` says who may be linked to the front slot, and that is where
`GapStateExact` has its exception. TLC refuted an earlier form, without the
exception, on an instance with two faults: when the application refuses a TRIM
gap, `deliverFastForwardGap()` returns before it clears the markers, so a sender
whose next LSN has been reached still counts as having sent a gap until the
redelivery. No gap is issued meanwhile.

*Argument, the sessions.* `ReplicatedRecordsNotLost` needs that the stream knows
all that a shard has, which holds for messages of the last filter version only,
and only in ALL_SEND_ALL. `Session` keeps track of where the version changes:
a STARTED of the last version on its way splits the channel of a shard into what
will be dropped and what will be accepted (`Live`). `Order` says that what is
live comes in the order of LSNs, `AllSendAll` that in this mode no server and no
START of the last version filters by copyset, and `Complete` that a record which
the shard holds between the next LSN of the stream and that of the sender is in
the buffer or trimmed (`Received`), and between there and the read pointer of the
server is accounted for by a live message (`InFlight`, `Sent`). When a DATALOSS gap is
issued, an f-majority of the shards is in the state GAP, hence linked to a marker
or beyond the window, so the gap ends at or below the next LSN of each of them.
Were there `Replication` holders of an LSN in the gap, one of them would be in
the f-majority, by counting; by `Received` the stream would have its record, and
the gap would end before it.

TLC checked the invariant on all 1 030 296 states of the instance of
`read_stream`, and in simulations with two and three faults, windows of 1 to
3, two and three messages in flight and other logs.

### 4.8 Only model-checked

* The four properties of EpochRecovery of 4.2 without their hypotheses do not
  hold, as shown in section 3.
* Liveness under fairness (`RecoveryTerminates`, `ImplementsOrderedWindow` with
  its fairness, the run `sequencer_liveness`, `ReachesUntilLsn`), what
  recursive definitions compute for every input, and so the counting in
  nodesets: out of the prover's reach.

## 5. Not modelled

PeriodicReleases appears only as a RELEASE that is sent to each shard. The
CatchupQueue schedules I/O with little protocol state; of server read streams,
what they send is modelled. The failure detector is driven by real time.
Rebuilding rests on the event log and partition timestamps. Nodes configuration
and maintenance are large transition tables with little concurrency of their
own. BufferedWriter is client-side batching. The local log store appears as the
map from LSN to copy that recovery reads, messaging as delivery assumptions,
the admin interface not at all. Within modelled parts, the notes in
`PROJECT.json` under `components` say what is left out.

## 6. Plan

In this order:

1. **NodeSet**: the counting algorithm of `FailureDomainNodeSet`
   (`FailureDomainNodeSet-inl.h`, `canReplicate` and `isFmajority` over several
   scopes) against the definitions with sets of copysets used here, over all
   small nodesets.
2. **LogRecovery**: several epochs recovered in order by one
   LogRecoveryRequest, and two nodes with the epoch store, composing Sequencer
   and EpochRecovery.
3. **PeriodicReleases**: that every shard learns of the last released LSN.
4. Read streams over several epochs: bridges, epoch metadata, changes of the read
   set, and shards that are not fully authoritative.
