------------------------------- MODULE Digest -------------------------------
(***************************************************************************)
(* The digest of epoch recovery (common/Digest.cpp): what a sequencer that *)
(* recovers an epoch concludes from the copies that the shards of the      *)
(* epoch's nodeset sent it.  Constant-level operators only; EpochRecovery  *)
(* uses them.                                                              *)
(*                                                                         *)
(* A copy of an ESN is a record of four fields: kind (a data record, a     *)
(* hole plug, or "none" when the shard has no copy), the BRIDGE flag, the  *)
(* WRITTEN_BY_RECOVERY flag and `wave', which is the wave of the Appender  *)
(* or, for a copy written by recovery, the seal epoch of that recovery.    *)
(* Payloads are not modelled: the one sequencer of an epoch assigns one    *)
(* payload to an ESN, so two data copies of an ESN never differ.           *)
(***************************************************************************)
EXTENDS Integers, FiniteSets, FiniteSetsExt

CONSTANTS
    Shards,             \* the nodeset of the epoch
    CopySets,           \* the sets of shards that satisfy the replication
                        \* property of the epoch (minimal ones suffice)
    MaxEsn,             \* bound: the largest ESN the sequencer issues
    LegacyWave,         \* numeric_limits<uint32_t>::max(), above every wave
    BridgeForEmptyEpoch \* Digest::Options::bridge_for_empty_epoch

ASSUME CopySetsAssumption == CopySets \subseteq SUBSET Shards
ASSUME MaxEsnAssumption == MaxEsn \in Nat
ASSUME LegacyWaveAssumption == LegacyWave \in Nat
ASSUME BridgeForEmptyEpochAssumption == BridgeForEmptyEpoch \in BOOLEAN

\* ESNs of data records, and of everything recovery may store: a bridge
\* record can follow the last one.
Esns == 1 .. MaxEsn
Slots == 1 .. (MaxEsn + 1)

Kinds == {"none", "record", "hole"}

Copy == [kind : Kinds, bridge : BOOLEAN,
         recovery : BOOLEAN, wave : Nat]

NoCopy == [kind |-> "none", bridge |-> FALSE, recovery |-> FALSE, wave |-> 0]

EmptyShard == [e \in Slots |-> NoCopy]

-----------------------------------------------------------------------------
\* NodeSetAccessor / FailureDomainNodeAttributes: a set of shards can hold a
\* fully replicated copy, or meets every set that does.
CanReplicate(S) == \E c \in CopySets : c \subseteq S

Fmajority(S) == \A c \in CopySets : c \cap S # {}

-----------------------------------------------------------------------------
\* Digest::RecordMetadata::operator<
WaveOrSealEpoch(c) ==
    IF ~c.recovery /\ c.wave = 0 THEN LegacyWave ELSE c.wave

Precedes(a, b) ==
    \/ ~a.recovery /\ b.recovery
    \/ a.recovery = b.recovery /\ WaveOrSealEpoch(a) < WaveOrSealEpoch(b)

\* A digest: a function from some of the shards to what they sent.
IsDigest(d) == DOMAIN d \subseteq Shards /\ d \in [DOMAIN d -> [Slots -> Copy]]

\* The entries of a digest d: the ESNs some shard sent a copy of.
Senders(d, e) == {n \in DOMAIN d : d[n][e].kind # "none"}

Entries(d) == {e \in Slots : Senders(d, e) # {}}

\* Digest::onRecord keeps, for each ESN, the first copy received among those
\* of the highest precedence: which one that is depends on the order in which
\* the RECORD messages arrive.
Highest(d, e) ==
    {c \in {d[n][e] : n \in Senders(d, e)} :
        \A n \in Senders(d, e) : ~Precedes(c, d[n][e])}

\* The Entry::record maps that a digest can end up with.
Selections(d) ==
    {r \in [Slots -> UNION {Highest(d, e) : e \in Slots} \cup {NoCopy}] :
        \A e \in Slots : IF e \in Entries(d) THEN r[e] \in Highest(d, e)
                                            ELSE r[e] = NoCopy}

-----------------------------------------------------------------------------
\* Digest::applyBridgeRecords.  The bridge records that precede ESN e on the
\* shards of the mutation set M, entries below the last known good trimmed.
BridgesUpTo(d, M, lng, e) ==
    {c \in {d[n][k] : n \in M, k \in {j \in Slots : lng =< j /\ j =< e}} :
        c.kind # "none" /\ c.bridge}

\* An entry of lower precedence than such a bridge turns into a hole.
ApplyBridges(c, bridges) ==
    IF \E b \in bridges : Precedes(c, b)
    THEN [kind |-> "hole", bridge |-> FALSE, recovery |-> TRUE,
          wave |-> Max({b.wave : b \in bridges})]
    ELSE [c EXCEPT !.bridge = FALSE]

AfterBridges(d, M, lng, r) ==
    [e \in Slots |-> IF r[e].kind = "none" THEN NoCopy
                     ELSE ApplyBridges(r[e], BridgesUpTo(d, M, lng, e))]

\* The new bridge record goes to the ESN right after the last data record, or
\* after the LNG if no entry above it is one; an epoch with nothing in it gets
\* none unless the options ask for it.
EmptyEpoch(r, lng) == lng = 0 /\ \A k \in Slots : r[k].kind = "none"

NewBridge(r, lng, e) ==
    /\ lng < e
    /\ e = lng + 1 \/ r[e - 1].kind = "record"
    /\ \A k \in Slots : k >= e => r[k].kind # "record"
    /\ EmptyEpoch(r, lng) => BridgeForEmptyEpoch

-----------------------------------------------------------------------------
\* EpochRecovery::mutateEpoch: the copy that recovery settles on for each ESN
\* from the LNG to the last entry or the bridge, whichever is higher.  An ESN
\* no shard sent gets a hole plug.
Mutated(r, lng, e) ==
    /\ lng < e
    /\ \E k \in Slots : k >= e /\ (r[k].kind # "none" \/ NewBridge(r, lng, k))

Settled(r, lng) ==
    [e \in Slots |->
        IF Mutated(r, lng, e)
        THEN [kind |-> IF r[e].kind = "none" THEN "hole" ELSE r[e].kind,
              bridge |-> NewBridge(r, lng, e),
              recovery |-> r[e].recovery, wave |-> r[e].wave]
        ELSE NoCopy]

\* Digest::needsMutation, on what the shards of the mutation set M sent for e:
\* the shards whose copy must be replaced, those whose metadata must be
\* amended, and whether a Mutator is needed at all.
SuccessfullyStored(d, M, e, c, s) ==
    {n \in M \cap Senders(d, e) : d[n][e] = c /\ c.recovery /\ c.wave = s}

ConflictCopies(d, M, e, c, s) ==
    {n \in (M \cap Senders(d, e)) \ SuccessfullyStored(d, M, e, c, s) :
        d[n][e].kind # c.kind}

AmendMetadata(d, M, e, c, s) ==
    (M \cap Senders(d, e)) \ (SuccessfullyStored(d, M, e, c, s)
                                \cup ConflictCopies(d, M, e, c, s))

NeedsMutation(d, M, e, c, s, complete) ==
    \/ ConflictCopies(d, M, e, c, s) # {}
    \/ ~complete /\ AmendMetadata(d, M, e, c, s) # {}
    \/ ~CanReplicate(IF complete
                     THEN {n \in M \cap Senders(d, e) : d[n][e] = c}
                     ELSE SuccessfullyStored(d, M, e, c, s))
=============================================================================
