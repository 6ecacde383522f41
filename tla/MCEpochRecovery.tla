--------------------------- MODULE MCEpochRecovery ---------------------------
(* Instances of EpochRecovery for TLC: replication factor R in a nodeset   *)
(* without failure domains.                                                *)
EXTENDS EpochRecovery, TLC

CONSTANT R

MCCopySets == {c \in SUBSET Shards : Cardinality(c) = R}

\* No restarts, or one restart of the machine with the lowest seal epoch.
NoRestarts == [s \in SealEpochs |-> 0]
OneRestart == [s \in SealEpochs |-> IF s = Min(SealEpochs) THEN 1 ELSE 0]

\* The sequencer crashed when one shard had stored the last record.
CrashInit ==
    \E n \in Shards :
        LET rec == [kind |-> "record", bridge |-> FALSE, recovery |-> FALSE,
                    wave |-> 1]
        IN  /\ issued = MaxEsn
            /\ copies = [e \in Esns |-> IF e = MaxEsn THEN {n} ELSE {}]
            /\ acked = {}
            /\ store = [m \in Shards |-> [EmptyShard EXCEPT ![MaxEsn] =
                            IF m = n THEN rec ELSE NoCopy]]
            /\ seal = [m \in Shards |-> 0]
            /\ shardLng = [m \in Shards |-> 0]
            /\ clean = {}
            /\ MachinesInit
            /\ lce = NoOutcome

CrashSpec == CrashInit /\ [][\E s \in SealEpochs : MachineNext(s)]_vars

\* Bound: each machine reaches only the shards it needs, one more per restart.
MinimalQuorums == \A s \in SealEpochs : Cardinality(sealed[s]) =< R + MaxRestarts[s]

\* Bound: the other machines start once the first has made its restarts and
\* has finished its mutations.
OthersStartLate ==
    LET first == Min(SealEpochs)
    IN  restarts[first] < MaxRestarts[first] \/ phase[first] \notin Finished
            => \A s \in SealEpochs \ {first} : sealed[s] = {}

ShardSymmetry == Permutations(Shards)
==============================================================================
