----------------------------- MODULE MCShardSeal -----------------------------
(***************************************************************************)
(* ShardSeal for TLC: the STOREs and the SEALs.                            *)
(***************************************************************************)
EXTENDS ShardSeal

StoreMsg(e, r, d) == [epoch |-> e, recovery |-> r, drain |-> d]
SealMsg(e, c) == [epoch |-> e, clean |-> c]

\* Messages of epoch 2: an append, an append of a draining sequencer, and a
\* mutation by the recovery that sealed epoch 2; and an append of epoch 4.
InEpoch == StoreMsg(2, 0, FALSE)
Draining == StoreMsg(2, 0, TRUE)
Mutation == StoreMsg(2, 2, FALSE)
Ahead == StoreMsg(4, 0, FALSE)

MCStores == {1, 2}
MCMixes == {<<InEpoch, Ahead>>, <<Draining, Ahead>>, <<InEpoch, Mutation>>}

\* Sequencers 3 and 4 seal the epochs after 1.
MCSealOf == [third |-> SealMsg(2, 1), fourth |-> SealMsg(3, 1)]
MCSeals == DOMAIN MCSealOf

\* One append and one SEAL.
OneStore == {1}
OneMix == {<<InEpoch>>}
OneSealOf == [third |-> SealMsg(2, 1)]
OneSeal == DOMAIN OneSealOf
=============================================================================
