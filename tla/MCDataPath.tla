------------------------------ MODULE MCDataPath ----------------------------
(* A small instance of DataPath for TLC. *)
EXTENDS DataPath

\* Keys that share prefixes, one a prefix of another.
MCKeys == {<<1>>, <<1, 1>>, <<1, 2>>, <<2>>}

\* And some no write stores: below, between and above the stored ones.
MCTargets == MCKeys \cup {<<0>>, <<1, 1, 1>>, <<3>>}

MCVals == {1}
MCTombstone == 0

PutOp(k) == [key |-> k, val |-> 1]
DelOp(k) == [key |-> k, val |-> MCTombstone]

\* Every key at once and out of order; a deletion and an overwrite; another deletion,
\* and the key deleted first comes back.
MCBatches ==
    {<<PutOp(<<2>>), PutOp(<<1>>), PutOp(<<1, 2>>), PutOp(<<1, 1>>)>>,
     <<DelOp(<<1>>), PutOp(<<1, 2>>)>>,
     <<DelOp(<<2>>), PutOp(<<1>>)>>}

\* What randomLevel gives.
MCHeights == {[k \in MCKeys |-> IF k \in {<<1>>, <<2>>} THEN 2 ELSE 1]}

\* Hashes that collide.
MCHash1 == [k \in MCTargets |-> 5 * k[Len(k)] + 3 * Len(k)]
MCHash2 == [k \in MCTargets |-> 2 * k[1] + 1]
=============================================================================
