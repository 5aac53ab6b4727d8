---------------------------- MODULE MCLockedLog ----------------------------
EXTENDS LockedLog

CONSTANTS k1, v1

\* A Put and a batch of a Put and a Delete.
OneAndTwo == {<<[key |-> k1, val |-> v1]>>,
              <<[key |-> k1, val |-> v1], [key |-> k1, val |-> Tombstone]>>}
=============================================================================
