------------------------------ MODULE MCLSMKV -------------------------------
(* Small instances of LSMKV for TLC. *)
EXTENDS LSMKV

PutOp(k, v) == [key |-> k, val |-> v]
DelOp(k)    == [key |-> k, val |-> Tombstone]

\* A batch over two keys, and one that writes a key and deletes it again.
MCBatches ==
    UNION {{<<PutOp(j, v), DelOp(k)>> : j, k \in Keys} : v \in Vals}

\* Batches that have the key of no bytes, alone and with another.
EmptyKeyBatches ==
    {<<PutOp(EmptyKey, v)>> : v \in Vals}
        \cup UNION {{<<PutOp(k, v), DelOp(EmptyKey)>>, <<PutOp(EmptyKey, v), DelOp(k)>>} :
                        k \in Keys \ {EmptyKey}, v \in Vals}

\* No batches, for the runs whose length of history matters more.
NoBatches == {}

NoFaults == {}

\* The failures after which the engine still keeps all its promises.  Those of the
\* last line leave it with closed readers, so that Get may fail.
ToleratedFaults ==
    {"walWrite", "walSync", "walReset", "walResetSync", "alloc", "sstWrite", "sstOpen",
     "outOpen", "replace"}

TornWrite       == {"walTorn"}
CancelledOpen   == {"cancel"}
UnsavedAddFile  == {"addFile"}
UnreadableBlock == {"blockRead"}

\* A history of three numbers has room for one failure, one of two numbers for two.
WritesOrFaults == nextSeq + faults =< 4
=============================================================================
