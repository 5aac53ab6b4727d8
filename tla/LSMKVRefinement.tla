--------------------------- MODULE LSMKVRefinement --------------------------
(***************************************************************************)
(* lsmkv.DB implements DurableKV.                                          *)
(*                                                                         *)
(* The mapping reads the abstract state off the files and the memory of    *)
(* the engine.  While the process is down or reads its log back, "what a   *)
(* reader sees" is what recovery is bound to find; once the database is    *)
(* open it is what the memtable and the tables hold.  A write that failed   *)
(* can surface as long as its frame is in the log, or on the disk because  *)
(* the fsync of a Reset failed.                                            *)
(***************************************************************************)
EXTENDS LSMKV

\* The database is not serving yet, or never will in this session.
Recovering == pc \in {"down", "replay"} \/ closing = "abort"

MappedView   == IF Recovering THEN RecoveredView(frames)
                              ELSE Visible(MergeTables({mem} \cup DataOf(tables)))
MappedLog    == IF Recovering THEN RecoveredHist(frames) ELSE hist
MappedUnsure == (ToSet(frames \o durable) \cup (IF pc = "sync" THEN {pending} ELSE {})) \ MappedLog

\* Every frame a client may have written within the bound on sequence numbers.
Ops == {<<[key |-> k, val |-> v]>> : k \in Keys, v \in Contents} \cup Batches
NumberedFrom(ops, first) ==
    [i \in DOMAIN ops |-> [key |-> ops[i].key, seq |-> first + i - 1, val |-> ops[i].val]]
AllWrites == {NumberedFrom(ops, first) : ops \in Ops, first \in 1 .. MaxSeq}

KV == INSTANCE DurableKV WITH
        Writes <- AllWrites, view <- MappedView, log <- MappedLog,
        unsure <- MappedUnsure, promised <- stable

\* Every behaviour of the engine, its crashes included, is one DurableKV allows:
\* readers see whole writes in their order, an acknowledged write stays once it
\* is promised, a lost write takes every later one with it.
ImplementsDurableKV == KV!KVSpec
=============================================================================
