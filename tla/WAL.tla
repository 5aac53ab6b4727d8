-------------------------------- MODULE WAL ---------------------------------
(***************************************************************************)
(* internal/wal: the write-ahead log of CRC-framed records.                *)
(*                                                                         *)
(* The log file is modelled by the frames a reader can get back from it.   *)
(* scanValidPrefix and ReplayContext stop at the first frame that is cut   *)
(* short or fails its checksum, so a frame whose write broke off hides     *)
(* every byte appended after it: "torn" says that such a frame is in the   *)
(* file, and while it is, an append reaches the file and not "frames".     *)
(*                                                                         *)
(* "durable" is what is known to be on stable storage.  A power failure    *)
(* leaves either that, or any longer prefix the kernel happened to write   *)
(* back; a killed process leaves the page cache, and so "frames", alone.   *)
(***************************************************************************)
EXTENDS Versions

CONSTANTS
    SyncPolicy,     \* Options.SyncPolicy of the database
    SyncEveryN      \* Options.SyncEveryN, which SyncBatch uses

SyncPolicies == {"SyncFull", "SyncBatch", "SyncNone"}

ASSUME WALAssumption == SyncPolicy \in SyncPolicies /\ SyncEveryN \in Nat \ {0}

VARIABLES
    frames,     \* the readable frames of wal.log, as the kernel has them
    torn,       \* a partial frame follows them in the file
    durable,    \* the readable frames known to be on stable storage
    nextSeq,    \* Log.nextSeq, the last sequence number given out
    appends     \* Log.appends, counted modulo SyncEveryN, the only use made of it

walVars == <<frames, torn, durable, nextSeq, appends>>

WALTypeOK ==
    /\ frames \in Seq(Frame)
    /\ torn \in BOOLEAN
    /\ durable \in Seq(Frame)
    /\ nextSeq \in Nat
    /\ appends \in Nat

WALInit ==
    /\ frames = <<>>
    /\ torn = FALSE
    /\ durable = <<>>
    /\ nextSeq = 0
    /\ appends = 0

-----------------------------------------------------------------------------
(* Appending.  ops is a sequence of [key, val]: one for AppendPut and        *)
(* AppendDelete, the entries of the batch for AppendBatch.                   *)

\* Mutant of NewFrame: the numbers are counted back from the last one.
NewFrameBackwards(ops) ==
    [i \in DOMAIN ops |-> [key |-> ops[i].key, seq |-> nextSeq + 1 - i, val |-> ops[i].val]]

\* allocSeq, once per record: the numbers are spent even if the write fails.
NewFrame(ops) ==
    [i \in DOMAIN ops |-> [key |-> ops[i].key, seq |-> nextSeq + i, val |-> ops[i].val]]

\* Mutant of AppendFrame: unless every append is fsynced, the frame stays in a
\* buffer of the process.
AppendFrameBuffered(ops) ==
    /\ frames' = IF torn \/ SyncPolicy # "SyncFull" THEN frames ELSE Append(frames, NewFrame(ops))
    /\ nextSeq' = nextSeq + Len(ops)
    /\ appends' = (appends + 1) % SyncEveryN
    /\ UNCHANGED <<torn, durable>>

\* writeFrame wrote the header and the payload.
AppendFrame(ops) ==
    /\ frames' = IF torn THEN frames ELSE Append(frames, NewFrame(ops))
    /\ nextSeq' = nextSeq + Len(ops)
    /\ appends' = (appends + 1) % SyncEveryN
    /\ UNCHANGED <<torn, durable>>

\* Mutant of AppendNothing: some bytes were written.
AppendSomething(ops) ==
    /\ torn' = TRUE
    /\ nextSeq' = nextSeq + Len(ops)
    /\ UNCHANGED <<frames, durable, appends>>

\* writeFrame failed before it wrote a byte.
AppendNothing(ops) ==
    /\ nextSeq' = nextSeq + Len(ops)
    /\ UNCHANGED <<frames, torn, durable, appends>>

\* writeFrame wrote the header, or a part of the payload, and failed; nothing
\* takes the partial frame back.
AppendTorn(ops) ==
    /\ torn' = TRUE
    /\ nextSeq' = nextSeq + Len(ops)
    /\ UNCHANGED <<frames, durable, appends>>

\* Mutants of SyncDue: only SyncBatch syncs, or only SyncFull does.
SyncDueOnCount(n) == SyncPolicy = "SyncBatch" /\ n = 0
SyncDueIfFull(n)  == SyncPolicy = "SyncFull"

\* maybeSyncLocked: whether the append that brought the count to n must be
\* followed by an fsync before it returns.
SyncDue(n) ==
    \/ SyncPolicy = "SyncFull"
    \/ SyncPolicy = "SyncBatch" /\ n = 0

\* Mutant of Fsync: the call returns with nothing written back.
FsyncSkipped == UNCHANGED durable

\* (*os.File).Sync on wal.log.
Fsync == durable' = frames

-----------------------------------------------------------------------------
(* Reset, called when a flush has made the records redundant.                *)

ResetLog ==
    /\ frames' = <<>>
    /\ torn' = FALSE
    /\ durable' = <<>>
    /\ appends' = 0

\* The truncation is done and its fsync fails: the old frames may be back after
\* a power failure.
ResetLogUnsynced ==
    /\ frames' = <<>>
    /\ torn' = FALSE
    /\ appends' = 0
    /\ UNCHANGED durable

-----------------------------------------------------------------------------
(* Crashes and recovery.                                                     *)

SeqsIn(fs) == {r.seq : r \in FrameRecords(ToSet(fs))}

\* Prefixes of the log that a power failure may leave on the disk.  As long as
\* the durable frames start the log it is some extension of them; after an
\* unsynced Reset it is the old log or what was written since.
Survivors ==
    LET kept == IF IsPrefix(durable, frames) THEN Len(durable) ELSE 0
    IN  {durable} \cup {SubSeq(frames, 1, n) : n \in kept .. Len(frames)}

\* The machine loses power: one of the survivors is left, and the frame after
\* it may have been written in part.
LosePower ==
    \E s \in Survivors :
        /\ frames' = s
        /\ durable' = s
        /\ torn' \in BOOLEAN
        /\ UNCHANGED <<nextSeq, appends>>

\* Mutant of RecoverLog: the numbers in the log are not looked at.
RecoverLogFloorOnly(floor) ==
    /\ torn' = FALSE
    /\ nextSeq' = floor
    /\ appends' = 0
    /\ UNCHANGED frames

\* wal.Open with recoverTail, then SetNextSeq(floor): the partial frame is cut
\* off, numbering resumes after everything seen, counting starts afresh.
RecoverLog(floor) ==
    /\ torn' = FALSE
    /\ nextSeq' = Larger(HighestSeq(SeqsIn(frames)), floor)
    /\ appends' = 0
    /\ UNCHANGED frames
=============================================================================
