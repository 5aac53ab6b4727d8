----------------------------- MODULE LockedLog -----------------------------
(***************************************************************************)
(* wal.log as a file, and the processes that take turns at it under LOCK.  *)
(*                                                                         *)
(* WAL models the log by the frames a reader gets back; here it is what    *)
(* internal/wal makes of it: a file written through a cursor, a frame in   *)
(* two writes (header, payload), a scan that decides after a crash where   *)
(* the file ends, and the three things a Log keeps of it in memory.  Two   *)
(* sessions have separate cursors: only FileLock keeps them apart.  Every  *)
(* append is fsynced (SyncFull).                                           *)
(*                                                                         *)
(* The file is a sequence of cells: a header, with what its length and its *)
(* checksum determine, that is, the payload that belongs to it; a record   *)
(* of a payload; or Broken, bytes that are neither: a part of a header, a  *)
(* hole, a block the kernel had not written back.                          *)
(***************************************************************************)
EXTENDS FileLock, Versions

CONSTANTS
    Batches,    \* what one append may carry: sequences of [key, val]
    MaxSeq,     \* bound on the sequence numbers given out
    MaxFaults,  \* bound on the file operations that fail
    MaxCrashes  \* bound on the kills and the power failures together

ASSUME LockedLogAssumption ==
    /\ Batches \subseteq Seq([key : Keys, val : Contents])
    /\ \A b \in Batches : b # <<>>
    /\ MaxSeq \in Nat /\ MaxFaults \in Nat /\ MaxCrashes \in Nat

VARIABLES
    file,       \* wal.log, as the kernel has it
    synced,     \* wal.log, as it was last fsynced
    log,        \* the Log of each process
    floor,      \* the highest number in a table that MANIFEST names
    given,      \* history: the last number that a finished append spent
    faults,     \* history: how many file operations have failed
    crashes     \* history: how many processes were killed, and power failures

logVars    == <<file, synced, log, floor, given>>
faultVars  == <<faults, crashes>>
lockedVars == <<lockVars, logVars, faultVars>>

Header(frame) == [frame |-> frame]
Broken        == Header(<<>>)

\* Log.f's cursor, Log.size, Log.nextSeq; what is known of the file's valid end
\* while it is being opened; the frame being appended; the highest number in the
\* memtable; whether the session can only be closed.
NoLog == [at |-> "none", cursor |-> 0, size |-> 0, seq |-> 0, end |-> 0,
          frame |-> <<>>, mem |-> 0, closing |-> FALSE]

LogIsOpen(p) == log[p].at \notin {"none", "closed"}
Finished(p)  == ~LogIsOpen(p)

LockedInit ==
    /\ LockInit
    /\ file = <<>> /\ synced = <<>> /\ floor = 0 /\ given = 0
    /\ log = [p \in Procs |-> NoLog]
    /\ faults = 0 /\ crashes = 0

-----------------------------------------------------------------------------
(* The file.                                                                 *)

\* scanValidPrefix and ReplayContext: whether a whole frame starts after i cells.
ReadableAt(f, i) ==
    /\ i < Len(f)
    /\ "frame" \in DOMAIN f[i + 1]
    /\ LET payload == f[i + 1].frame
       IN  /\ payload # <<>>
           /\ i + 1 + Len(payload) =< Len(f)
           /\ SubSeq(f, i + 2, i + 1 + Len(payload)) = payload

NextFrame(f, i) == i + 1 + Len(f[i + 1].frame)

\* The frames up to the first that is cut short or fails its checksum.
Scan(f) ==
    LET from[i \in 0 .. Len(f)] ==
            IF ReadableAt(f, i) THEN <<f[i + 1].frame>> \o from[NextFrame(f, i)] ELSE <<>>
    IN  from[0]

\* Where they end.
ValidEnd(f) ==
    LET end[i \in 0 .. Len(f)] ==
            IF ReadableAt(f, i) THEN end[NextFrame(f, i)] ELSE i
    IN  end[0]

LastIn(frames) == HighestSeq({r.seq : r \in FrameRecords(ToSet(frames))})
Resize(f, n)   == [i \in 1 .. n |-> IF i =< Len(f) THEN f[i] ELSE Broken]

\* A write at the cursor; behind the end of the file it leaves a hole.
WriteAt(f, cursor, cells) ==
    [i \in 1 .. Larger(Len(f), cursor + Len(cells)) |->
        IF i \in cursor + 1 .. cursor + Len(cells) THEN cells[i - cursor]
        ELSE IF i =< Len(f) THEN f[i] ELSE Broken]

Fault == faults < MaxFaults /\ faults' = faults + 1

-----------------------------------------------------------------------------
(* Opening and closing, by the process that has the lock.                    *)

At(p, where) == step[p] = "held" /\ log[p].at = where

\* wal.Open: the size, the scan.  Bound: a session whose lock was stolen and the
\* thief do not write one log together; nothing is said of what comes of that.
OpenLog(p) ==
    /\ At(p, "none")
    /\ aged => \A q \in Procs : ~LogIsOpen(q)
    /\ log' = [log EXCEPT ![p] = [NoLog EXCEPT
                   !.at = "scanned", !.size = Len(file), !.end = ValidEnd(file),
                   !.seq = LastIn(Scan(file))]]
    /\ UNCHANGED <<file, synced, floor, given, faults>>

\* The rest of recoverTail, and DB.Open's SetNextSeq.
CutTail(p) ==
    LET end == log[p].end IN
    /\ At(p, "scanned")
    /\ file' = IF end < log[p].size THEN Resize(file, end) ELSE file
    /\ log' = [log EXCEPT ![p].at = "opened", ![p].size = end, ![p].cursor = Len(file'),
                          ![p].seq = Larger(@, floor)]
    /\ given' = Larger(log[p].seq, floor)
    /\ UNCHANGED <<synced, floor, faults>>

\* Mutant of Replay: the cursor stays where replaying began.
ReplayFromStart(p) ==
    /\ At(p, "opened")
    /\ log' = [log EXCEPT ![p].at = "ready", ![p].cursor = 0, ![p].mem = LastIn(Scan(file))]
    /\ UNCHANGED <<file, synced, floor, given, faults>>

\* ReplayContext moves the cursor to the start and, at its end, to Log.size.
Replay(p) ==
    /\ At(p, "opened")
    /\ log' = [log EXCEPT ![p].at = "ready", ![p].cursor = log[p].size,
                          ![p].mem = LastIn(Scan(file))]
    /\ UNCHANGED <<file, synced, floor, given, faults>>

\* The context is cancelled before some frame: the cursor stays at the start, and
\* the session, which is then closed, has the frames before that one.
ReplayFails(p) ==
    /\ At(p, "opened")
    /\ Fault
    /\ \E n \in {0} \cup 1 .. Len(Scan(file)) - 1 :
           log' = [log EXCEPT ![p].at = "ready", ![p].cursor = 0, ![p].closing = TRUE,
                              ![p].mem = LastIn(SubSeq(Scan(file), 1, n))]
    /\ UNCHANGED <<file, synced, floor, given>>

\* Log.Close, from DB.Close or after a failure of DB.Open; its fsync may fail.
CloseLog(p) ==
    /\ At(p, "opened") \/ At(p, "ready")
    /\ \/ synced' = file /\ UNCHANGED faults
       \/ Fault /\ UNCHANGED synced
    /\ log' = [log EXCEPT ![p] = [NoLog EXCEPT !.at = "closed"]]
    /\ UNCHANGED <<file, floor, given>>

-----------------------------------------------------------------------------
(* Appending: writeFrame and maybeSyncLocked.                                *)

NewFrameOf(p, ops) ==
    [i \in DOMAIN ops |-> [key |-> ops[i].key, seq |-> log[p].seq + i, val |-> ops[i].val]]

MayAppend(p, ops) ==
    /\ At(p, "ready")
    /\ ~log[p].closing
    /\ log[p].seq + Len(ops) =< MaxSeq

WriteHeader(p, ops) ==
    /\ MayAppend(p, ops)
    /\ file' = WriteAt(file, log[p].cursor, <<Header(NewFrameOf(p, ops))>>)
    /\ log' = [log EXCEPT ![p].at = "payload", ![p].frame = NewFrameOf(p, ops),
                          ![p].cursor = @ + 1, ![p].seq = @ + Len(ops)]
    /\ UNCHANGED <<synced, floor, given, faults>>

\* Nothing of the header was written, or a part of it.
WriteHeaderFails(p, ops) ==
    /\ MayAppend(p, ops)
    /\ Fault
    /\ \E cells \in {<<>>, <<Broken>>} :
        /\ file' = WriteAt(file, log[p].cursor, cells)
        /\ log' = [log EXCEPT ![p].cursor = @ + Len(cells), ![p].seq = @ + Len(ops)]
    /\ given' = log[p].seq + Len(ops)
    /\ UNCHANGED <<synced, floor>>

WritePayload(p) ==
    /\ At(p, "payload")
    /\ file' = WriteAt(file, log[p].cursor, log[p].frame)
    /\ log' = [log EXCEPT ![p].at = "sync", ![p].cursor = @ + Len(log[p].frame),
                          ![p].size = @ + 1 + Len(log[p].frame)]
    /\ given' = log[p].seq
    /\ UNCHANGED <<synced, floor, faults>>

\* Mutant of WritePayloadFails: the cursor is taken back by the whole frame.
WritePayloadTakenBack(p) ==
    /\ At(p, "payload")
    /\ Fault
    /\ \E n \in 0 .. Len(log[p].frame) - 1 :
        /\ file' = WriteAt(file, log[p].cursor, SubSeq(log[p].frame, 1, n))
        /\ log' = [log EXCEPT ![p].at = "ready", ![p].frame = <<>>,
                              ![p].cursor = @ + n - 1 - Len(log[p].frame)]
    /\ given' = log[p].seq
    /\ UNCHANGED <<synced, floor>>

\* A part of the payload is in the file; Log.size does not count the frame.
WritePayloadFails(p) ==
    /\ At(p, "payload")
    /\ Fault
    /\ \E n \in 0 .. Len(log[p].frame) - 1 :
        /\ file' = WriteAt(file, log[p].cursor, SubSeq(log[p].frame, 1, n))
        /\ log' = [log EXCEPT ![p].at = "ready", ![p].cursor = @ + n, ![p].frame = <<>>]
    /\ given' = log[p].seq
    /\ UNCHANGED <<synced, floor>>

\* fsync; on success DB applies the frame to the memtable.
SyncAppend(p) ==
    /\ At(p, "sync")
    /\ \/ /\ synced' = file
          /\ log' = [log EXCEPT ![p].at = "ready", ![p].frame = <<>>,
                                ![p].mem = LastSeq(log[p].frame)]
          /\ UNCHANGED faults
       \/ /\ Fault
          /\ log' = [log EXCEPT ![p].at = "ready", ![p].frame = <<>>]
          /\ UNCHANGED synced
    /\ UNCHANGED <<file, floor, given>>

-----------------------------------------------------------------------------
(* Reset, once the memtable is in a table that MANIFEST names and is emptied.  *)

\* Mutant of ResetLog: the cursor is not moved.
ResetLogInPlace(p) ==
    /\ At(p, "ready")
    /\ log[p].mem > 0
    /\ file' = <<>>
    /\ floor' = Larger(floor, log[p].mem)
    /\ log' = [log EXCEPT ![p].at = "reset", ![p].mem = 0, ![p].size = 0]
    /\ UNCHANGED <<synced, given, faults>>

ResetLog(p) ==
    /\ At(p, "ready")
    /\ log[p].mem > 0
    /\ file' = <<>>
    /\ floor' = Larger(floor, log[p].mem)
    /\ log' = [log EXCEPT ![p].at = "reset", ![p].mem = 0, ![p].size = 0,
                          ![p].cursor = 0]
    /\ UNCHANGED <<synced, given, faults>>

SyncReset(p) ==
    /\ At(p, "reset")
    /\ \/ synced' = file /\ UNCHANGED faults
       \/ Fault /\ UNCHANGED synced
    /\ log' = [log EXCEPT ![p].at = "ready"]
    /\ UNCHANGED <<file, floor, given>>

-----------------------------------------------------------------------------
(* Crashes.                                                                  *)

\* A frame whose payload is missing has spent its numbers.
Kill(p) ==
    /\ crashes < MaxCrashes /\ crashes' = crashes + 1
    /\ KillProcess(p)
    /\ log' = [log EXCEPT ![p] = NoLog]
    /\ given' = IF log[p].at = "payload" THEN log[p].seq ELSE given
    /\ UNCHANGED <<aged, file, synced, floor, faults>>

\* What may be left of the file: what was fsynced, or what has been written
\* since, of any length and with any of its blocks missing.
Images ==
    LET kept == Len(LongestCommonPrefix({synced, file}))
    IN  {synced} \cup
        {[i \in 1 .. n |-> IF i \in holes THEN Broken ELSE file[i]] :
            n \in kept .. Len(file), holes \in SUBSET (kept + 1 .. Len(file))}

\* LOCK was fsynced and its directory was not: it may be gone.
PowerLoss ==
    /\ crashes < MaxCrashes /\ crashes' = crashes + 1
    /\ step' = [p \in Procs |-> "out"]
    /\ log' = [p \in Procs |-> NoLog]
    /\ lockFile' \in {Absent} \cup
           (IF lockFile.there THEN {[lockFile EXCEPT !.orphan = TRUE]} ELSE {})
    /\ \E image \in Images : file' = image /\ synced' = image
    /\ UNCHANGED <<aged, floor, given, faults>>

-----------------------------------------------------------------------------
(* DB.Open takes the lock before the log, DB.Close gives it back after it.   *)

Attempt(p) == Acquire(p) /\ UNCHANGED <<aged, logVars, faultVars>>

Acquiring(p) ==
    /\ TryCreate(p) \/ Stat(p) \/ RemoveStale(p) \/ Recreate(p) \/ WriteContent(p)
    /\ UNCHANGED <<aged, logVars, faultVars>>

AcquireFails(p) ==
    WriteContentFails(p) /\ Fault /\ UNCHANGED <<aged, logVars, crashes>>

GiveBack(p) ==
    /\ Finished(p)
    /\ Release(p)
    /\ log' = [log EXCEPT ![p] = NoLog]
    /\ UNCHANGED <<aged, file, synced, floor, given, faultVars>>

TimePasses == Age /\ UNCHANGED <<logVars, faultVars>>

LogStep(p) ==
    /\ \/ OpenLog(p) \/ CutTail(p) \/ Replay(p) \/ ReplayFails(p) \/ CloseLog(p)
       \/ \E ops \in Batches : WriteHeader(p, ops) \/ WriteHeaderFails(p, ops)
       \/ WritePayload(p) \/ WritePayloadFails(p) \/ SyncAppend(p)
       \/ ResetLog(p) \/ SyncReset(p)
    /\ UNCHANGED <<lockVars, crashes>>

LockedNext ==
    \/ \E p \in Procs : Attempt(p) \/ Acquiring(p) \/ AcquireFails(p) \/ GiveBack(p)
                        \/ LogStep(p) \/ Kill(p)
    \/ TimePasses
    \/ PowerLoss

LockedSpec == LockedInit /\ [][LockedNext]_lockedVars

\* Applications keep calling Open, an Open in progress goes on, time passes.
RetriesFair ==
    /\ \A p \in Procs : WF_lockedVars(Attempt(p)) /\ WF_lockedVars(Acquiring(p))
    /\ WF_lockedVars(TimePasses)

FairLockedSpec == LockedSpec /\ RetriesFair

-----------------------------------------------------------------------------
\* Every variable has its type; a cursor, a size or a valid end never falls below
\* the start of the file, whichever write or truncation breaks off.
LockedTypeOK ==
    /\ LockTypeOK
    /\ \A c \in ToSet(file) \cup ToSet(synced) :
           \/ "frame" \in DOMAIN c /\ c.frame \in Seq(Record)
           \/ c \in Record
    /\ {floor, given, faults, crashes} \subseteq Nat
    /\ \A p \in Procs : {log[p].cursor, log[p].size, log[p].seq, log[p].end} \subseteq Nat

\* A log at rest appends at the end of the file, whatever was recovered, cut off,
\* replayed, reset or broken off before; and unless a broken frame is in the file
\* its size is the file's, so that a Replay would put the cursor there too.
OffsetsAgree ==
    \A p \in Procs :
        log[p].at = "ready" /\ ~log[p].closing =>
            /\ log[p].cursor = Len(file)
            /\ log[p].size = Len(file) \/ ValidEnd(file) < Len(file)

-----------------------------------------------------------------------------
(* The file-level log implements WAL.                                        *)

\* A header whose payload is about to be written is not there yet.
Settled == IF \E p \in Procs : log[p].at = "payload" /\ file # <<>> THEN Front(file) ELSE file

Frames  == Scan(file)
Torn    == ValidEnd(file) < Len(Settled)
Durable == Scan(synced)

W == INSTANCE WAL WITH
         frames <- Frames, torn <- Torn, durable <- Durable, nextSeq <- given,
         appends <- 0, SyncPolicy <- "SyncFull", SyncEveryN <- 1

WALStep ==
    \/ \E ops \in Batches : W!AppendFrame(ops) \/ W!AppendNothing(ops) \/ W!AppendTorn(ops)
    \/ W!Fsync /\ UNCHANGED <<Frames, Torn, given>>
    \/ W!ResetLogUnsynced /\ UNCHANGED given
    \/ W!LosePower
    \/ W!RecoverLog(floor) /\ UNCHANGED Durable

\* Every step of every session changes what the scan finds in the file, and would
\* find on the disk, as one of WAL's operations does: a crash between header and
\* payload is a torn append, frames behind a torn one stay hidden, no recovery
\* lets a byte of it through, and no second session writes in between.
ImplementsWAL == [][WALStep]_<<Frames, Torn, Durable, given>>

Orphaned == lockFile.there /\ lockFile.orphan

\* The lock of a process that died does not keep the directory closed for good,
\* even if those that recover it die in their turn.
StaleGoes == Orphaned ~> ~Orphaned
=============================================================================
