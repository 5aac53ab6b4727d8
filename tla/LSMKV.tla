-------------------------------- MODULE LSMKV -------------------------------
(***************************************************************************)
(* lsmkv.DB: one database directory and the process that has it open.      *)
(*                                                                         *)
(* Put, Delete, Write, Flush, Compact and Close each run under db.mu from  *)
(* their first line to their last, so they never interleave with each      *)
(* other or with a reader.  What does interleave with them is the death of *)
(* the process or of the machine, and the failure of a file operation: an  *)
(* operation is therefore cut into one action per change of a file, "pc"   *)
(* saying how far it is, and the lock is free when pc = "idle".            *)
(*                                                                         *)
(* Get and the iterators change nothing: they are the operators GetResult  *)
(* and IterView over the state.                                            *)
(***************************************************************************)
EXTENDS WAL, Manifest

CONSTANTS
    Batches,            \* what a WriteBatch may hold: sequences of [key, val]
    EmptyKey,           \* the key of no bytes, which Put and Delete reject; one of
                        \* Keys only where a WriteBatch is to have it
    MemtableBytes,      \* Options.MemtableBytes, in the units of MemBytes
    CompactThreshold,   \* Options.CompactThreshold
    Faults,             \* the file operations that may fail
    MaxSeq,             \* bound: sequence numbers given out
    MaxCrashes,         \* bound: processes killed and power failures
    MaxFaults,          \* bound: file operations that fail
    MaxFiles            \* bound: file numbers, while a nil key makes every flush fail

FaultKinds == {"walWrite", "walTorn", "walSync", "walReset", "walResetSync", "alloc",
               "sstWrite", "addFile", "sstOpen", "blockRead", "outOpen", "replace", "cancel"}

ASSUME LSMKVAssumption ==
    /\ Batches \subseteq Seq([key : Keys, val : Contents])
    /\ \A b \in Batches : b # <<>>
    /\ MemtableBytes \in Nat \ {0}
    /\ CompactThreshold \in Nat \ {0}
    /\ Faults \subseteq FaultKinds
    /\ MaxSeq \in Nat /\ MaxCrashes \in Nat /\ MaxFaults \in Nat /\ MaxFiles \in Nat

VARIABLES
    files,      \* the SSTables in the directory: file number -> [complete, data]
    pc,         \* how far the operation that holds db.mu is
    mem,        \* DB.mem
    nilKey,     \* the slice its node for EmptyKey has is nil, not one of length 0
    tables,     \* DB.tables: the numbers of the files it has readers for
    closed,     \* those of them whose Reader has been closed
    readOnly,   \* Options.ReadOnly of this session
    closing,    \* which closeUnlocked the flush is a part of
    inputs,     \* the tables being merged
    pending,    \* the frame being written, not in the memtable yet
    replayed,   \* how many frames ReplayContext has delivered
    crashes, faults,    \* counted against MaxCrashes and MaxFaults
    \* History: not in the program.
    hist,       \* the frames of the writes that took effect
    stable      \* every write up to this number was promised to be on disk

volatile == <<mem, nilKey, tables, closed, readOnly, closing, inputs, pending, replayed>>
dbVars   == <<files, pc, volatile>>
ghosts   == <<hist, stable>>
bounds   == <<crashes, faults>>
vars     == <<walVars, mfVars, dbVars, ghosts, bounds>>

SSTFile == [complete : BOOLEAN, data : Table]

PCs == {"down", "replay", "idle", "sync",
        "flushAlloc", "flushCreate", "flushFinish", "flushAdd", "flushOpen", "flushReset",
        "mergeAlloc", "mergeCreate", "mergeFinish", "mergeOpen", "mergeReplace", "mergeRemove",
        "closing"}

FilesTypeOK ==
    /\ DOMAIN files \subseteq Nat
    /\ \A n \in DOMAIN files : files[n] \in SSTFile

SessionTypeOK ==
    /\ pc \in PCs
    /\ mem \in Table /\ nilKey \in BOOLEAN
    /\ tables \subseteq Nat /\ closed \subseteq Nat /\ inputs \subseteq Nat
    /\ readOnly \in BOOLEAN
    /\ closing \in {"no", "close", "failed", "abort"}
    /\ pending \in Frame \cup {<<>>}
    /\ replayed \in Nat

GhostTypeOK ==
    /\ crashes \in Nat /\ faults \in Nat
    /\ hist \subseteq Frame
    /\ stable \in Nat

TypeOK == WALTypeOK /\ ManifestTypeOK /\ FilesTypeOK /\ SessionTypeOK /\ GhostTypeOK

-----------------------------------------------------------------------------
(* Reading.                                                                  *)

DataOf(ns) == {files[n].data : n \in ns}

\* Mutant of GetResult: the first table found, from the newest file down, answers.
GetResultFirstFound(k) ==
    LET holding == {n \in tables : Holds(files[n].data, k)}
    IN  IF Holds(mem, k) \/ holding = {} THEN mem[k].val ELSE files[Max(holding)].data[k].val

\* The memtable answers alone for a key it holds, tombstones included; otherwise
\* every table is asked.  A table whose Reader is closed fails the Get of a key
\* that is in it, and says "not found" at once for most others (its bloom filter).
GetFails(k)  == ~Holds(mem, k) /\ \E n \in tables \cap closed : Holds(files[n].data, k)
GetResult(k) ==
    IF Holds(mem, k) THEN mem[k].val ELSE MergeTables(DataOf(tables))[k].val

\* collectMerged: the newest version of each key among the memtable and the
\* tables.  The iterator of a closed Reader is empty, and its error not looked at.
IterView == Visible(MergeTables({mem} \cup DataOf(tables \ closed)))

-----------------------------------------------------------------------------
(* The history the properties are stated over.                               *)

\* What the writes of fs, in the order of their numbers, leave behind.
HistView(fs) == Visible(TableOf(FrameRecords(fs)))
HistSeq      == HighestSeq({LastSeq(f) : f \in hist})

\* The highest number that is in the log, when it holds the frames fs, or in a
\* table that MANIFEST names: what is on the disk, whatever Open makes of it.
TableSeqs          == UNION {{t[k].seq : k \in Keys} : t \in DataOf(FileNos(mfDisk))}
RecoverableSeq(fs) == HighestSeq(SeqsIn(fs) \cup TableSeqs)

\* The writes that then took effect: those up to that number, and whatever the
\* log holds, which may include a write whose caller was told it had failed.
RecoveredHist(fs) ==
    LET top == RecoverableSeq(fs) IN {f \in hist : LastSeq(f) =< top} \cup ToSet(fs)

\* What the database then contains.
RecoveredView(fs) ==
    Visible(MergeTables({TableOf(FrameRecords(ToSet(fs)))} \cup DataOf(FileNos(mfDisk))))

-----------------------------------------------------------------------------
\* A memtable that can be flushed, or a flush that may be tried within the bound.
MayFlush == ~nilKey \/ mf.nextFile < MaxFiles

Fault(kind) == kind \in Faults /\ faults < MaxFaults /\ faults' = faults + 1

Init ==
    /\ WALInit /\ ManifestInit
    /\ files = [n \in {} |-> [complete |-> FALSE, data |-> EmptyTable]]
    /\ pc = "down"
    /\ mem = EmptyTable /\ nilKey = FALSE
    /\ tables = {} /\ closed = {} /\ inputs = {}
    /\ readOnly = FALSE
    /\ closing = "no"
    /\ pending = <<>>
    /\ replayed = 0
    /\ crashes = 0 /\ faults = 0
    /\ hist = {}
    /\ stable = 0

-----------------------------------------------------------------------------
(* Opening.                                                                  *)

Readable(n) == n \in DOMAIN files /\ files[n].complete

\* OpenContext up to openTables: the manifest and the log are read, the torn
\* tail is cut off, and every file the manifest names must open.
Open(ro) ==
    /\ pc = "down"
    /\ \A n \in FileNos(mfDisk) : Readable(n)
    /\ mf' = mfDisk
    /\ RecoverLog(SeqFloor(mfDisk))
    /\ pc' = "replay"
    /\ tables' = FileNos(mfDisk)
    /\ readOnly' = ro
    /\ hist' = RecoveredHist(frames)
    /\ UNCHANGED <<durable, mfDisk, files, mem, nilKey, closed, closing, inputs, pending,
                   replayed, stable, bounds>>

\* A file of the manifest is missing or unreadable.  The torn tail is gone all
\* the same, and wal.Close fsyncs what is left.
OpenFails ==
    /\ pc = "down"
    /\ \/ UNCHANGED faults /\ \E n \in FileNos(mfDisk) : ~Readable(n)
       \/ Fault("sstOpen") /\ FileNos(mfDisk) # {}
    /\ RecoverLog(SeqFloor(mfDisk))
    /\ Fsync
    /\ UNCHANGED <<mfVars, dbVars, ghosts, crashes>>

\* The frame is the first that has EmptyKey since Clear.  compareKey knows no
\* difference between nil and a slice of length 0, and set keeps the key of the
\* node it finds, so that the first one stays.
BringsEmptyKey(f) == EmptyKey \notin KeysIn(mem) /\ \E i \in DOMAIN f : f[i].key = EmptyKey

\* Mutant of ReplayFrame: the loop does not move on.
ReplayFrameAgain ==
    /\ pc = "replay"
    /\ replayed < Len(frames)
    /\ mem' = MemApply(mem, frames[replayed + 1])
    /\ nilKey' = (nilKey \/ BringsEmptyKey(frames[replayed + 1]))
    /\ UNCHANGED <<walVars, mfVars, files, pc, tables, closed, readOnly, closing, inputs, pending,
                   replayed, ghosts, bounds>>

\* One turn of the loop of ReplayContext.  What decodeOne and decodeBatch make of
\* a key of no bytes is nil, whatever the slice it was written from.
ReplayFrame ==
    /\ pc = "replay"
    /\ replayed < Len(frames)
    /\ mem' = MemApply(mem, frames[replayed + 1])
    /\ nilKey' = (nilKey \/ BringsEmptyKey(frames[replayed + 1]))
    /\ replayed' = replayed + 1
    /\ UNCHANGED <<walVars, mfVars, files, pc, tables, closed, readOnly, closing, inputs, pending,
                   ghosts, bounds>>

ReplayDone ==
    /\ pc = "replay"
    /\ replayed = Len(frames)
    /\ pc' = "idle"
    /\ replayed' = 0
    /\ UNCHANGED <<walVars, mfVars, files, mem, nilKey, tables, closed, readOnly, closing, inputs,
                   pending, ghosts, bounds>>

\* Mutant of StartClose: a read-only session flushes what it replayed.
StartCloseFlushing(why) ==
    /\ closing' = why
    /\ pc' = IF KeysIn(mem) # {} THEN "flushAlloc" ELSE "closing"

\* closeUnlocked: the memtable is flushed, unless the session is read-only.
StartClose(why) ==
    /\ closing' = why
    /\ pc' = IF ~readOnly /\ KeysIn(mem) # {} THEN "flushAlloc" ELSE "closing"

\* The context given to OpenContext is cancelled; ReplayContext looks at it on
\* entry and before each frame.
ReplayCancelled ==
    /\ pc = "replay"
    /\ replayed = 0 \/ replayed < Len(frames)
    /\ Fault("cancel")
    /\ StartClose("abort")
    /\ replayed' = 0
    /\ UNCHANGED <<walVars, mfVars, files, mem, nilKey, tables, closed, readOnly, inputs, pending,
                   ghosts, crashes>>

-----------------------------------------------------------------------------
(* Writing.                                                                  *)

CanWrite(ops) == pc = "idle" /\ ~readOnly /\ nextSeq + Len(ops) =< MaxSeq /\ MayFlush

BeginWrite(ops) ==
    /\ CanWrite(ops)
    /\ AppendFrame(ops)
    /\ pending' = NewFrame(ops)
    /\ pc' = "sync"
    /\ UNCHANGED <<mfVars, files, mem, nilKey, tables, closed, readOnly, closing, inputs,
                   replayed, ghosts, bounds>>

\* The append fails and so does the operation; the memtable is untouched.
WriteFails(ops) ==
    /\ CanWrite(ops)
    /\ \/ Fault("walWrite") /\ AppendNothing(ops)
       \/ Fault("walTorn") /\ AppendTorn(ops)
    /\ UNCHANGED <<mfVars, dbVars, ghosts, crashes>>

\* Put and Delete look at the key; Write does not look at those of its batch.
Put(k, v)     == k # EmptyKey /\ BeginWrite(<<[key |-> k, val |-> v]>>)
Delete(k)     == k # EmptyKey /\ BeginWrite(<<[key |-> k, val |-> Tombstone]>>)
WriteBatch(b) == BeginWrite(b)

ShouldFlush(t) == MemBytes(t) >= MemtableBytes

\* The fsync the policy asks for, the memtable, and the flush if it is full.
\* Under SyncFull every write that succeeds is promised to be on disk.  A batch
\* has its EmptyKey as its caller gave it, nil or not.
FinishWrite ==
    /\ pc = "sync"
    /\ IF SyncDue(appends) THEN Fsync ELSE UNCHANGED durable
    /\ stable' = IF SyncPolicy = "SyncFull" THEN Larger(stable, LastSeq(pending)) ELSE stable
    /\ mem' = MemApply(mem, pending)
    /\ nilKey' \in {nilKey, nilKey \/ BringsEmptyKey(pending)}
    /\ hist' = hist \cup {pending}
    /\ pending' = <<>>
    /\ pc' = IF ShouldFlush(mem') THEN "flushAlloc" ELSE "idle"
    /\ UNCHANGED <<frames, torn, nextSeq, appends, mfVars, files, tables, closed, readOnly,
                   closing, inputs, replayed, bounds>>

\* The fsync fails: the operation reports it, and leaves its frame in the log.
SyncFails ==
    /\ pc = "sync"
    /\ SyncDue(appends)
    /\ Fault("walSync")
    /\ pending' = <<>>
    /\ pc' = "idle"
    /\ UNCHANGED <<walVars, mfVars, files, mem, nilKey, tables, closed, readOnly, closing, inputs,
                   replayed, ghosts, crashes>>

\* DB.Sync, which a read-only session may call too.
Sync ==
    /\ pc = "idle"
    /\ Fsync
    /\ stable' = Larger(stable, HistSeq)
    /\ UNCHANGED <<frames, torn, nextSeq, appends, mfVars, dbVars, hist, bounds>>

-----------------------------------------------------------------------------
(* Flushing: flushLocked.                                                    *)

WriteTo(n, complete, data) ==
    files' = [m \in DOMAIN files \cup {n} |->
                IF m = n THEN [complete |-> complete, data |-> data] ELSE files[m]]
RemoveFiles(ns) == files' = [m \in DOMAIN files \ ns |-> files[m]]

MetaOf(n, level, data) == [no |-> n, level |-> level, maxSeq |-> MaxSeqOf(data)]

\* An error ends the flush.  Put, Write and Flush return it; closeUnlocked
\* remembers it and goes on.
FlushFails ==
    /\ pc' = IF closing = "no" THEN "idle" ELSE "closing"
    /\ closing' = IF closing = "close" THEN "failed" ELSE closing

Flush ==
    /\ pc = "idle"
    /\ ~readOnly
    /\ KeysIn(mem) # {}
    /\ MayFlush
    /\ pc' = "flushAlloc"
    /\ UNCHANGED <<walVars, mfVars, files, volatile, ghosts, bounds>>

FlushAlloc ==
    /\ pc = "flushAlloc"
    /\ \/ Update(Alloc(mf)) /\ pc' = "flushCreate" /\ UNCHANGED <<closing, faults>>
       \/ Fault("alloc") /\ UpdateUnsaved(Alloc(mf)) /\ FlushFails
    /\ UNCHANGED <<walVars, files, mem, nilKey, tables, closed, readOnly, inputs, pending,
                   replayed, ghosts, crashes>>

FlushCreate ==
    /\ pc = "flushCreate"
    /\ WriteTo(LastAllocated, FALSE, EmptyTable)
    /\ pc' = "flushFinish"
    /\ UNCHANGED <<walVars, mfVars, volatile, ghosts, bounds>>

\* Mutant of FlushFinish: Add passes over a nil key without an error.
FlushFinishSkipping ==
    /\ pc = "flushFinish"
    /\ WriteTo(LastAllocated, TRUE,
               IF nilKey THEN [mem EXCEPT ![EmptyKey] = NoVersion] ELSE mem)
    /\ pc' = "flushAdd"
    /\ UNCHANGED <<walVars, mfVars, mem, nilKey, tables, closed, readOnly, closing, inputs,
                   pending, replayed, ghosts, bounds>>

\* WriteFile: if Add fails the file is removed, if Finish and its fsync do it is
\* left behind.  Add refuses a nil key, the first of the entries, and takes one
\* of length 0.
FlushFinish ==
    /\ pc = "flushFinish"
    /\ \/ /\ ~nilKey
          /\ WriteTo(LastAllocated, TRUE, mem)
          /\ pc' = "flushAdd"
          /\ UNCHANGED <<closing, faults>>
       \/ nilKey /\ RemoveFiles({LastAllocated}) /\ FlushFails /\ UNCHANGED faults
       \/ ~nilKey /\ Fault("sstWrite") /\ RemoveFiles({LastAllocated}) /\ FlushFails
       \/ ~nilKey /\ Fault("sstWrite") /\ UNCHANGED files /\ FlushFails
    /\ UNCHANGED <<walVars, mfVars, mem, nilKey, tables, closed, readOnly, inputs, pending,
                   replayed, ghosts, crashes>>

\* If AddFile fails the table is removed again.
FlushAdd ==
    /\ pc = "flushAdd"
    /\ LET added == AddFile(mf, MetaOf(LastAllocated, 0, mem))
       IN  \/ Update(added) /\ pc' = "flushOpen" /\ UNCHANGED <<files, closing, faults>>
           \/ Fault("addFile") /\ UpdateUnsaved(added) /\ RemoveFiles({LastAllocated}) /\ FlushFails
    /\ UNCHANGED <<walVars, mem, nilKey, tables, closed, readOnly, inputs, pending, replayed,
                   ghosts, crashes>>

FlushOpen ==
    /\ pc = "flushOpen"
    /\ \/ /\ tables' = tables \cup {LastAllocated}
          /\ mem' = EmptyTable /\ nilKey' = FALSE
          /\ pc' = "flushReset"
          /\ UNCHANGED <<closing, faults>>
       \/ Fault("sstOpen") /\ FlushFails /\ UNCHANGED <<tables, mem, nilKey>>
    /\ UNCHANGED <<walVars, mfVars, files, closed, readOnly, inputs, pending, replayed,
                   ghosts, crashes>>

\* A flush that Put, Write or Flush reports as done promises the whole history.
FlushReset ==
    /\ pc = "flushReset"
    /\ \/ /\ ResetLog
          /\ nextSeq' = Larger(nextSeq, MaxSeqOf(files[LastAllocated].data))
          /\ pc' = IF closing = "no" THEN "idle" ELSE "closing"
          /\ stable' = IF closing = "no" THEN Larger(stable, HistSeq) ELSE stable
          /\ UNCHANGED <<closing, faults>>
       \/ Fault("walReset") /\ FlushFails /\ UNCHANGED <<walVars, stable>>
       \/ Fault("walResetSync") /\ FlushFails /\ ResetLogUnsynced /\ UNCHANGED <<nextSeq, stable>>
    /\ UNCHANGED <<mfVars, files, mem, nilKey, tables, closed, readOnly, inputs, pending,
                   replayed, hist, crashes>>

-----------------------------------------------------------------------------
(* Compacting: Compact, CompactDir and MergeFiles.                           *)

\* PlanLevel0 with its threshold of two, or the two oldest tables.
Planned ==
    LET level0 == {n \in tables : LevelOf(n) = 0}
    IN  IF Cardinality(level0) >= 2
          THEN level0
          ELSE {n \in tables : Cardinality({m \in tables : m < n}) < 2}

Compact ==
    /\ pc = "idle"
    /\ ~readOnly
    /\ Cardinality(tables) >= CompactThreshold
    /\ Cardinality(tables) >= 2
    /\ inputs' = Planned
    /\ pc' = "mergeAlloc"
    /\ UNCHANGED <<walVars, mfVars, files, mem, nilKey, tables, closed, readOnly, closing,
                   pending, replayed, ghosts, bounds>>

MergeFails == pc' = "idle" /\ inputs' = {}

MergeAlloc ==
    /\ pc = "mergeAlloc"
    /\ \/ Update(Alloc(mf)) /\ pc' = "mergeCreate" /\ UNCHANGED <<inputs, faults>>
       \/ Fault("alloc") /\ UpdateUnsaved(Alloc(mf)) /\ MergeFails
    /\ UNCHANGED <<walVars, files, mem, nilKey, tables, closed, readOnly, closing, pending,
                   replayed, ghosts, crashes>>

\* The inputs are opened anew, by path, and the output is created.
MergeCreate ==
    /\ pc = "mergeCreate"
    /\ \/ /\ \A n \in inputs : Readable(n)
          /\ WriteTo(LastAllocated, FALSE, EmptyTable)
          /\ pc' = "mergeFinish"
          /\ UNCHANGED <<inputs, faults>>
       \/ Fault("sstOpen") /\ MergeFails /\ UNCHANGED files
    /\ UNCHANGED <<walVars, mfVars, mem, nilKey, tables, closed, readOnly, closing, pending,
                   replayed, ghosts, crashes>>

\* An input whose block cannot be read ends there, for the merge as for a
\* reader: the keys of that block and of the blocks after it are not merged.
CutShort(t, lost) == [k \in Keys |-> IF k \in lost THEN NoVersion ELSE t[k]]

MergeFinish ==
    /\ pc = "mergeFinish"
    /\ \/ /\ WriteTo(LastAllocated, TRUE, MergeTables(DataOf(inputs)))
          /\ pc' = "mergeOpen"
          /\ UNCHANGED <<inputs, faults>>
       \/ /\ Fault("blockRead")
          /\ \E n \in inputs, lost \in SUBSET Keys :
                WriteTo(LastAllocated, TRUE,
                        MergeTables(DataOf(inputs \ {n}) \cup {CutShort(files[n].data, lost)}))
          /\ pc' = "mergeOpen"
          /\ UNCHANGED inputs
       \/ Fault("sstWrite") /\ RemoveFiles({LastAllocated}) /\ MergeFails
    /\ UNCHANGED <<walVars, mfVars, mem, nilKey, tables, closed, readOnly, closing, pending,
                   replayed, ghosts, crashes>>

\* Mutant of MergeOpen: when the output cannot be opened, the session lets go of
\* the tables whose readers it has closed.
MergeOpenDropping ==
    /\ pc = "mergeOpen"
    /\ closed' = closed \cup inputs
    /\ \/ pc' = "mergeReplace" /\ UNCHANGED <<tables, inputs, faults>>
       \/ Fault("outOpen") /\ tables' = tables \ inputs /\ MergeFails
    /\ UNCHANGED <<walVars, mfVars, files, mem, nilKey, readOnly, closing, pending, replayed, ghosts,
                   crashes>>

\* The readers of the inputs are closed, then the output is opened.
MergeOpen ==
    /\ pc = "mergeOpen"
    /\ closed' = closed \cup inputs
    /\ \/ pc' = "mergeReplace" /\ UNCHANGED <<inputs, faults>>
       \/ Fault("outOpen") /\ MergeFails
    /\ UNCHANGED <<walVars, mfVars, files, mem, nilKey, tables, readOnly, closing, pending,
                   replayed, ghosts, crashes>>

MergeReplace ==
    /\ pc = "mergeReplace"
    /\ LET replaced == Replace(mf, inputs, MetaOf(LastAllocated, 1, files[LastAllocated].data))
       IN  \/ Update(replaced) /\ pc' = "mergeRemove" /\ UNCHANGED <<inputs, faults>>
           \/ Fault("replace") /\ UpdateUnsaved(replaced) /\ MergeFails
    /\ UNCHANGED <<walVars, files, mem, nilKey, tables, closed, readOnly, closing, pending,
                   replayed, ghosts, crashes>>

MergeRemove ==
    /\ pc = "mergeRemove"
    /\ RemoveFiles(inputs)
    /\ tables' = (tables \ inputs) \cup {LastAllocated}
    /\ closed' = closed \ inputs
    /\ inputs' = {}
    /\ pc' = "idle"
    /\ UNCHANGED <<walVars, mfVars, mem, nilKey, readOnly, closing, pending, replayed, ghosts,
                   bounds>>

-----------------------------------------------------------------------------
(* Closing and crashing.                                                     *)

\* What is left of the session once the process is gone.
Forget ==
    /\ pc' = "down"
    /\ mem' = EmptyTable /\ nilKey' = FALSE
    /\ tables' = {} /\ closed' = {} /\ inputs' = {}
    /\ readOnly' = FALSE
    /\ closing' = "no"
    /\ pending' = <<>>
    /\ replayed' = 0
    /\ mf' = mfDisk

Close ==
    /\ pc = "idle"
    /\ readOnly \/ MayFlush
    /\ StartClose("close")
    /\ UNCHANGED <<walVars, mfVars, files, mem, nilKey, tables, closed, readOnly, inputs, pending,
                   replayed, ghosts, bounds>>

\* wal.Close fsyncs the log; Close promises the history if nothing failed.
FinishClose ==
    /\ pc = "closing"
    /\ \/ /\ Fsync
          /\ stable' = IF closing = "close" THEN Larger(stable, HistSeq) ELSE stable
          /\ UNCHANGED faults
       \/ Fault("walSync") /\ UNCHANGED <<durable, stable>>
    /\ Forget
    /\ UNCHANGED <<frames, torn, nextSeq, appends, mfDisk, files, hist, crashes>>

\* The process dies, the kernel and its page cache stay.
Kill ==
    /\ pc # "down"
    /\ crashes < MaxCrashes
    /\ crashes' = crashes + 1
    /\ Forget
    /\ UNCHANGED <<walVars, mfDisk, files, ghosts, faults>>

PowerLoss ==
    /\ crashes < MaxCrashes
    /\ crashes' = crashes + 1
    /\ LosePower
    /\ Forget
    /\ UNCHANGED <<mfDisk, files, ghosts, faults>>

-----------------------------------------------------------------------------
StartOp ==
    \/ \E ro \in BOOLEAN : Open(ro)
    \/ \E k \in Keys, v \in Vals : Put(k, v)
    \/ \E k \in Keys : Delete(k)
    \/ \E b \in Batches : WriteBatch(b)
    \/ \E b \in Batches : WriteFails(b)
    \/ \E k \in Keys \ {EmptyKey}, v \in Contents : WriteFails(<<[key |-> k, val |-> v]>>)
    \/ OpenFails \/ Sync \/ Flush \/ Compact \/ Close

\* The steps an operation takes once it has the lock.
Continue ==
    \/ ReplayFrame \/ ReplayDone \/ ReplayCancelled
    \/ FinishWrite \/ SyncFails
    \/ FlushAlloc \/ FlushCreate \/ FlushFinish \/ FlushAdd \/ FlushOpen \/ FlushReset
    \/ MergeAlloc \/ MergeCreate \/ MergeFinish \/ MergeOpen \/ MergeReplace \/ MergeRemove
    \/ FinishClose

Crash == Kill \/ PowerLoss

Next == StartOp \/ Continue \/ Crash

Spec == Init /\ [][Next]_vars

\* A goroutine that holds db.mu keeps running while its process lives.
FairSpec == Spec /\ WF_vars(Continue)

-----------------------------------------------------------------------------
(* Properties.                                                               *)

\* Whatever a power failure leaves of the log, in any state, inside any flush,
\* compaction, recovery or Close: an Open finds every write that was promised,
\* and what it then reads is the effect of the writes up to some number, each
\* batch whole, and nothing else.
CrashSafe ==
    \A fs \in Survivors :
        /\ stable =< RecoverableSeq(fs)
        /\ RecoveredView(fs) = HistView(RecoveredHist(fs))

\* The death of the process alone loses no write that took effect, whatever the
\* sync policy: it is in the page cache's log or in a table of the manifest.
KillSafe == pc # "down" => HistSeq =< RecoverableSeq(frames)

\* With no operation under way an iterator shows the newest version of every
\* key ever written, through flushes, compactions, crashes and recoveries.
IteratorAgrees == pc = "idle" => IterView = HistView(hist)

\* So does Get, which takes the memtable's word without comparing numbers.
GetAgrees ==
    pc = "idle" => \A k \in Keys : ~GetFails(k) /\ GetResult(k) = HistView(hist)[k]

\* A merge that fails once it has closed the readers of its inputs leaves them with
\* the session.  Get may fail from then on, but it does not lie: it never answers
\* with an older version, nor that a key is not there which was written, through
\* the writes, flushes and merges that follow.
GetNeverLies ==
    pc = "idle" => \A k \in Keys : GetFails(k) \/ GetResult(k) = HistView(hist)[k]

\* Every table the MANIFEST file names is in the directory, complete and closed
\* to change, so that an Open after a crash at this point succeeds; the same
\* holds for the tables the process reads.
ManifestComplete ==
    /\ \A n \in FileNos(mfDisk) : Readable(n)
    /\ \A n \in tables : Readable(n)

\* Sequence numbers identify versions: wherever the engine holds two versions
\* of a key with the same number, they are the same version.
Stored ==
    (UNION {{[key |-> k, seq |-> t[k].seq, val |-> t[k].val] : k \in KeysIn(t)} :
              t \in {mem} \cup DataOf((FileNos(mfDisk) \cup tables) \cap DOMAIN files)})
        \cup FrameRecords(ToSet(frames) \cup ToSet(durable) \cup hist)
VersionsAgree == \A r, s \in Stored : r.seq = s.seq => r = s

\* SyncBatch: a power failure loses fewer than SyncEveryN writes, and up to
\* SyncEveryN more for every process that was killed since the log was last on
\* the disk: each counts its own appends only.
LossBound ==
    (SyncPolicy = "SyncBatch" /\ pc = "idle")
        => Len(frames) - Len(durable) < SyncEveryN * (1 + crashes)

\* A write is numbered after every write that took effect before it, across
\* restarts: the newest version is the last one written.
CommitOrder ==
    [][\A f \in hist' \ hist : pc = "sync" => \A g \in hist : LastSeq(g) < f[1].seq]_vars

\* A complete table never changes, and disappears only when the MANIFEST file
\* does not name it.
FilesImmutable ==
    [][\A n \in DOMAIN files :
          files[n].complete =>
             IF n \in DOMAIN files'
               THEN files'[n] = files[n]
               ELSE n \notin FileNos(mfDisk)]_vars

\* A read-only session changes nothing on the disk.  (Open cuts a torn tail off
\* before it, Sync and Close may fsync what is already in the log.)
ReadOnlySession ==
    [][readOnly => UNCHANGED <<mfDisk, files>> /\ (pc' # "down" => UNCHANGED frames)]_vars

\* An operation that holds db.mu ends.
OperationsEnd == (pc \notin {"down", "idle"}) ~> (pc \in {"down", "idle"})
=============================================================================
