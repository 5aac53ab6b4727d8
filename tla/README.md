# Formal models of lsmkv

lsmkv is a durable key-value store in one directory: a write-ahead log, a
memtable, immutable SSTables, a MANIFEST that names them, and a LOCK file.
This directory holds TLA+ models of it, the TLC runs that check them on small
instances, and theorems about them that TLAPS proves for every instance.

Paths below are relative to `src/`.  `PROJECT.json` lists the runs, which lines
each definition stands for, the hazards, the findings and the theorems.

## 1. The system

| Component | State it keeps | Operations | Interacts with |
|---|---|---|---|
| `lsmkv.DB` (`lsmkv/*.go`) | memtable, open readers, options, closed flag | Open/OpenContext, Put, Delete, Write, Get, NewIterator, Sync, Flush, Compact, Close | every other one; each call holds `db.mu` from its first line to its last |
| `wal.Log` (`internal/wal`) | `wal.log`, next sequence number, count of appends | Open (+ tail recovery), AppendPut/Delete/Batch, Sync, Reset, SetNextSeq, ReplayContext, Close | called by DB; numbers all versions |
| `manifest.Manifest` (`internal/manifest`) | file list, next file number, LogSeq; in memory and in `MANIFEST` | Open, AllocFileName, AddFile, Replace | called by DB and CompactDir; rename over MANIFEST |
| `memtable.MemTable` (`internal/memtable`) | skip list of the newest version per key, its size | Put, Delete, Get, Snapshot, ShouldFlush, Clear | filled by writes and by replay |
| `sstable` (`internal/sstable`) | a file of sorted blocks; a Reader with index and filter | Create/Add/Finish/WriteFile, Open, Get, iterator, Close | written by flush and merge, read by Get, iterators, merge |
| `compact` (`internal/compact`) | none | PlanLevel0, PickBySize, CompactDir, MergeFiles (+ Context variants) | reads tables, writes one, allocates from the manifest |
| `filelock.Lock` (`internal/filelock`) | the LOCK file, `held` | Acquire, Release | taken by Open, released by Close; the only thing two processes share |
| `bloomx`, `varintx`, `crc32x`, `byteutil` | none worth the name | filters, encodings, checksums, byte helpers | used by sstable, wal, manifest |
| `webui` | none | pages over DB.Stats | reads DB |

What is hard here is not contention inside a process (one mutex serialises all
of it) but everything around it:

* **Crashes.**  A flush is six changes of files, a compaction seven; the process
  or the machine may die between any two, and during recovery.
* **Sync policies.**  What a power failure leaves of the log depends on the
  policy; what may be lost is a promise of its own (`SyncBatch`).
* **Partial failure.**  Any file operation may fail and leave memory, MANIFEST,
  log and directory at different points; the session goes on.
* **Order.**  Compaction gives old versions high file numbers, and recovery puts
  old records over new tables; only sequence numbers say what is newer, and they
  must survive the truncation of the log.
* **Several processes** at the LOCK file, one of which thinks another is dead.

What makes each component correct:

* log: frames are atomic; recovery finds a prefix that includes all that was
  fsynced; numbers grow over the whole life of the directory;
* manifest: it never names a file that is missing or incomplete, and never hands
  out a number that a named file has;
* memtable and readers: the answer for a key is its newest version, wherever its
  versions are; Get and the iterator give the same answer;
* tables: immutable once complete, removed only when nothing names them;
* DB: an atomic, totally ordered map whose promised writes last; operations end;
* lock: one holder, and no leftover of a live or orderly process.

## 2. Modules

| Module | Models | Extends |
|---|---|---|
| `Versions` | keys, versions, tables, frames; newest-version merge (`MergeTables`), the memtable's `MemApply`, its size | community modules |
| `WAL` | `internal/wal`: append, failed and partial append, sync policies, Reset, survivors of a power failure, recovery | `Versions` |
| `Manifest` | `internal/manifest`: allocation, AddFile, Replace, persist and its failure | `Versions` |
| `LSMKV` | `lsmkv.DB` with its log, manifest, memtable, tables and compactor: the composition | `WAL`, `Manifest` |
| `DurableKV` | abstract: a map changed by ordered atomic writes, and crashes that undo a suffix | `Versions` |
| `LSMKVRefinement` | the refinement mapping from `LSMKV` to `DurableKV` | `LSMKV`, instance of `DurableKV` |
| `KeyOrder` | `internal/byteutil`: the order of keys, shared prefixes | - |
| `Varint` | `internal/varintx`: encoding and decoding of numbers, overflow, truncation | community modules |
| `Bloom` | `internal/bloomx`: sizing, probing, what travels in the file | - |
| `SkipList` | `internal/memtable`: nodes with towers, search, insertion, replacement, Clear, cursors | `Versions`, `KeyOrder` |
| `SSTable` | `internal/sstable`: Writer (restart points, blocks, index, filter) and Reader (filter, index, binary search, scan, Iterator, Seek, unreadable blocks) | `Versions`, `KeyOrder`, `Bloom` |
| `Merge` | `internal/compact`: planning, and the heap merge step by step | `SSTable` |
| `DataPath` | DB over these data structures: write, flush, restart, compaction, Get, both iterators; the composition | `SkipList`, `Merge`, `Varint` |
| `TableStore` | abstract: what `LSMKV` takes memtable, tables and merge to be | `Versions`, `KeyOrder` |
| `FileLock` | `internal/filelock`: Acquire and Release call by call, for several processes | - |
| `LockedLog` | wal.log as a file of headers and records with a cursor per process, under the lock; the composition, with its mapping to `WAL` | `FileLock`, `Versions`, instance of `WAL` |
| `MCLSMKV`, `MCRefinement`, `MCDataPath`, `MCLockedLog` | sets of batches, keys and faults for TLC | the module they are named after |
| `VersionsProofs`, `LSMKVProofs` | lemmas on newest versions; type correctness, tables, manifest, read-only sessions, the loss bound, order and identity of numbers | `LSMKV`, TLAPS |
| `RecoveryProofs` | what crashes leave and what readers see | `LSMKVProofs` |
| `RefinementProofs` | the engine implements `DurableKV` | `RecoveryProofs`, `LSMKVRefinement` |
| `ListProofs` | the order of keys; the skip list and its cursors; the memtable and the log of `TableStore` | `DataPath`, `VersionsProofs` |
| `TableProofs` | what a Writer writes, a Reader finds and a merge delivers | `ListProofs` |
| `StoreProofs` | list, log and tables together: where the newest version is, Get, the iterators, types; `DataPath` implements `TableStore`; the numbers of `Varint` | `TableProofs` |
| `LockProofs` | the lock, and the log file under it: types, exclusion, leaks, offsets, implements `WAL` | `LockedLog`, `VersionsProofs` |

### How the model corresponds to the code

**Steps.**  `db.mu` is held for the whole of every operation, so two operations
of one process never interleave, and the model has no step of two of them in
progress.  An operation is cut where it changes a file, because a crash or a
failure can fall there; `pc` is the point it has reached and `pc = "idle"` means
the mutex is free.  `StartOp` are the calls a client makes, `Continue` the later
steps of the call in progress, `Crash` the death of the process (`Kill`: the page
cache stays) or the machine (`PowerLoss`).

| Code | Actions |
|---|---|
| `OpenContext`, `openTables`, `replayWALContext`, `ReplayContext` | `Open`, `OpenFails`, `ReplayFrame`, `ReplayDone`, `ReplayCancelled` |
| `Put`, `Delete`, `Write`, `writeFrame`, `maybeSyncLocked` | `Put`, `Delete`, `WriteBatch` (= `BeginWrite`), `FinishWrite`, `WriteFails`, `SyncFails` |
| `Sync` | `Sync` |
| `Flush`, `flushLocked`, `WriteFile`, `AddFile`, `Reset` | `Flush`, `FlushAlloc`, `FlushCreate`, `FlushFinish`, `FlushAdd`, `FlushOpen`, `FlushReset` |
| `Compact`, `CompactDir`, `MergeFiles`, `Replace` | `Compact`, `MergeAlloc`, `MergeCreate`, `MergeFinish`, `MergeOpen`, `MergeReplace`, `MergeRemove` |
| `Close`, `closeUnlocked` | `Close`, the flush if there is something to flush, `FinishClose` |
| `Get` | `GetResult(k)`, `GetFails(k)` (no state change) |
| `NewIterator`, `collectMerged` | `IterView` (no state change) |

**Data.**  A frame is a sequence of `[key, seq, val]`.  The log is what a reader
can get back from it: the frames before the first one that is cut short or fails
its checksum.  `torn` says there is such a frame; while there is, appends reach
the file and are not readable, which is what `scanValidPrefix` and
`ReplayContext` do with them.  A table, in memory or in a file, maps each key to
the one version it has.  File names are numbers.  `durable` is the readable part
of the log known to be on disk; a power failure leaves it or a longer prefix
(`Survivors`), possibly with a partial frame after it.

**Failures.**  `Faults` names the file operations that may fail: the log's write
(nothing written, or a part), its fsync, the truncation of Reset and its fsync;
the manifest's save during allocation, AddFile and Replace; the writing of a
table; opening a table (at Open, after a flush, as an input or the output of a
merge); a block that cannot be read; a context cancelled during replay.  After
a failure each action does what the code's error path does, including what it
forgets to undo.

**History.**  `hist` (writes that took effect) and `stable` (up to which number
writes were promised to be on disk) are not in the program.  An Open takes over
the writes up to the highest number that is in the log or in a named table, read
off their content (`RecoverableSeq`) and not off what the code computes.  A write is promised
when it returns under `SyncFull`, and when a Sync, a Flush or a Close that
follows it succeeds under any policy.

**A key of no bytes.**  `Put` and `Delete` reject it, `WriteBatch` does not.  `EmptyKey`
is that key; `Keys` has it in the run that looks at this.  The code compares it by its
content but for one place: `Writer.Add` refuses a key that is Go's nil and takes a slice
of length 0.  Both may be in a batch, and `Clone` keeps them apart on their way into the
memtable, whose node for the key keeps the first slice it got until `Clear`
(`BringsEmptyKey`).  What `decodeOne` and `decodeBatch` get back from the log is nil,
whatever was written; what a table gives back never is, so that merges are not concerned.
`nilKey` says what the memtable has.  So the key may get into a table, and after a restart
that replays it the memtable may be one that no flush can write (`FlushFinish`).  Every
refused flush takes a file number: `MaxFiles` bounds them (`MayFlush`), and is of no
account while `nilKey` is false.

**The data structures.**  `LSMKV` moves tables that are functions from keys to
versions.  That they may be taken for functions is what `DataPath` shows: there the
memtable is a skip list, a table is a file of blocks with restart points, an
index and a filter, a merge runs over a heap, and every operation is one action
because `db.mu` is held for all of it.  `TableStore` has the operators `LSMKV` uses
(`MemApply`, `MergeTables`, `TableOf`), and `DataPath` implements it.

| Code | Definitions |
|---|---|
| `SkipList.set`, `Get`, `Snapshot`, `Clear` | `SkipList!Insert`, `Set`, `MemGet`, `Snapshot`, `Detach` |
| `Writer.Add`, `flushBlock`, `Finish`; `Reader.Get`, `blockIter.Next` and `Seek`, `Iterator` | `SSTable` |
| `CompactDir`, `MergeFiles`, `mergeHeap` | `Merge!Planned`, `MergeStart`, `MergeStep`, `ItemLess` |
| `DB.Write`, `flushLocked`, `OpenContext`, `Compact`, `Get`, `NewIterator` | `DataPath!Write`, `Flush`, `Restart`, `Compact`, `DBGet`, `NewIterator` |
| `memtable.Iterator`, `lsmkv.Iterator` | `MemNewIterator` ..., `SeekToFirst`, `Seek`, `IterNext` |

Keys are short sequences of numbers that share prefixes, of one number or more: `<<>>` is the
head of the list there, and what nil stands for.  Offsets are counted in
entries and blocks.  The number of levels of a node is any of `Heights`, what
`randomLevel` may draw.  `memtable.Iterator` is exported and takes the lock for one
call at a time: its calls interleave with writes, flushes and replays.
`Damage` makes a block unreadable for good.

**The lock and the file.**  `FileLock` makes every system call on the path a step.
`aged` and `orphan` are history.  `LSMKV` starts each session with the lock in
hand.  `LockedLog` has what comes before and below: two processes that call Open, get
the lock or not, open `wal.log`, scan it, cut it off, replay it, append to it, reset
it and close it in the order in which `DB.Open`, the writes and `DB.Close` do
these things.  There the log is a sequence of cells.  A header stands for the
length, the type and the checksum that are in it, that is, for the payload it
belongs to; a scan takes a frame if that payload follows.  Header and payload are
two writes, each of which may fail with a part written; the cursor moves by what
was written, `Log.size` only by whole frames.  A power failure leaves what
was fsynced or what was written since, of any length, any blocks of it missing
(`Images`), and LOCK or not.

## 3. Properties

`LSMKV`:

* `TypeOK`: the type invariant.
* `CrashSafe`: whatever a power failure would leave of the log *in this state*
  (in the middle of any operation, recovery included), an Open finds every
  promised write, and reads exactly the effect of the writes up to some number,
  batches whole.
* `KillSafe`: the death of the process alone loses no write that took effect.
* `IteratorAgrees`, `GetAgrees`: at rest, the iterator and Get show the newest
  version of every key ever written.  They are two properties because the code
  resolves versions in two ways: the iterator compares numbers everywhere, Get
  trusts the memtable.
* `GetNeverLies`: the part of `GetAgrees` that outlives a merge that has closed the readers of its
  inputs and then fails: Get may fail, and must not answer with an older version.
* `ManifestComplete`: every file MANIFEST or the session names is there and
  complete.
* `VersionsAgree`: a sequence number is never given to two different versions
  of a key.
* `LossBound`: how many writes `SyncBatch` may lose.
* `CommitOrder`: a write is numbered above every write before it, for the life
  of the directory.
* `FilesImmutable`: a complete table never changes and goes only when MANIFEST
  does not name it.
* `ReadOnlySession`: a read-only session writes no table, no MANIFEST, no log.
* `OperationsEnd`: an operation that holds `db.mu` ends.
* `ImplementsDurableKV` (`LSMKVRefinement`): all of the behaviour, crashes and
  recoveries included, is that of an atomic map whose crashes undo a suffix of
  the writes that were not promised.

`DataPath`:

* `TowersAgree`: each level of the skip list is ordered and a part of the one below.
* `BytesAgree`: the size kept by differences, which triggers a flush, is the size of
  what is held, through overwrites, tombstones and replays.
* `NeverRefused`: no flush or merge hands the Writer entries out of order, where
  every key has a byte or more.
* `SearchAgrees`: in every table any flush or merge has produced, a lookup through
  filter, index and restart points, and a Seek, find what reading the whole
  table finds; an unreadable block is an error and never an answer.
* `MetaAgrees`: bounds, count and highest number that a table reports are those of
  its content; the numbering after a restart rests on them.
* `GetExact`: Get answers with the newest version in memtable and tables, also
  for keys that were never stored.
* `CursorComplete`: a walk over the memtable with the lock released between its
  calls shows every key that was there when it began.
* `VarintExact`: numbers are read back from their encodings, a part of one is an
  error, and arbitrary bytes decode to the number they denote or overflow.
* `ImplementsTableStore`: all of it is `TableStore`.

`LockedLog`:

* `OffsetsAgree`: a log at rest appends at the end of the file, and its `size` is that
  of the file unless a broken frame is in it.
* `ImplementsWAL`: every step changes what the scan finds in the file and would find on
  the disk as one of `WAL`'s operations does.  This is where `WAL`'s flag `torn`
  comes from, and it needs the lock: without exclusion it is violated.
* `StaleGoes`: the lock file of a dead process goes, even if a process that
  recovers it dies too.

`FileLock`: `MutualExclusion`; `FreshExclusion`, the same as long as no lock file
has become older than `StaleAge`; `NoLeak`, the file without a living owner is
always the work of a kill.

## 4. Runs

| Run | Instance | Shows |
|---|---|---|
| `SyncFull` | 2 keys, one of no bytes and nil or not, batches, memtable of 3 units, 3 numbers, 3 file numbers while it is nil, 2 crashes | when no file operation fails everything holds but for Get (`StaleGet`), with flushes that can never succeed as well; refinement |
| `Unsynced` | 1 key, batches, fsync every 2, 3 numbers, 2 crashes | what a power failure may take, and a kill may not; refinement |
| `Compactions` | 1 key, a table per write, 6 numbers | readers resolve by number through all orders of compaction |
| `Tolerated` | 1 key, batches, 3 numbers and 1 failure out of nine kinds or 2 and 2, 1 crash | those failures cost only the operation, or readers, and then Get fails or tells the truth; refinement |
| `AllFaults` | 1 key, 3 numbers, 1 failure of any kind, 1 crash, fairness | what survives everything, in read-only sessions and after a cancelled Open too; operations end |
| `DataPath` | 4 keys and 3 more to look for, 6 numbers, 3 tables, blocks of 8 units, 2 levels, 1 fault | the data structures are what `LSMKV` takes them for |
| `Locking` | 2 processes, frames of 1 and 2 records, 2 numbers, 1 failure, 2 crashes, fairness | the file under the lock is `WAL`; exclusion before staleness, no leak, recovery of LOCK |
| `TornAppend`, `CancelledReplay`, `LostTable`, `StaleGet`, `LockStolen` | the smallest instance | disagreements, section 6 |

**Why these bounds are enough for what they check.**  A flush needs a memtable
over its threshold and a compaction two tables.  `MemtableBytes` counts one unit
for a key and one for a value, as `estimateBytes` charges them, so with 3 units
and 3 numbers there are histories with a flush forced by a write, one asked for
and one done by Close, with two tables merged and a write after them.  Two keys
let one of them be in the memtable and the other in a table, and a batch touch
both.  One value is enough beside the tombstone: an answer from the wrong version is
seen where put and delete alternate, and `Compactions` has up to six of these
on one key, which makes three tables of which the two oldest are merged into
the highest file number.  One crash can fall between any two steps and recovery
follows it; two let recovery itself crash and losses add up, and a kill, which keeps what was
not fsynced, be followed by a power failure, which does not.  Two failures let a write that
failed stay in a log whose Reset fails as well; `WritesOrFaults` trades
them for numbers.  The counter of `SyncBatch` wraps at 2.  In `SyncFull` the key
of no bytes is put alone and goes through batches with the other key, on either side of a
deletion.  Three file numbers let a table be written that has it, and then, from the log that a crash
left or from a write of nil, flushes be refused: that of a write, one asked for and that of
Close.  In `Tolerated` two writes make the tables of a merge that fails, and the third is a
memtable in front of those that are closed, or a table that takes part in the next merge,
which opens its inputs anew.

In `DataPath` `<<1>>` is a prefix of `<<1, 1>>` and `<<1, 2>>`, which share a prefix with each
other; four entries make two blocks or more, and a restart point falls on every
second entry, so there are entries that store a suffix only, lookups that start
left of their target, and lookups between, before and after all keys.  Two levels
are enough for a search that goes down, and the heights differ between neighbours.
The hashes collide, and the filter gives false positives.  Three tables
make merges of two and a third table that takes no part.  Varints have a radix of 4
and three bytes: all words, all their parts and all strings of bytes are tried.

In `Locking` two numbers are two frames or one of two records, so that a payload can
break off in the middle, a frame can hide behind a torn one, and a log that was reset is
written again.  Two crashes let a recovery die, and a process that recovers LOCK.
Three processes and more are covered by the theorems.  One bound is in a guard: after a lock file has become
stale, `OpenLog` waits until no other session has the log open.  Two sessions that write one
log together are thereby left out; that they can come about is what `LockStolen`
shows, and nothing good can be said of the result.

`CHECK_DEADLOCK` is left on: a closed database can always be opened again and an
open one closed, an iterator can always seek.

**Fairness.**  Two properties use it.  `StaleGoes` assumes that applications go on calling
Open (`Attempt`; with a Timeout, `Acquire` retries by itself), that a process in the middle of
`Acquire`, which waits for nothing, runs on (`Acquiring`), and that time passes
(`TimePasses`: the file gets older than `StaleAge`).  A kill at each attempt could
put off recovery for ever, so it rests on `MaxCrashes` too.  `OperationsEnd` assumes weak
fairness of `Continue`, that is, a goroutine in the middle of an operation that holds `db.mu` runs on while its
process lives.  No step in there waits for anything else: no lock, no channel,
no other goroutine.  Nothing is assumed of the clients, who may never call
again, or of crashes and failures, which are bounded in number but never forced.

## 5. Proofs

TLAPS proves the following for every set of keys, values, batches, processes,
faults, every policy and threshold, and without a bound that matters: the
constants `MaxSeq`, `MaxCrashes` and `MaxFaults` are arbitrary numbers.  The
assumptions are those of the modules (`VersionsAssumption`, `WALAssumption`,
`LSMKVAssumption`, `LockedLogAssumption`, `SkipListAssumption`, `DataPathAssumption` and those
of `SSTable` and `Bloom`): keys are finitely many and have a byte or
more in `DataPath`, the tombstone is no value, batches
are not empty (`Write` returns early on an empty one, `lsmkv/write.go:71`), thresholds are positive.

* `LSMKVProofs!TypeCorrect`: `Spec => []TypeOK`.  `TypeOK` is not inductive, for
  a flush and a merge read back a file they created and FinishWrite applies a
  frame BeginWrite made.  `PcInv` says that at those points of an operation the
  file, its inputs and the frame are there; `TypeInv == TypeOK /\ PcInv` is
  inductive.  One lemma per group of actions.
* `LSMKVProofs!TablesImmutable`: `Spec => FilesImmutable`, whatever fails and
  wherever the process dies.  The invariant is about file numbers.  `NumbersInv`:
  what is in the directory is below the `nextFile` that is *on the disk*, so a
  session started after a crash never takes the number of a file it does not
  know of; the session's `nextFile` is not below that.  `NewTableInv`: while a table
  is being written everything named is older than it, its file is
  incomplete until it is finished, and when the inputs of a merge are removed the manifest no
  longer has them.
* `LSMKVProofs!NamedTablesStay`: `Spec => []ManifestComplete` if `addFile` is not
  among the faults.  `NamedInv` adds that what the manifest in *memory* names is
  there too, for that is what the next save writes.  The condition cannot be
  dropped: `LostTable`.
* `LSMKVProofs!ReadOnlyWritesNothing`: `Spec => ReadOnlySession`.  A read-only session
  is never at a step other than replay, idle and closing.
* `LSMKVProofs!LossIsBounded`: `Spec => []LossBound` unless the fsync itself fails.
  `LossInv` counts: what is in the log and not on the disk is at most `SyncEveryN`
  for every process that died and the appends of this one since its last fsync.
* `LSMKVProofs!CommitsInOrder`: `Spec => CommitOrder`, for every failure of a
  file operation and crashes of both kinds.  `OrderInv`: the numbers in the log
  and in what is durable of it are bounded (without this "the highest number in
  the log" would be an arbitrary choice); a session that is up has given out
  every number in the history; the frame on its way to the memtable is numbered
  above all of the history.  The interesting step is Open: the history it takes
  over is what the log and the tables hold, while the numbering resumes from the
  log and from what MANIFEST *notes* of its tables.  `MetaInv` says that the note
  covers the content: for a flush because the table written is the memtable the
  note was computed from (`FlushedInv`), for a merge because it is computed from
  the output.  It needs that tables are immutable, hence `FilesInv`.  That
  `MaxSeqOf` is above every version of a table needs that finitely many numbers
  are bounded; with no induction rule at hand, `FinitelyManyBounded` takes a
  least counterexample, from the well-foundedness of `<`.
* `LSMKVProofs!NumbersIdentify`: `Spec => []VersionsAgree` under `ResetSafe`.  The
  invariant speaks of `Everything`: what memtable, named tables, the table being
  written, log, disk and history hold.  `Unique`: a number has one record in it.
  `GivenOut`: a session that is up has given all of these numbers out, so that the next
  one is new.  This must come true again at Open, when the memory of the last
  session is gone: every record then is in the log, below the `LogSeq` of the
  MANIFEST, or nowhere, which is what `NotedInv` says, and why it also has to follow
  a Reset whose fsync fails and leaves on the disk what the log no longer has.
  `ResetSafe` excludes that this failure meets a failed fsync of a write or a
  cancelled replay.  Without it the property is false: TLC finds a frame of the log that no
  table holds cut off by Reset, and its number given out again (with
  `{"walResetSync", "walSync"}` under `SyncFull` and `SyncBatch`, with
  `{"walResetSync", "cancel"}` under every policy).

`RecoveryProofs` and `RefinementProofs` assume `Harmless`: the write of
a frame does not break off, a replay is not cancelled, AddFile can save, blocks can be
read; and an fsync of the log fails under `SyncFull` only, and not together with the
fsync of a Reset.  Each of the first four breaks the theorems: runs `TornAppend`,
`CancelledReplay`, `LostTable`, and the unreadable block of section 6.  So does a
failed fsync under `SyncBatch`: its write reports an error and its frame stays in the
log, the writes after it are acknowledged with the next fsync not due, and when a
process comes back to that log the frame takes effect in front of them.  Everything
else may fail: nothing written, Reset, its fsync, allocation, writing and opening of
tables, `Replace`.

* `RecoveryProofs!KillLosesNothing`, `CrashLosesNoPromise`: `Spec => []KillSafe` and
  `Spec => []CrashSafe`.  The invariant `RecInv` follows each write of the history to
  where it is.  A write is *covered* by a set of tables if for each of its records they have
  that version of the key or a newer one.  `SoundInv`: what a table has is from
  the history, and the write it is from is covered by the tables on the disk, so
  that no part of a batch gets there alone.  `InReach`: every write of the history is
  covered on the disk or is in the log, or a power failure took it, and then it is
  newer than everything that is left.  `Orderly`: a frame the power failure can take
  is covered by tables or newer than all of them, so that what goes is a suffix.
  `Redundant`: if the disk does not have a prefix of the log (a Reset's fsync
  failed), tables cover what it has.  `SessionInv` is the same for the
  operation in progress: the memtable and the tables together cover the history
  (`Shown`), a merge's output outdoes its inputs (`Replacing`), the memtable is empty
  when the log is cut (`Flushed`).  `StableInv`: the promise is below a
  number that every survivor or a table has.  `RecoveredViewIs` draws the
  conclusion: two sets of versions, one of the history and one of tables and log,
  resolve alike if each version of the one is in the other or below one in it
  (`ResolvedAlike`).  This takes the place of the algebra of `MergeTables`.
* `RecoveryProofs!IteratorShowsHistory`: `Spec => []IteratorAgrees`, from `Shown` and the
  fact that at rest no reader is closed (`ClosedInv`).  That needs `ReadersStay`: the
  opening of a merge's output and `Replace` do not fail, for after these the
  code goes on with closed readers (section 6).
* `RecoveryProofs!GetFindsNewest`: `PoweredSpec => []GetAgrees`, also with `ReadersStay`;
  `PoweredSpec` is `Spec` without `PowerLoss`.  Get does not compare numbers, so this
  needs more than `Shown`: if the memtable has a key, it has the newest version of it
  (`MemNewest`).  During a replay this is not yet so; what holds then is that the
  *log* has the newest version of every key it has at all (`LogNewest`), which a
  power failure between MANIFEST and Reset breaks (`StaleGet`), and which the
  truncation of the log, being total, keeps.  `Powered` is that invariant.
* `RecoveryProofs!GetIsTruthful`: `PoweredSpec => []GetNeverLies`, from `Powered` as well and
  without `ReadersStay`: whatever readers are closed, the answer of a Get that does not fail
  is right.
* `RefinementProofs!EngineImplementsMap`: `Spec => ImplementsDurableKV`, step by step.
  `MappingIs` first: with the process down the abstract log is the history an
  Open will find, otherwise the history itself, and the abstract view is what these
  writes leave behind, by the two results above.  Then a BeginWrite is a Begin, a FinishWrite
  a Take (`EffectIs`: the last record of a batch for a key wins, because numbers
  in a frame rise), a Sync, a Reset or a failed Open a Settle, the death of
  process or machine, or a Close, a Restart, and the rest, Open included, stutters.
  For Restart, `CountedKept`: what the next session counts is all that is below
  the highest number left anywhere.  `ImplInv` is needed on top of `RecInv`:
  a frame in the log of a write that failed is on the disk or numbered after
  all of the history (`LogTaken`), so that it cannot surface between two writes of which
  the later one was kept; and no two frames share a number (`FramesApart`).

`LockProofs` is about `LockedLog`: any number of processes, frames of any length, any
numbers of failures, kills and power failures, holes of any shape.  The invariant is
`LogInv`, and the theorems are statements on `LockedSpec`.

* `LockProofs!LockedTypeCorrect`: `LockedSpec => []LockedTypeOK`.  `LogsTyped` says what
  a cell is, and that a session between a header and the end of its append has a frame.
* `LockProofs!LockedExclusion`, `LockedNothingLeaks`: `FreshExclusion`, and `NoLeak` with
  stale takeovers included.  Inductive invariant `Owned`: before any file is stale,
  nobody is on the stale path, and whoever is inside is the creator of the file that
  is there.  Every step of `LockedLog` is for the lock a step of `FileLock`, a stutter, or
  a power failure; `Exclusion` and `NothingLeaks` are the same for `FileLock` alone.
* `LockProofs!AppendsAtTheEnd`: `LockedSpec => []OffsetsAgree`.  A log at rest is at the end
  of its file only if it was in the right place at each step before, and only if no
  other session wrote in between.  `Sessions` is the second: whoever has the log open
  holds the lock, and no two have it open (from `Owned`, and from the guard of `OpenLog` once a lock is
  stale).  `Offsets` is the first, one clause of `Placed` for each point of a session:
  what was scanned is still what the scan would find, a replay puts the cursor at a
  `size` that is the length of the file, an append is at the end of a file whose
  length is `size` or which has a broken frame in it, a header without its payload is the
  last cell (`HalfWay`), and a file that was reset is empty.  It also fixes that the session's number is the
  last one given out, which the numbering of `WAL` needs.
* `LockProofs!FileImplementsWAL`: `LockedSpec => ImplementsWAL`, each step one of `WAL`'s or
  a stutter.  The steps rest on what a scan does.  `ScanIs` and `EndIs` first: the
  recursive functions in `Scan` and `ValidEnd` exist and satisfy their equations.
  They recur towards the end of the file, and `DownwardRecursion` gets such a function
  from a least position at which there is one, with the well-foundedness of `<` in the place of an
  induction rule.  Then, by the same descent: two files that agree up to the valid
  end of one start with the same frames (`ScanSplit`); cutting off at the valid
  end changes no frame (`ScanCut`); what is appended to a
  file with no broken frame is found, and behind a broken frame it is not (`ScanAppended`,
  `AppendedAt`); a header by itself is no frame, and a payload with a part missing
  does not become one with the next header behind it, since a frame holds records only
  (`FrameStops`).  For a power failure, what was fsynced and the file agree up to
  the longest prefix they share (`CommonStart`), and holes that begin behind it let the scan find
  what was durable and possibly more frames, in order and none from behind a hole
  (`ImageSurvives`, `PowerLossIsWAL`).  The `floor` of `W!RecoverLog` is arbitrary.

`ListProofs` is about the memtable in `DataPath`: keys are any finite set of non-empty
sequences of bytes, towers any heights up to any `MaxLevel`.

* The order first.  `KeyLess` compares what follows the longest shared prefix;
  `KeyLessTransitive`, `KeyLessTotal`, `KeyLessIrreflexive` and `NoKeyFirst` make it a
  strict total order with the head of the list in front.
* `ListProofs!TowersNested`, `BytesExact`: `Spec => []TowersAgree`, `Spec => []BytesAgree`.
  The invariant is local.  `Linked`: at each level the successor of a node is the
  *next* node of that level in the order, or the end if there is none.  From it come what the
  recursive functions compute: a walk stops at the last node below its target
  (`WalkStops`, by descent from the greatest node at which it might not), so that a
  search down the levels ends next to its target (`PathStops`, `SeekNodeIs`) and a walk
  from a node shows what is behind it (`KeysAfterIs`).  `InsertLinked` is the step: linking
  a tower in after the path, and after the head at the levels the list did not have yet,
  keeps `Linked`.  For the byte count, `SumsAgree` shows that a sum over a finite
  set does not depend on the order it is taken in.
* `ListProofs!WalkComplete`: `Spec => []CursorComplete`, from `Ahead`: what the caller of
  a cursor is due is in the list it walks on, ahead of it.  For the live list a write only adds
  to that; for one that Clear has put aside it is what `KeysAfter` gave then.
* `ListProofs!ListIsTable`: `Spec => Store!MemSpec`, the memtable and the log in the
  refinement of `TableStore`: what Get finds in the skip list after each write, flush and
  replay is what the function from keys to versions holds that `LSMKV` works with.
  `set` keeps the version held only if it is newer, so this needs that no number is
  used twice: `NumberedInv`.

`TableProofs` is about the files: entries of any length and number, blocks and restart
intervals of any size, any hash functions, any set of unreadable blocks.

* What a Writer has written is described by *cuts*, the places where it began a new block
  (`Holding`).  `Encodes` says of a block that each of its cells, with the key before it,
  gives back its entry, and that the cells at restart points share nothing; it is
  preserved by each Add (`CellMore`, `CutMore`, `AddTaken`).  So `FileOf(f, es)`: the file f
  holds the entries es, which are in order, its index has the last key of each block,
  its filter has been told of every key, and its meta data are those of es.
* Reading back: a block decodes from any restart point (`BlockFromIs`), the readable blocks
  before the first unreadable one deliver a prefix of es, and without an unreadable
  block all of it (`EntriesFromIs`, `ScanIs`).
* `TableProofs!MetaExact`, `LookupsAgree`: `Spec => []MetaAgrees`, `Spec => []SearchAgrees`.  For a lookup
  `FirstFrom` names the place it has to come to, the first entry that is not below the
  key; `Located` is the block the binary search over the index finds, which has that
  place in it or ends right before it; `Searching` the invariant of the binary search over restart
  points; `FilterKnows` that a filter never denies a key it was told of.
* The merge: `MergeInv` relates the heap, what the inputs have left and what was written.  The
  heap has the first entry of each input that has one; what was written is in order, each entry taken
  is in it or outdone by it (`Outdone`), and the last key taken is below all that
  is left, or is the key of what was written last.  The number of entries
  left, a sum over the inputs, counts the turns down to the end (`MergeFilesIs`).
* `TableProofs!OrderNeverRefused`: `Spec => []NeverRefused`, where every key has a byte or
  more.  A list that is linked delivers its entries in order, and so does the heap, whichever
  inputs end early.  The input list of a merge is `InOrder`, whose ranks are shown to be a
  bijection (`Ranks`).  It does not say that a flush always succeeds: `Writer.Add` refuses nil
  too, and a nil key can come from a `WriteBatch` or the replay of one (section 2).

`StoreProofs` is about list, log and tables together.

* `StoreInv` adds `Foremost` to the invariants of the parts: what is listed is in the log; a number is
  that of one version wherever it is stored; a key that is listed is not newer in any
  table; and a key that is in the log at all is there in a version not older than any in a
  table.  The last clause is what makes Get right after a flush whose truncation failed and a
  restart that replays the log on top of the tables: the replay cannot bring an old
  version in front of a newer one.
* `StoreProofs!GetIsExact`: `Spec => []GetExact`.  `Get` takes the list's word for a key it holds
  (`ListedNewest`); otherwise it goes through the tables and keeps the better answer, and
  the best of all of them is the newest version held (`BestIs`, `BestNewest`), for no two versions share a number.
* `StoreProofs!DataTypes`: `Spec => []TypeOK`.  For the iterator it rests on `CollectMergedIs`:
  what collectMerged gives are the leading entries of all that was gathered, the tombstones
  left out, one for each key, in the order of their keys.
* `StoreProofs!StoreImplementsTables`: `Spec => ImplementsTableStore`.  A set of entries *resolves*
  to the function that has the leading entry of each key (`Resolves`), and to no other, since
  numbers are not shared (`ResolvesOnce`).  What the list holds resolves to `ListTable`
  (`ListResolves`), the entries of a file to its `data` (`TableOfEntriesIs`), what a pass over a damaged
  table delivers to one of `Passes` (`PassIs`), and merging two functions is joining the sets they come
  from (`MergeResolves`).  So there is a way through `MergedWith`, one pass over
  each table, that comes to what a compaction wrote (`CompactIsTSCompact`) and to what an
  iterator shows (`NewIteratorIsTSNewIterator`), by descent on the number of tables merged.
  `SeekKeys` and `NextKeys` say of the positions of the iterator which keys are left in front of it.

* `StoreProofs!NumbersExact`: `Spec => []VarintExact`, from `NumbersReadBack`, a fact about the constants alone.
  What encoding leaves of a number byte by byte, and what the reference says bytes denote, are
  the same chain of remaining numbers (`Chain`); the loop of DecodeUint64 keeps the sum of what it has
  added and the weight of the next byte times the rest (`AddedChain`).  What the first bytes add up to is less than
  the weight of the next (`AddedIs`), so that a word ends within MaxUint64Len bytes and what
  the bound on the last byte lets pass is a word, exactly (`AddedWord`).

Each of these invariants was checked with TLC before it was proved, under the three
sync policies where there are policies.

Every invariant and every refinement of the passing runs is proved.  Only model-checked is
liveness (`OperationsEnd`, `StaleGoes`): TLAPS has no rules for fairness here and no `ENABLED`.  Where a definition recurs over data (the scan of the
log, the blocks of a table, the heap of a merge, a fold) there is no induction rule to
cite; the proofs take a least counterexample instead, from the well-foundedness of `<`, first
to show that the recursive function exists and then for what it computes.

## 6. Where the code and its words disagree

Each is a run that TLC ends with a counterexample.

* `TornAppend` (`internal/wal/io.go:147`): a write to the log that breaks off leaves
  a partial frame.  Later writes are appended after it, fsynced and
  acknowledged; recovery stops at the partial frame and cuts them off.
* `CancelledReplay` (`lsmkv/open.go:97`): a context cancelled during replay makes
  Open close the database, which flushes the part of the log already replayed
  and then truncates all of the log.
* `LostTable` (`lsmkv/write.go:161`): when AddFile cannot save, the flush removes
  the table, but the manifest in memory keeps it and the next save that works
  writes a MANIFEST that names a missing file; no Open succeeds after that.
* `StaleGet` (`lsmkv/read.go:18`): a power failure between the save of MANIFEST and
  the truncation of the log may leave a log that is shorter than the table: under
  `SyncNone` at any time, and under `SyncFull`, which the run uses, if the last frame
  was written by a process killed before its fsync and replayed by the next.  The memtable
  rebuilt from that log is then older than the table, and Get, which takes the memtable's word,
  disagrees with the iterator.  The runs that check `GetAgrees` and
  `GetNeverLies` have one crash at most.
* `LockStolen` (`internal/filelock/lock.go:151`): the comment says a stale lock is
  removed if its pid is dead; the pid is never read, so a session that lives for
  more than 24 hours loses its lock to the next Open.

Two more are visible in the model without a run of their own.  With
`Faults = {"blockRead"}` TLC finds `IteratorAgrees` violated: `MergeFiles` never
asks its inputs for an error, so a block that cannot be read is left out of
the output and the inputs are removed.  And with two processes at the lock file of a
dead one, both may end up inside: the Remove of the slower one takes away the
lock of the faster one (why `FreshExclusion` needs its condition).

After a failure of the output's opening or of `Replace` in a compaction the session goes
on with readers that are closed: Get fails and iterators skip those tables, until
the database is opened again.  This is what `closed` and `GetFails` are for.  `Tolerated`
has these two failures and shows what is left: Get does not lie (`GetNeverLies`).  An
iterator does, for it skips those tables without an error.

`VersionsAgree` holds for one failure, with which `AllFaults` goes, and not for the two that
follow each other here: the fsync of a write fails, and later that of the Reset that takes its
frame out of the log.  No table has the number, so the next session gives it out
again (`SetNextSeq` looks at tables only), while the old frame may be back after a
power failure.  `DurableKV` therefore lets a number be used again whose write failed, and has at
most one of the two after a restart.  The two frames are stored at once only after two kills and
a power failure on top.

Smaller observations, which no caller in the engine runs into: a new
`memtable.Iterator` is `Valid()` before it is positioned, standing on the head of the
list; the comment on `NewIterator` in `internal/memtable/skiplist.go` speaks of
copying entries, while the iterator follows live pointers (`CursorComplete` shows that
this loses no key); its accessors take no lock.  The seek that `recoverTail` ends with
is redundant for the engine, since `ReplayContext` sets the cursor again before
the first append, and that one is needed (`OffsetsAgree`).

## 7. What is not modelled

* Bytes: a record of the log is a unit, a checksum is what tells a whole frame from
  a broken one, and the 28-bit limit on a payload is never met.  `crc32x` is
  therefore not modelled at all.
* The MANIFEST codec: the file holds the state or, during a rename, the old state.
  JSON comes from the standard library, and nothing writes the binary form.
* Directory entries: a renamed MANIFEST and a created or removed file are taken
  as durable.  `persistLocked` fsyncs the directory and ignores a failure of that, and
  nothing fsyncs the entry of a new `wal.log` before the first save after it.  What a
  power failure then leaves depends on the file system; the proofs on file
  numbers (section 5) rest on a MANIFEST that is on the disk once `Replace` or
  `AddFile` has returned.
* Keys of no bytes in `DataPath`: they are in `LSMKV`, where the difference between nil and a
  slice of length 0 decides about flushes.  The list and the tables treat the slice of length 0 as
  the least of all keys.
* What two sessions do to one log after a stolen lock (section 4).
* Code without a caller in the engine: `SetLogSeq`, `PickBySize`, `ValidateSorted`,
  `MergeFilesContext`, `CompactDirContext`, `DropTombstones`, the Bloom filter's Merge,
  Reset, Clone and estimates, the 32-bit, signed and reader variants of varints, the
  buffers and most helpers of `byteutil`.  `memtable.Iterator` and the `Seek` of a table's
  iterator have none either and are modelled, being exported and subtle.
* The optimal size of a Bloom filter, computed in floating point: the filter has
  some size and some number of probes.
* `webui` and `DB.Stats`: they read.
* Calls after Close.  Operations that change anything and `Get` reject them at their first lines;
  `NewIterator` and `Stats` have no such check and read what is left in memory.
* `Get` and iterators during an operation of another goroutine wait for the mutex
  and see `pc = "idle"`.

## 8. Plan

Done: sections 2 to 6: the engine at the level of files, the data structures
under it, the log under the lock, and three refinements that tie them together
(`LSMKV` to `DurableKV`, `DataPath` to `TableStore`, `LockedLog` to `WAL`).
All that the passing runs check but liveness is proved.

What could still be modelled: the directory as a set of entries that survive a power
failure or not, under persistLocked's best-effort fsync.
