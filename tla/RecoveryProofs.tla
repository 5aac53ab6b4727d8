--------------------------- MODULE RecoveryProofs ---------------------------
(***************************************************************************)
(* What a crash leaves is what was written: KillSafe and CrashSafe, for    *)
(* every value of the constants but the fault kinds that the runs of the   *)
(* violations show to break them.                                          *)
(*                                                                         *)
(* A frame is covered by a set of tables when each of its records is in    *)
(* one of them or outdone there by a later version of its key.  The        *)
(* invariant says where the frames of hist, and those of the log, are      *)
(* covered; the numbers (LSMKVProofs) say that what covers a frame agrees  *)
(* with it.                                                                *)
(***************************************************************************)
EXTENDS LSMKVProofs

\* The fault kinds under which recovery is exact.  A torn append hides what
\* follows it, a cancelled replay flushes a part of the log, a failed AddFile
\* may leave a name without a file, a block that cannot be read drops keys from
\* a merge; and the write of a failed fsync stays in the log, which the next
\* fsync must make durable with the writes after it.
Harmless ==
    /\ Faults \cap {"walTorn", "cancel", "addFile", "blockRead"} = {}
    /\ "walSync" \in Faults => SyncPolicy = "SyncFull" /\ "walResetSync" \notin Faults

\* Every record of f is in a table of T, or a later version of its key is.
Covers(T, f) == \A r \in ToSet(f) : \E t \in T : r.seq =< t[r.key].seq

\* Whatever T holds, U holds or has a later version of.
Outdone(T, U) == \A t \in T : \A k \in Keys : \E u \in U : t[k].seq =< u[k].seq

\* f ends after everything T holds.
NewerThan(f, T) == \A t \in T : \A k \in Keys : t[k].seq < LastSeq(f)

\* Every version of t was written by a frame of H, all of which T covers.
Sound(H, t, T) ==
    \A k \in Keys :
        \/ t[k] = NoVersion
        \/ \E f \in H : RecordAt(t, k) \in ToSet(f) /\ Covers(T, f)

\* f was written after everything that is left.
Lost(f, fs, T) == NewerThan(f, T) /\ \A s \in SeqsIn(fs) : s < LastSeq(f)

Ordered(fs) == \A i, j \in DOMAIN fs : i < j => LastSeq(fs[i]) < fs[j][1].seq

OnDisk  == DataOf(FileNos(mfDisk))
Noted   == DataOf(FileNos(mf))
Merged  == DataOf(IF pc \in {"mergeOpen", "mergeReplace"} THEN {LastAllocated} ELSE {})
Serving == pc \notin {"down", "replay"}
Synced(i) == i =< Len(durable) /\ IsPrefix(durable, frames)

LogInv ==
    /\ Ordered(frames) /\ Ordered(durable)
    /\ pc # "down" => ~torn
    /\ pc = "sync" => frames # <<>> /\ frames[Len(frames)] = pending

SoundInv ==
    /\ Sound(hist, mem, {mem})
    /\ \A t \in OnDisk \cup Noted \cup DataOf(tables) \cup Merged : Sound(hist, t, OnDisk)

\* The tables in memory are ahead of those on disk after a Replace that failed.
Behind == Outdone(OnDisk, Noted)

\* A write that took effect is in a table or in the log, or is gone with all
\* that was written after it.
InReach ==
    \A f \in hist : \/ Covers(OnDisk, f)
                    \/ f \in ToSet(frames)
                    \/ pc = "down" /\ Lost(f, frames, OnDisk)

\* A frame a power failure may take from the log is in the tables, or later
\* than all that is.
Orderly ==
    \A i \in DOMAIN frames :
        Synced(i) \/ Covers(OnDisk, frames[i]) \/ NewerThan(frames[i], OnDisk)

\* The old log that an unsynced Reset may bring back.
Redundant ==
    \/ IsPrefix(durable, frames)
    \/ "walResetSync" \in Faults /\ \A i \in DOMAIN durable : Covers(OnDisk, durable[i])

DiskInv == Behind /\ InReach /\ Orderly /\ Redundant

Replaying ==
    pc = "replay" =>
        /\ tables = FileNos(mfDisk)
        /\ ToSet(frames) \subseteq hist
        /\ \A i \in DOMAIN frames : i =< replayed => Covers({mem}, frames[i])

Shown ==
    Serving => \A f \in hist : /\ Covers({mem} \cup DataOf(tables), f)
                               /\ Covers({mem} \cup OnDisk, f)

LogHeld ==
    Serving =>
        \A i \in DOMAIN frames :
            \/ Covers({mem} \cup OnDisk, frames[i])
            \/ pc = "sync" /\ frames[i] = pending /\ NewerThan(pending, {mem} \cup OnDisk)
            \/ "walSync" \in Faults /\ (Synced(i) \/ NewerThan(frames[i], {mem} \cup OnDisk))

Flushed ==
    /\ pc = "flushOpen" => files[LastAllocated].data = mem /\ LastAllocated \in FileNos(mfDisk)
    /\ pc = "flushReset" => mem = EmptyTable

Replacing ==
    /\ pc \in {"mergeOpen", "mergeReplace", "mergeRemove"} =>
         \A n \in inputs, k \in Keys : files[n].data[k].seq =< files[LastAllocated].data[k].seq
    /\ pc = "mergeRemove" => LastAllocated \in FileNos(mfDisk)

SessionInv == Replaying /\ Shown /\ LogHeld /\ Flushed /\ Replacing

Reaches(fs, s) == \E q \in SeqsIn(fs) \cup TableSeqs : s =< q

StableInv ==
    /\ \A s \in Survivors : stable = 0 \/ Reaches(s, stable)
    /\ pc # "down" => stable = 0 \/ \E f \in hist : stable =< LastSeq(f)

RecInv == LogInv /\ SoundInv /\ DiskInv /\ SessionInv /\ StableInv

-----------------------------------------------------------------------------
(* Covering, outdoing and being sound, for any tables and frames.            *)

LEMMA TableSeqsAre ==
    ASSUME NEW t \in Table, NEW k \in Keys
    PROVE  t[k].seq \in Nat /\ t[k] \in Version
  BY DEF Table, Version

LEMMA FrameSeqsAre ==
    ASSUME NEW f \in Seq(Record), NEW r \in ToSet(f)
    PROVE  r \in Record /\ r.key \in Keys /\ r.seq \in Nat /\ r.val \in Contents
  <1>1. r \in Record
    BY DEF ToSet
  <1> QED
    BY <1>1 DEF Record

LEMMA OutdoneMore ==
    ASSUME NEW T \in SUBSET Table, NEW U \in SUBSET Table, T \subseteq U
    PROVE  Outdone(T, U)
  BY TableSeqsAre DEF Outdone

LEMMA OutdoneJoin ==
    ASSUME NEW T \in SUBSET Table, NEW U \in SUBSET Table, NEW V \in SUBSET Table,
           Outdone(T, U)
    PROVE  Outdone(V \cup T, V \cup U)
  <1> SUFFICES ASSUME NEW t \in V \cup T, NEW k \in Keys
               PROVE  \E u \in V \cup U : t[k].seq =< u[k].seq
    BY DEF Outdone
  <1>1. CASE t \in T
    BY <1>1 DEF Outdone
  <1>2. CASE t \in V
    BY <1>2, TableSeqsAre
  <1> QED
    BY <1>1, <1>2

LEMMA CoversMore ==
    ASSUME NEW T \in SUBSET Table, NEW U \in SUBSET Table, Outdone(T, U),
           NEW f \in Seq(Record), Covers(T, f)
    PROVE  Covers(U, f)
  <1> SUFFICES ASSUME NEW r \in ToSet(f)
               PROVE  \E u \in U : r.seq =< u[r.key].seq
    BY DEF Covers
  <1>1. r.key \in Keys /\ r.seq \in Nat
    BY FrameSeqsAre
  <1>2. PICK t \in T : r.seq =< t[r.key].seq
    BY DEF Covers
  <1>3. PICK u \in U : t[r.key].seq =< u[r.key].seq
    BY <1>1 DEF Outdone
  <1>4. t[r.key].seq \in Nat /\ u[r.key].seq \in Nat
    BY <1>1, TableSeqsAre
  <1> QED
    BY <1>1, <1>2, <1>3, <1>4

LEMMA SoundMore ==
    ASSUME NEW T \in SUBSET Table, NEW U \in SUBSET Table, Outdone(T, U),
           NEW G \in SUBSET Frame, NEW H, G \subseteq H, NEW t, Sound(G, t, T)
    PROVE  Sound(H, t, U)
  <1>1. \A f \in G : Covers(T, f) => Covers(U, f)
    BY CoversMore DEF Frame
  <1> QED
    BY <1>1 DEF Sound

\* A table of versions T covers holds no number higher than those of T.
LEMMA SoundBelow ==
    ASSUME NEW T, NEW H, NEW t, Sound(H, t, T), NEW k \in Keys
    PROVE  t[k] = NoVersion \/ \E u \in T : t[k].seq =< u[k].seq
  <1>1. CASE t[k] = NoVersion
    BY <1>1
  <1>2. CASE \E f \in H : RecordAt(t, k) \in ToSet(f) /\ Covers(T, f)
    BY <1>2 DEF Covers, RecordAt
  <1> QED
    BY <1>1, <1>2 DEF Sound

LEMMA NewerThanSound ==
    ASSUME NEW T \in SUBSET Table, NEW H, NEW U \in SUBSET Table,
           \A u \in U : Sound(H, u, T),
           NEW f \in Frame, LastSeq(f) > 0, NewerThan(f, T)
    PROVE  NewerThan(f, U)
  <1> SUFFICES ASSUME NEW u \in U, NEW k \in Keys
               PROVE  u[k].seq < LastSeq(f)
    BY DEF NewerThan
  <1>1. LastSeq(f) \in Nat
    BY LastSeqType
  <1>2. CASE u[k] = NoVersion
    BY <1>2, <1>1 DEF NoVersion
  <1>3. ASSUME NEW t \in T, u[k].seq =< t[k].seq PROVE u[k].seq < LastSeq(f)
    BY <1>1, <1>3, TableSeqsAre DEF NewerThan
  <1> QED
    BY <1>2, <1>3, SoundBelow

LEMMA NewerThanJoin ==
    ASSUME NEW T, NEW U, NEW f
    PROVE  NewerThan(f, T \cup U) <=> NewerThan(f, T) /\ NewerThan(f, U)
  BY DEF NewerThan

LEMMA EmptyIsSound ==
    ASSUME NEW H, NEW T
    PROVE  Sound(H, EmptyTable, T)
  BY DEF Sound, EmptyTable

\* What is covered ends below a number of the tables.
LEMMA CoveredEnd ==
    ASSUME NEW T, NEW f \in Frame, Covers(T, f)
    PROVE  \E t \in T : \E k \in Keys : LastSeq(f) =< t[k].seq
  <1>1. f[Len(f)] \in ToSet(f)
    BY LastSeqIn
  <1>2. f[Len(f)].key \in Keys
    BY <1>1, FrameSeqsAre DEF Frame
  <1> QED
    BY <1>1, <1>2 DEF Covers, LastSeq

\* A memtable is sound with a frame applied.
LEMMA ApplySound ==
    ASSUME NEW t \in Table, NEW f \in Frame, NEW b \in Nat,
           \A k \in Keys : t[k].seq =< b, \A r \in ToSet(f) : r.seq =< b,
           NEW G \in SUBSET Frame, NEW H, G \subseteq H, f \in H, Sound(G, t, {t})
    PROVE  LET u == MemApply(t, f) IN
           /\ Outdone({t}, {u})
           /\ Covers({u}, f)
           /\ Sound(H, u, {u})
  <1> DEFINE u == MemApply(t, f)
  <1>1. f \in Seq(Record) /\ u \in Table
    BY MemApplyType DEF Frame
  <1>2. \A k \in Keys : t[k].seq =< u[k].seq
    BY <1>1, ApplyAbove
  <1>3. \A k \in Keys : \A r \in ToSet(f) : r.key = k => r.seq =< u[k].seq
    BY <1>1, ApplyAbove
  <1> HIDE DEF u
  <1>4. Outdone({t}, {u})
    BY <1>2 DEF Outdone
  <1>5. Covers({u}, f)
    BY <1>1, <1>3, FrameSeqsAre DEF Covers
  <1>6. Sound(H, t, {u})
    BY <1>1, <1>4, SoundMore
  <1>7. ASSUME NEW k \in Keys
        PROVE  \/ u[k] = NoVersion
               \/ \E g \in H : RecordAt(u, k) \in ToSet(g) /\ Covers({u}, g)
    <2>1. \/ u[k] = NoVersion
          \/ u[k] = t[k]
          \/ \E r \in ToSet(f) : r.key = k /\ u[k] = VersionOf(r)
      BY <1>1, ApplyHolds DEF u
    <2>2. CASE u[k] = t[k]
      BY <2>2, <1>6 DEF Sound, RecordAt
    <2>3. ASSUME NEW r \in ToSet(f), r.key = k, u[k] = VersionOf(r)
          PROVE  RecordAt(u, k) \in ToSet(f)
      <3>1. r \in Record
        BY <1>1, FrameSeqsAre
      <3>2. RecordAt(u, k) = r
        BY <3>1, <2>3 DEF RecordAt, VersionOf, Record
      <3> QED
        BY <3>2
    <2> QED
      BY <2>1, <2>2, <2>3, <1>5
  <1>8. Sound(H, u, {u})
    BY <1>7 DEF Sound
  <1> QED
    BY <1>4, <1>5, <1>8 DEF u

-----------------------------------------------------------------------------
(* The tables on the disk.                                                   *)

\* What the other modules have shown.
Base == TypeInv /\ FilesInv /\ NamedInv /\ MetaInv /\ OrderInv /\ AgreeInv

\* Every table in sight is one.
Tabled ==
    /\ OnDisk \subseteq Table /\ Noted \subseteq Table /\ DataOf(tables) \subseteq Table
    /\ Merged \subseteq Table /\ mem \in Table
    /\ FileNos(mf) \cup FileNos(mfDisk) \cup tables \subseteq DOMAIN files
    /\ pc \in Written => LastAllocated \in DOMAIN files
    /\ \A n \in DOMAIN files : files[n].data \in Table

LEMMA TablesAre == Base => Tabled
  <1> SUFFICES ASSUME Base PROVE Tabled
    OBVIOUS
  <1>1. FilesTypeOK /\ mem \in Table
    BY DEF Base, TypeInv, TypeOK, SessionTypeOK
  <1>2. FileNos(mf) \cup FileNos(mfDisk) \cup tables \subseteq DOMAIN files
    BY DEF Base, NamedInv, Readable
  <1>3. pc \in Written => LastAllocated \in DOMAIN files
    BY DEF Base, FilesInv, NewTableInv, Readable
  <1>4. pc \in {"mergeOpen", "mergeReplace"} => pc \in Written
    BY DEF Written
  <1>5. OnDisk \subseteq Table /\ Noted \subseteq Table /\ DataOf(tables) \subseteq Table
    BY <1>1, <1>2, DataOfType DEF OnDisk, Noted
  <1>6. Merged \subseteq Table
    BY <1>1, <1>3, <1>4, DataOfType DEF Merged
  <1>7. \A n \in DOMAIN files : files[n].data \in Table
    BY <1>1 DEF FilesTypeOK, SSTFile
  <1> QED
    BY <1>1, <1>2, <1>3, <1>5, <1>6, <1>7 DEF Tabled

LEMMA TablesAreNext == Base' => Tabled'
  BY TablesAre, PTL

LEMMA FramesAre ==
    ASSUME Base
    PROVE  /\ frames \in Seq(Frame) /\ durable \in Seq(Frame) /\ hist \subseteq Frame
           /\ \A i \in DOMAIN frames : frames[i] \in Carried
           /\ \A i \in DOMAIN durable : durable[i] \in Carried
           /\ hist \subseteq Carried
           /\ Carried \subseteq Frame \cup {<<>>}
           /\ \A f \in Carried : f # <<>> =>
                 /\ f \in Frame
                 /\ LastSeq(f) \in Nat /\ LastSeq(f) > 0
                 /\ f[1] \in ToSet(f) /\ f[Len(f)] \in ToSet(f)
                 /\ \A r \in ToSet(f) : /\ r \in Record /\ r.seq \in Nat /\ r.seq > 0
                                        /\ f[1].seq =< r.seq /\ r.seq =< LastSeq(f)
  <1>1. frames \in Seq(Frame) /\ durable \in Seq(Frame) /\ hist \subseteq Frame
        /\ pending \in Frame \cup {<<>>}
    BY DEF Base, TypeInv, TypeOK, WALTypeOK, GhostTypeOK, SessionTypeOK
  <1>2. /\ \A i \in DOMAIN frames : frames[i] \in ToSet(frames)
        /\ \A i \in DOMAIN durable : durable[i] \in ToSet(durable)
    BY DEF ToSet
  <1>3. ToSet(frames) \subseteq Frame /\ ToSet(durable) \subseteq Frame
    BY <1>1 DEF ToSet
  <1>4. ASSUME NEW f \in Carried, f # <<>>
        PROVE  /\ f \in Frame
               /\ LastSeq(f) \in Nat /\ LastSeq(f) > 0
               /\ f[1] \in ToSet(f) /\ f[Len(f)] \in ToSet(f)
               /\ \A r \in ToSet(f) : /\ r \in Record /\ r.seq \in Nat /\ r.seq > 0
                                      /\ f[1].seq =< r.seq /\ r.seq =< LastSeq(f)
    <2>1. f \in Frame /\ f \in Seq(Record)
      BY <1>1, <1>3, <1>4 DEF Carried, Frame
    <2>2. Consecutive(f)
      BY DEF Base, AgreeInv, FramesInv
    <2>3. \A r \in ToSet(f) : r.seq \in Nat /\ r.seq > 0 /\ f[1].seq =< r.seq /\ r.seq =< LastSeq(f)
      BY <2>1, <2>2, LastIsHighest
    <2>4. f[1] \in ToSet(f) /\ f[Len(f)] \in ToSet(f)
      BY <2>1, LastSeqIn
    <2>5. LastSeq(f) \in Nat /\ LastSeq(f) > 0
      BY <2>3, <2>4 DEF LastSeq
    <2>6. \A r \in ToSet(f) : r \in Record
      BY <2>1, FrameSeqsAre
    <2> QED
      BY <2>1, <2>3, <2>4, <2>5, <2>6
  <1> QED
    BY <1>1, <1>2, <1>3, <1>4 DEF Carried

\* The tables of files that are named before and after a step are the same.
LEMMA NamedSame ==
    ASSUME Base, Base', FilesKept
    PROVE  \A n \in FileNos(mf) \cup FileNos(mfDisk) \cup tables :
              n \in FileNos(mf') \cup FileNos(mfDisk') \cup tables' => files'[n] = files[n]
  BY DEF Base, NamedInv, Readable, FilesKept

\* The log with a set of tables put in the place of those on the disk, which
\* are sound and outdo them.
LEMMA DiskSwap ==
    ASSUME Base, Base', SoundInv, InReach, Orderly, Redundant, pc # "down",
           UNCHANGED <<frames, durable, hist>>,
           Outdone(OnDisk, OnDisk'), \A t \in OnDisk' : Sound(hist, t, OnDisk)
    PROVE  InReach' /\ Orderly' /\ Redundant'
  <1> DEFINE D == OnDisk
             E == OnDisk'
  <1>1. D \subseteq Table /\ E \subseteq Table
    BY TablesAre, TablesAreNext DEF Tabled
  <1>2. \A f \in Frame : Covers(D, f) => Covers(E, f)
    BY <1>1, CoversMore DEF Frame
  <1>3. \A i \in DOMAIN frames : frames[i] \in Frame /\ LastSeq(frames[i]) > 0
    BY FramesAre DEF Frame
  <1>4. \A i \in DOMAIN frames : NewerThan(frames[i], D) => NewerThan(frames[i], E)
    BY <1>1, <1>3, NewerThanSound
  <1>5. \A i \in DOMAIN durable : durable[i] \in Frame
    BY FramesAre
  <1>6. hist \subseteq Frame
    BY FramesAre
  <1>7. InReach'
    BY <1>2, <1>6 DEF InReach
  <1>8. Orderly'
    BY <1>2, <1>3, <1>4 DEF Orderly, Synced
  <1>9. Redundant'
    BY <1>2, <1>5 DEF Redundant
  <1> QED
    BY <1>7, <1>8, <1>9

-----------------------------------------------------------------------------
(* What the steps do to the tables on the disk: what is there stays or is    *)
(* outdone, and what comes was written by the frames of hist.                *)

Moved ==
    /\ Outdone(OnDisk, OnDisk')
    /\ Outdone(OnDisk', Noted')
    /\ Outdone(DataOf(tables), DataOf(tables)')
    /\ \A t \in OnDisk' : Sound(hist, t, OnDisk) \/ (pc = "flushAdd" /\ t = mem)
    /\ \A t \in Noted' \cup DataOf(tables)' \cup Merged' : t \in OnDisk' \/ Sound(hist, t, OnDisk)

LEMMA DataSame ==
    ASSUME Base, Base', FilesKept, NEW ns,
           ns \subseteq FileNos(mf) \cup FileNos(mfDisk) \cup tables,
           ns \subseteq FileNos(mf') \cup FileNos(mfDisk') \cup tables'
    PROVE  {files'[n].data : n \in ns} = {files[n].data : n \in ns}
  BY NamedSame

LEMMA MergeSound ==
    ASSUME NEW T \in SUBSET Table, NEW H, NEW D, \A t \in T : Sound(H, t, D)
    PROVE  Sound(H, MergeTables(T), D)
  <1> DEFINE u == MergeTables(T)
  <1>1. ASSUME NEW k \in Keys
        PROVE  \/ u[k] = NoVersion
               \/ \E f \in H : RecordAt(u, k) \in ToSet(f) /\ Covers(D, f)
    <2>1. CASE u[k] = NoVersion
      BY <2>1
    <2>2. ASSUME NEW t \in T, u[k] = t[k]
          PROVE  \/ u[k] = NoVersion
                 \/ \E f \in H : RecordAt(u, k) \in ToSet(f) /\ Covers(D, f)
      <3>1. RecordAt(u, k) = RecordAt(t, k)
        BY <2>2 DEF RecordAt
      <3> QED
        BY <2>2, <3>1 DEF Sound
    <2> QED
      BY <2>1, <2>2, MergeHolds
  <1> QED
    BY <1>1 DEF Sound

\* The manifest and the tables of the session are the same files as before.
LEMMA MovedNothing ==
    ASSUME Base, Base', FilesKept, SoundInv, Behind,
           UNCHANGED <<mfVars, tables>>, \A t \in Merged' : Sound(hist, t, OnDisk)
    PROVE  Moved /\ OnDisk' = OnDisk /\ DataOf(tables)' = DataOf(tables)
  <1>1. /\ OnDisk' = {files'[n].data : n \in FileNos(mfDisk)}
        /\ Noted' = {files'[n].data : n \in FileNos(mf)}
        /\ DataOf(tables)' = {files'[n].data : n \in tables}
    BY DEF OnDisk, Noted, DataOf, mfVars
  <1>2. OnDisk' = OnDisk /\ Noted' = Noted /\ DataOf(tables)' = DataOf(tables)
    BY <1>1, DataSame DEF OnDisk, Noted, DataOf, mfVars
  <1>3. Outdone(OnDisk, OnDisk) /\ Outdone(DataOf(tables), DataOf(tables))
    BY TablesAre, OutdoneMore DEF Tabled
  <1> QED
    BY <1>2, <1>3 DEF Moved, SoundInv, Behind

LEMMA MovedAlloc ==
    ASSUME Base, Base', SoundInv, Behind, FlushAlloc \/ MergeAlloc
    PROVE  Moved
  <1>1. mf \in MfState
    BY MfTypes DEF Base
  <1>2. FileNos(Alloc(mf)) = FileNos(mf)
    BY <1>1 DEF FileNos, Alloc, MfState
  <1>3. files' = files /\ tables' = tables /\ pc' \notin {"mergeOpen", "mergeReplace"}
    BY DEF FlushAlloc, MergeAlloc, FlushFails, MergeFails
  <1>4. mf' = Alloc(mf) /\ (mfDisk' = Alloc(mf) \/ mfDisk' = mfDisk)
    BY DEF FlushAlloc, MergeAlloc, Update, UpdateUnsaved
  <1>5. /\ Noted' = Noted /\ DataOf(tables)' = DataOf(tables) /\ Merged' = {}
        /\ OnDisk' = Noted \/ OnDisk' = OnDisk
    BY <1>2, <1>3, <1>4 DEF OnDisk, Noted, DataOf, Merged
  <1>6. /\ Outdone(OnDisk, OnDisk) /\ Outdone(DataOf(tables), DataOf(tables))
        /\ Outdone(Noted, Noted)
    BY TablesAre, OutdoneMore DEF Tabled
  <1> QED
    BY <1>5, <1>6 DEF Moved, SoundInv, Behind

LEMMA MovedAdd ==
    ASSUME Base, Base', SoundInv, Behind, "addFile" \notin Faults, FlushAdd
    PROVE  Moved /\ OnDisk' = OnDisk \cup {mem} /\ files[LastAllocated].data = mem
                 /\ LastAllocated' \in FileNos(mfDisk') /\ LastAllocated' = LastAllocated
  <1> DEFINE meta == MetaOf(LastAllocated, 0, mem)
  <1>1. /\ mf = mfDisk
        /\ files[LastAllocated].data = mem
    BY DEF Base, FilesInv, NewTableInv, Numbered, MetaInv, FlushedInv, FlushAdd
  <1>2. /\ mf' = AddFile(mf, meta) /\ mfDisk' = AddFile(mf, meta) /\ files' = files
        /\ tables' = tables /\ mem' = mem /\ pc' = "flushOpen"
    BY DEF FlushAdd, Fault, Update
  <1>3. mf \in MfState /\ LastAllocated \in Nat /\ mem \in Table
    BY MfTypes, TablesAre DEF Base, Tabled
  <1>4. meta \in FileMeta /\ meta.no = LastAllocated
    BY <1>3, MetaOfType DEF MetaOf
  <1>5. FileNos(AddFile(mf, meta)) = FileNos(mf) \cup {LastAllocated}
    BY <1>3, <1>4, FileNosOps
  <1>6. LastAllocated' = LastAllocated
    BY <1>2, <1>3 DEF LastAllocated, AddFile, MfState
  <1>7. /\ OnDisk' = OnDisk \cup {mem} /\ Noted' = OnDisk'
        /\ DataOf(tables)' = DataOf(tables) /\ Merged' = {}
    BY <1>1, <1>2, <1>5 DEF OnDisk, Noted, DataOf, Merged
  <1>8. /\ Outdone(OnDisk, OnDisk') /\ Outdone(OnDisk', OnDisk')
        /\ Outdone(DataOf(tables), DataOf(tables))
    BY <1>7, TablesAre, TablesAreNext, OutdoneMore DEF Tabled
  <1>9. pc = "flushAdd"
    BY DEF FlushAdd
  <1> QED
    BY <1>1, <1>2, <1>5, <1>6, <1>7, <1>8, <1>9 DEF Moved, SoundInv

LEMMA MovedReplace ==
    ASSUME Base, Base', SoundInv, Behind, Replacing, MergeReplace
    PROVE  Moved /\ (pc' = "mergeRemove" => LastAllocated' \in FileNos(mfDisk'))
                 /\ LastAllocated' = LastAllocated
  <1> DEFINE meta == MetaOf(LastAllocated, 1, files[LastAllocated].data)
             ns   == (FileNos(mf) \ inputs) \cup {LastAllocated}
             N    == {files[n].data : n \in ns}
  <1>1. pc = "mergeReplace" /\ mf = mfDisk /\ LastAllocated \in DOMAIN files
    BY TablesAre DEF Base, FilesInv, NewTableInv, Numbered, MergeReplace, Tabled, Written
  <1>2. /\ mf' = Replace(mf, inputs, meta) /\ files' = files /\ tables' = tables
        /\ \/ mfDisk' = Replace(mf, inputs, meta)
           \/ mfDisk' = mfDisk /\ pc' = "idle"
        /\ pc' \in {"mergeRemove", "idle"}
    BY DEF MergeReplace, Update, UpdateUnsaved, MergeFails
  <1>3. mf \in MfState /\ LastAllocated \in Nat /\ files[LastAllocated].data \in Table
    BY <1>1, MfTypes, TablesAre DEF Base, Tabled
  <1>4. meta \in FileMeta /\ meta.no = LastAllocated
    BY <1>3, MetaOfType DEF MetaOf
  <1>5. FileNos(Replace(mf, inputs, meta)) = ns
    BY <1>3, <1>4, FileNosOps
  <1>6. LastAllocated' = LastAllocated
    BY <1>2, <1>3 DEF LastAllocated, Replace, MfState
  <1>7. /\ Noted' = N /\ DataOf(tables)' = DataOf(tables) /\ Merged' = {}
        /\ OnDisk' = N \/ OnDisk' = OnDisk
    BY <1>1, <1>2, <1>5 DEF OnDisk, Noted, DataOf, Merged
  <1>8. \A t \in N : Sound(hist, t, OnDisk)
    BY <1>1 DEF SoundInv, Noted, DataOf, Merged
  <1>9. Outdone(OnDisk, N)
    <2> SUFFICES ASSUME NEW n \in FileNos(mf), NEW k \in Keys
                 PROVE  \E m \in ns : files[n].data[k].seq =< files[m].data[k].seq
      BY <1>1 DEF OnDisk, DataOf, Outdone
    <2>1. CASE n \in inputs
      BY <2>1, <1>1 DEF Replacing
    <2>2. CASE n \notin inputs
      BY <2>2, TablesAre, TableSeqsAre DEF Tabled
    <2> QED
      BY <2>1, <2>2
  <1>10. N \subseteq Table
    BY <1>3, TablesAre DEF Tabled
  <1>11. /\ Outdone(OnDisk, OnDisk) /\ Outdone(DataOf(tables), DataOf(tables)) /\ Outdone(N, N)
    BY <1>10, TablesAre, OutdoneMore DEF Tabled
  <1>12. Moved
    BY <1>7, <1>8, <1>9, <1>11 DEF Moved, SoundInv
  <1> QED
    BY <1>2, <1>5, <1>6, <1>12

LEMMA MovedRemove ==
    ASSUME Base, Base', FilesKept, SoundInv, Behind, Replacing, MergeRemove
    PROVE  Moved
  <1>1. /\ pc = "mergeRemove" /\ LastAllocated \in FileNos(mfDisk)
        /\ tables' = (tables \ inputs) \cup {LastAllocated} /\ mf' = mf /\ mfDisk' = mfDisk
        /\ pc' = "idle"
    BY DEF MergeRemove, Replacing, mfVars
  <1>2. /\ OnDisk' = {files'[n].data : n \in FileNos(mfDisk)}
        /\ Noted' = {files'[n].data : n \in FileNos(mf)}
        /\ DataOf(tables)' = {files'[n].data : n \in (tables \ inputs) \cup {LastAllocated}}
        /\ Merged' = {}
    BY <1>1 DEF OnDisk, Noted, DataOf, Merged
  <1>3. /\ OnDisk' = OnDisk /\ Noted' = Noted
        /\ DataOf(tables)' = {files[n].data : n \in (tables \ inputs) \cup {LastAllocated}}
    BY <1>1, <1>2, DataSame DEF OnDisk, Noted, DataOf
  <1>4. \A t \in DataOf(tables)' : Sound(hist, t, OnDisk)
    BY <1>1, <1>3 DEF SoundInv, OnDisk, DataOf
  <1>5. Outdone(DataOf(tables), DataOf(tables)')
    <2> SUFFICES ASSUME NEW n \in tables, NEW k \in Keys
                 PROVE  \E m \in (tables \ inputs) \cup {LastAllocated} :
                            files[n].data[k].seq =< files[m].data[k].seq
      BY <1>3 DEF DataOf, Outdone
    <2>1. CASE n \in inputs
      BY <2>1, <1>1 DEF Replacing
    <2>2. CASE n \notin inputs
      BY <2>2, TablesAre, TableSeqsAre DEF Tabled
    <2> QED
      BY <2>1, <2>2
  <1>6. Outdone(OnDisk, OnDisk)
    BY TablesAre, OutdoneMore DEF Tabled
  <1> QED
    BY <1>2, <1>3, <1>4, <1>5, <1>6 DEF Moved, SoundInv, Behind

\* A complete merge is written by hist as its inputs are, and outdoes them.
LEMMA MovedFinish ==
    ASSUME Base, Base', FilesKept, SoundInv, Behind, "blockRead" \notin Faults, MergeFinish
    PROVE  /\ Moved
           /\ pc' = "mergeOpen" =>
                /\ inputs' = inputs /\ LastAllocated' = LastAllocated
                /\ \A n \in inputs, k \in Keys :
                     files'[n].data[k].seq =< files'[LastAllocated].data[k].seq
  <1> DEFINE T == DataOf(inputs)
             u == MergeTables(T)
  <1>1. /\ pc = "mergeFinish" /\ UNCHANGED <<mfVars, tables>> /\ inputs \subseteq tables
        /\ LastAllocated' = LastAllocated
    BY DEF Base, FilesInv, NumbersInv, MergeFinish, LastAllocated, mfVars
  <1>2. T \subseteq DataOf(tables) /\ T \subseteq Table
    BY <1>1, TablesAre DEF DataOf, Tabled
  <1>3. Sound(hist, u, OnDisk)
    BY <1>2, MergeSound DEF SoundInv
  <1>4. CASE WriteTo(LastAllocated, TRUE, u) /\ pc' = "mergeOpen" /\ inputs' = inputs
    <2>1. files'[LastAllocated].data = u
      BY <1>4 DEF WriteTo
    <2>2. \A t \in Merged' : Sound(hist, t, OnDisk)
      BY <1>1, <1>3, <1>4, <2>1 DEF Merged, DataOf
    <2>3. Moved
      BY <1>1, <2>2, MovedNothing
    <2>4. ASSUME NEW n \in inputs, NEW k \in Keys
          PROVE  files'[n].data[k].seq =< u[k].seq
      <3>1. nextSeq \in Nat /\ \A m \in Named \cap DOMAIN files : files[m].data[k].seq =< nextSeq
        BY <1>1, BoundedBy DEF Base, AgreeInv
      <3>2. \A t \in T : t[k].seq =< nextSeq
        BY <1>1, <3>1, TablesAre DEF DataOf, Named, Tabled
      <3>3. files[n].data \in T
        BY DEF DataOf
      <3>4. files'[n] = files[n]
        BY <1>1, NamedSame
      <3> QED
        BY <1>2, <3>1, <3>2, <3>3, <3>4, MergeAbove
    <2> QED
      BY <1>1, <1>4, <2>1, <2>3, <2>4
  <1>5. CASE pc' = "idle"
    <2>1. \A t \in Merged' : Sound(hist, t, OnDisk)
      BY <1>5 DEF Merged, DataOf
    <2> QED
      BY <1>1, <1>5, <2>1, MovedNothing
  <1>6. \/ WriteTo(LastAllocated, TRUE, u) /\ pc' = "mergeOpen" /\ inputs' = inputs
        \/ pc' = "idle"
    BY DEF MergeFinish, MergeFails, Fault
  <1> QED
    BY <1>4, <1>5, <1>6

-----------------------------------------------------------------------------
(* Steps that leave the log, the memtable and the history alone.             *)

LEMMA ReachesMore ==
    ASSUME Base, Base', Outdone(OnDisk, OnDisk'), NEW fs \in Seq(Frame), NEW gs \in Seq(Frame),
           SeqsIn(fs) \subseteq SeqsIn(gs), NEW s \in Nat, Reaches(fs, s)
    PROVE  \E q \in SeqsIn(gs) \cup TableSeqs' : s =< q
  <1>1. PICK q \in SeqsIn(fs) \cup TableSeqs : s =< q
    BY DEF Reaches
  <1>2. ASSUME NEW t \in OnDisk, NEW k \in Keys, s =< t[k].seq
        PROVE  \E p \in TableSeqs' : s =< p
    <2>1. PICK u \in OnDisk' : t[k].seq =< u[k].seq
      BY DEF Outdone
    <2>2. u[k].seq \in TableSeqs'
      BY <2>1 DEF TableSeqs, OnDisk
    <2>3. u[k].seq \in Nat /\ t[k].seq \in Nat
      BY <2>1, TablesAre, TablesAreNext, TableSeqsAre DEF Tabled
    <2> QED
      BY <1>2, <2>1, <2>2, <2>3
  <1> QED
    BY <1>1, <1>2 DEF TableSeqs, OnDisk

LEMMA StableMoved ==
    ASSUME Base, Base', StableInv, Outdone(OnDisk, OnDisk'), pc # "down",
           UNCHANGED <<frames, durable, hist, stable>>
    PROVE  StableInv'
  <1>1. Survivors' = Survivors
    BY DEF Survivors
  <1>2. stable \in Nat
    BY DEF Base, TypeInv, TypeOK, GhostTypeOK
  <1>3. ASSUME NEW s \in Survivors, Reaches(s, stable)
        PROVE  \E q \in SeqsIn(s) \cup TableSeqs' : stable =< q
    <2>1. s \in Seq(Frame)
      BY SurvivorFrames DEF Base, TypeInv, TypeOK
    <2> QED
      BY <1>2, <1>3, <2>1, ReachesMore
  <1>4. \A s \in Survivors : stable = 0 \/ \E q \in SeqsIn(s) \cup TableSeqs' : stable =< q
    BY <1>3 DEF StableInv
  <1>5. \A s \in Survivors' : stable' = 0 \/ Reaches(s, stable)'
    BY <1>1, <1>4 DEF Reaches
  <1> QED
    BY <1>5 DEF StableInv

\* What the disk gains or loses, for a sound memtable and a log held with it.
LEMMA SoundMoved ==
    ASSUME Base, Base', SoundInv, Moved, UNCHANGED <<hist, mem>>
    PROVE  SoundInv'
  <1>1. /\ OnDisk \subseteq Table /\ OnDisk' \subseteq Table /\ {mem} \subseteq Table
        /\ hist \subseteq Frame
    BY TablesAre, TablesAreNext, FramesAre DEF Tabled
  <1>2. \A t : Sound(hist, t, OnDisk) => Sound(hist, t, OnDisk')
    BY <1>1, SoundMore DEF Moved
  <1>3. mem \in OnDisk' => Sound(hist, mem, OnDisk')
    BY <1>1, SoundMore, OutdoneMore DEF SoundInv
  <1>4. \A t \in OnDisk' : Sound(hist, t, OnDisk')
    BY <1>2, <1>3 DEF Moved
  <1>5. \A t \in Noted' \cup DataOf(tables)' \cup Merged' : Sound(hist, t, OnDisk')
    BY <1>2, <1>4 DEF Moved
  <1> QED
    BY <1>4, <1>5 DEF SoundInv

LEMMA HeldMoved ==
    ASSUME Base, Base', Shown, LogHeld, Moved, Serving,
           UNCHANGED <<frames, durable, hist, mem>>,
           pc = "sync" => "walSync" \in Faults
    PROVE  Shown' /\ LogHeld'
  <1> DEFINE D == OnDisk
             E == OnDisk'
  <1>1. D \subseteq Table /\ E \subseteq Table /\ {mem} \subseteq Table
    BY TablesAre, TablesAreNext DEF Tabled
  <1>2. DataOf(tables) \subseteq Table /\ DataOf(tables)' \subseteq Table
    BY TablesAre, TablesAreNext DEF Tabled
  <1>3. Outdone({mem} \cup D, {mem} \cup E)
    BY <1>1, OutdoneJoin DEF Moved
  <1>4. Outdone({mem} \cup DataOf(tables), {mem} \cup DataOf(tables)')
    BY <1>1, <1>2, OutdoneJoin DEF Moved
  <1>5. \A f \in Frame : Covers({mem} \cup D, f) => Covers({mem} \cup E, f)
    BY <1>1, <1>3, CoversMore DEF Frame
  <1>6. \A f \in Frame : Covers({mem} \cup DataOf(tables), f) => Covers({mem} \cup DataOf(tables)', f)
    BY <1>1, <1>2, <1>4, CoversMore DEF Frame
  <1>7. hist \subseteq Frame /\ \A i \in DOMAIN frames : frames[i] \in Frame /\ LastSeq(frames[i]) > 0
    BY FramesAre DEF Frame
  <1>8. Shown'
    BY <1>5, <1>6, <1>7 DEF Shown
  <1>9. ASSUME NEW f \in Frame, LastSeq(f) > 0, NewerThan(f, {mem} \cup D)
        PROVE  NewerThan(f, {mem} \cup E)
    <2>1. NewerThan(f, {mem}) /\ NewerThan(f, D)
      BY <1>9, NewerThanJoin
    <2> DEFINE S == {t \in E : Sound(hist, t, D)}
    <2>2. S \subseteq Table /\ \A t \in S : Sound(hist, t, D)
      BY <1>1
    <2>3. NewerThan(f, S)
      BY <1>1, <1>9, <2>1, <2>2, NewerThanSound
    <2>4. {mem} \cup E = {mem} \cup S
      BY DEF Moved
    <2> QED
      BY <2>1, <2>3, <2>4, NewerThanJoin
  <1>10. LogHeld'
    BY <1>5, <1>7, <1>9 DEF LogHeld, Synced
  <1> QED
    BY <1>8, <1>10

LEMMA DiskMoved ==
    ASSUME Base, Base', SoundInv, DiskInv, Moved, pc \notin {"down", "flushAdd"},
           UNCHANGED <<frames, durable, hist>>
    PROVE  DiskInv'
  BY DiskSwap DEF Moved, DiskInv, Behind

\* A flush brings the memtable to the disk, and with it what only the log had.
LEMMA DiskAdded ==
    ASSUME Base, Base', DiskInv, LogHeld, Moved, pc = "flushAdd", OnDisk' = OnDisk \cup {mem},
           UNCHANGED <<frames, durable, hist>>
    PROVE  DiskInv'
  <1> DEFINE D == OnDisk
             E == OnDisk'
  <1>1. D \subseteq Table /\ E \subseteq Table /\ Outdone(D, E)
    BY TablesAre, TablesAreNext DEF Tabled, Moved
  <1>2. \A f \in Frame : Covers(D, f) => Covers(E, f)
    BY <1>1, CoversMore DEF Frame
  <1>3. /\ \A i \in DOMAIN frames : frames[i] \in Frame
        /\ \A i \in DOMAIN durable : durable[i] \in Frame
        /\ hist \subseteq Frame
    BY FramesAre DEF Frame
  <1>4. {mem} \cup D = E
    OBVIOUS
  <1>5. InReach'
    BY <1>2, <1>3 DEF InReach, DiskInv
  <1>6. Orderly'
    BY <1>4 DEF LogHeld, Serving, Orderly, Synced
  <1>7. Redundant'
    BY <1>2, <1>3 DEF Redundant, DiskInv
  <1>8. Behind'
    BY DEF Behind, Moved
  <1> QED
    BY <1>5, <1>6, <1>7, <1>8 DEF DiskInv

LEMMA StillStep ==
    ASSUME Base, Base', RecInv, Moved, Serving, pc' \notin {"down", "replay", "sync"},
           pc = "flushAdd" => OnDisk' = OnDisk \cup {mem},
           pc = "sync" => "walSync" \in Faults,
           UNCHANGED <<frames, durable, torn, hist, stable, mem>>, Flushed', Replacing'
    PROVE  RecInv'
  <1>1. LogInv'
    BY DEF RecInv, LogInv, Serving
  <1>2. SoundInv'
    BY SoundMoved DEF RecInv
  <1>3. DiskInv'
    BY DiskMoved, DiskAdded DEF RecInv, SessionInv, Serving
  <1>4. SessionInv'
    BY HeldMoved DEF RecInv, SessionInv, Replaying
  <1>5. StableInv'
    BY StableMoved DEF RecInv, Moved, Serving
  <1> QED
    BY <1>1, <1>2, <1>3, <1>4, <1>5 DEF RecInv

\* A step that changes no file that is named, and begins nothing.
LEMMA QuietRec ==
    ASSUME Base, Base', FilesKept, RecInv, Serving,
           UNCHANGED <<mfVars, tables, frames, durable, torn, hist, stable, mem>>,
           pc' \notin {"down", "replay", "sync", "flushOpen", "flushReset",
                       "mergeOpen", "mergeReplace", "mergeRemove"},
           pc # "flushAdd", pc = "sync" => "walSync" \in Faults
    PROVE  RecInv'
  <1>1. Merged' = {}
    BY DEF Merged, DataOf
  <1>2. Moved
    BY <1>1, MovedNothing DEF RecInv, DiskInv
  <1>3. Flushed' /\ Replacing'
    BY DEF Flushed, Replacing
  <1> QED
    BY <1>2, <1>3, StillStep

LEMMA QuietActions ==
    ASSUME Base, Base', FilesKept, Harmless, RecInv,
           \/ \E ops \in Seq(Op) : WriteFails(ops)
           \/ SyncFails \/ Flush \/ Compact \/ Close
           \/ FlushCreate \/ FlushFinish \/ MergeCreate
    PROVE  RecInv'
  <1>1. CASE \E ops \in Seq(Op) : WriteFails(ops)
    <2>1. PICK ops \in Seq(Op) : WriteFails(ops)
      BY <1>1
    <2>2. ~Fault("walTorn")
      BY DEF Harmless, Fault
    <2>3. AppendNothing(ops) /\ pc = "idle" /\ UNCHANGED <<mfVars, dbVars, ghosts>>
      BY <2>1, <2>2 DEF WriteFails, CanWrite
    <2> QED
      BY <2>3, QuietRec DEF AppendNothing, dbVars, volatile, ghosts, Serving
  <1>2. CASE SyncFails
    BY <1>2, QuietRec DEF SyncFails, Fault, walVars, ghosts, Serving
  <1>3. CASE Flush
    BY <1>3, QuietRec DEF Flush, walVars, ghosts, volatile, Serving
  <1>4. CASE Compact
    BY <1>4, QuietRec DEF Compact, walVars, ghosts, Serving
  <1>5. CASE Close
    BY <1>5, QuietRec DEF Close, StartClose, walVars, ghosts, Serving
  <1>6. CASE FlushCreate
    BY <1>6, QuietRec DEF FlushCreate, walVars, ghosts, volatile, Serving
  <1>7. CASE FlushFinish
    <2>1. pc' \in {"flushAdd", "idle", "closing"} /\ pc = "flushFinish"
          /\ UNCHANGED <<walVars, mfVars, mem, tables, ghosts>>
      BY <1>7 DEF FlushFinish, FlushFails
    <2> QED
      BY <2>1, QuietRec DEF walVars, ghosts, Serving
  <1>8. CASE MergeCreate
    BY <1>8, QuietRec DEF MergeCreate, MergeFails, walVars, ghosts, Serving
  <1> QED
    BY <1>1, <1>2, <1>3, <1>4, <1>5, <1>6, <1>7, <1>8

LEMMA MovingActions ==
    ASSUME Base, Base', FilesKept, Harmless, RecInv,
           \/ FlushAlloc \/ FlushAdd
           \/ MergeAlloc \/ MergeFinish \/ MergeOpen \/ MergeReplace \/ MergeRemove
    PROVE  RecInv'
  <1>1. CASE FlushAlloc \/ MergeAlloc
    <2>1. Moved
      BY <1>1, MovedAlloc DEF RecInv, DiskInv
    <2>2. /\ pc \in {"flushAlloc", "mergeAlloc"}
          /\ pc' \in {"flushCreate", "mergeCreate", "idle", "closing"}
          /\ UNCHANGED <<frames, durable, torn, hist, stable, mem>>
      BY <1>1 DEF FlushAlloc, MergeAlloc, FlushFails, MergeFails, walVars, ghosts
    <2>3. Flushed' /\ Replacing'
      BY <2>2 DEF Flushed, Replacing
    <2> QED
      BY <2>1, <2>2, <2>3, StillStep DEF Serving
  <1>2. CASE FlushAdd
    <2>1. "addFile" \notin Faults
      BY DEF Harmless
    <2>2. /\ Moved /\ OnDisk' = OnDisk \cup {mem} /\ files[LastAllocated].data = mem
          /\ LastAllocated' \in FileNos(mfDisk') /\ LastAllocated' = LastAllocated
      BY <1>2, <2>1, MovedAdd DEF RecInv, DiskInv
    <2>3. /\ pc = "flushAdd" /\ pc' = "flushOpen" /\ files' = files
          /\ UNCHANGED <<frames, durable, torn, hist, stable, mem>>
      BY <1>2, <2>1 DEF FlushAdd, Fault, walVars, ghosts
    <2>4. Flushed' /\ Replacing'
      BY <2>2, <2>3 DEF Flushed, Replacing
    <2> QED
      BY <2>2, <2>3, <2>4, StillStep DEF Serving
  <1>3. CASE MergeFinish
    <2>1. /\ Moved
          /\ pc' = "mergeOpen" =>
                /\ inputs' = inputs /\ LastAllocated' = LastAllocated
                /\ \A n \in inputs, k \in Keys :
                     files'[n].data[k].seq =< files'[LastAllocated].data[k].seq
      BY <1>3, MovedFinish DEF RecInv, DiskInv, Harmless
    <2>2. /\ pc = "mergeFinish" /\ pc' \in {"mergeOpen", "idle"}
          /\ UNCHANGED <<frames, durable, torn, hist, stable, mem>>
      BY <1>3 DEF MergeFinish, MergeFails, walVars, ghosts
    <2>3. Flushed' /\ Replacing'
      BY <2>1, <2>2 DEF Flushed, Replacing
    <2> QED
      BY <2>1, <2>2, <2>3, StillStep DEF Serving
  <1>4. CASE MergeOpen
    <2>1. /\ pc = "mergeOpen" /\ pc' \in {"mergeReplace", "idle"}
          /\ UNCHANGED <<mfVars, files, tables, frames, durable, torn, hist, stable, mem>>
          /\ pc' = "mergeReplace" => inputs' = inputs
      BY <1>4 DEF MergeOpen, MergeFails, walVars, ghosts
    <2>2. Merged' \subseteq Merged
      BY <2>1 DEF Merged, DataOf, LastAllocated, mfVars
    <2>3. Moved
      BY <2>1, <2>2, MovedNothing DEF RecInv, DiskInv, SoundInv
    <2>4. Flushed' /\ Replacing'
      BY <2>1 DEF RecInv, SessionInv, Flushed, Replacing, LastAllocated, mfVars
    <2> QED
      BY <2>1, <2>3, <2>4, StillStep DEF Serving
  <1>5. CASE MergeReplace
    <2>1. /\ Moved /\ (pc' = "mergeRemove" => LastAllocated' \in FileNos(mfDisk'))
          /\ LastAllocated' = LastAllocated
      BY <1>5, MovedReplace DEF RecInv, DiskInv, SessionInv
    <2>2. /\ pc = "mergeReplace" /\ pc' \in {"mergeRemove", "idle"} /\ files' = files
          /\ UNCHANGED <<frames, durable, torn, hist, stable, mem>>
          /\ pc' = "mergeRemove" => inputs' = inputs
      BY <1>5 DEF MergeReplace, MergeFails, walVars, ghosts
    <2>3. Flushed' /\ Replacing'
      BY <2>1, <2>2 DEF RecInv, SessionInv, Flushed, Replacing
    <2> QED
      BY <2>1, <2>2, <2>3, StillStep DEF Serving
  <1>6. CASE MergeRemove
    <2>1. Moved
      BY <1>6, MovedRemove DEF RecInv, DiskInv, SessionInv
    <2>2. /\ pc = "mergeRemove" /\ pc' = "idle"
          /\ UNCHANGED <<frames, durable, torn, hist, stable, mem>>
      BY <1>6 DEF MergeRemove, walVars, ghosts
    <2>3. Flushed' /\ Replacing'
      BY <2>2 DEF Flushed, Replacing
    <2> QED
      BY <2>1, <2>2, <2>3, StillStep DEF Serving
  <1> QED
    BY <1>1, <1>2, <1>3, <1>4, <1>5, <1>6

-----------------------------------------------------------------------------
(* Steps that leave the files and the MANIFEST alone.                        *)

LEMMA SameDisk ==
    ASSUME files' = files, mfDisk' = mfDisk
    PROVE  OnDisk' = OnDisk /\ TableSeqs' = TableSeqs
  BY DEF OnDisk, TableSeqs, DataOf

LEMMA SelfOutdone ==
    ASSUME Base
    PROVE  /\ Outdone(OnDisk, OnDisk) /\ Outdone({mem} \cup OnDisk, {mem} \cup OnDisk)
           /\ Outdone(DataOf(tables), DataOf(tables))
  <1>1. OnDisk \subseteq Table /\ {mem} \cup OnDisk \subseteq Table /\ DataOf(tables) \subseteq Table
    BY TablesAre DEF Tabled
  <1> QED
    BY <1>1, OutdoneMore

LEMMA DiskStays ==
    ASSUME DiskInv, UNCHANGED <<frames, durable, hist, files, mfVars>>, pc = "down" => pc' = "down"
    PROVE  DiskInv'
  <1>1. OnDisk' = OnDisk /\ Noted' = Noted
    BY SameDisk DEF Noted, DataOf, mfVars
  <1> QED
    BY <1>1 DEF DiskInv, Behind, InReach, Orderly, Redundant, Synced

LEMMA StableStays ==
    ASSUME Base, Base', StableInv, UNCHANGED <<frames, durable, hist, stable, files, mfDisk>>,
           pc # "down"
    PROVE  StableInv'
  <1>1. OnDisk' = OnDisk
    BY SameDisk
  <1>2. Outdone(OnDisk, OnDisk')
    BY <1>1, SelfOutdone
  <1> QED
    BY <1>2, StableMoved

\* The memtable takes in a frame.
LEMMA SoundApply ==
    ASSUME Base, Base', SoundInv, pc # "down", NEW f \in Carried, f # <<>>, f \in hist',
           hist \subseteq hist', mem' = MemApply(mem, f),
           UNCHANGED <<files, mfVars, tables>>, Merged' = {}
    PROVE  /\ SoundInv'
           /\ \A g \in Frame : Covers({mem}, g) => Covers({mem'}, g)
           /\ \A g \in Frame : Covers({mem} \cup OnDisk, g) => Covers({mem'} \cup OnDisk, g)
           /\ \A g \in Frame :
                 Covers({mem} \cup DataOf(tables), g) => Covers({mem'} \cup DataOf(tables), g)
           /\ Covers({mem'}, f)
           /\ Covers({mem'} \cup OnDisk, f) /\ Covers({mem'} \cup DataOf(tables), f)
  <1>1. /\ f \in Frame /\ mem \in Table /\ mem' \in Table /\ hist \subseteq Frame
        /\ OnDisk \subseteq Table /\ DataOf(tables) \subseteq Table /\ f \in Seq(Record)
    BY FramesAre, TablesAre, TablesAreNext DEF Tabled, Frame
  <1>2. nextSeq \in Nat /\ (\A k \in Keys : mem[k].seq =< nextSeq)
        /\ \A r \in ToSet(f) : r.seq =< nextSeq
    BY BoundedBy DEF Base, AgreeInv
  <1>3. Outdone({mem}, {mem'}) /\ Covers({mem'}, f) /\ Sound(hist', mem', {mem'})
    BY <1>1, <1>2, ApplySound DEF SoundInv
  <1>4. OnDisk' = OnDisk /\ Noted' = Noted /\ DataOf(tables)' = DataOf(tables)
    BY SameDisk DEF Noted, DataOf, mfVars
  <1>5. ASSUME NEW t, Sound(hist, t, OnDisk) PROVE Sound(hist', t, OnDisk)
    BY <1>1, <1>5, SoundMore, SelfOutdone
  <1>6. SoundInv'
    BY <1>3, <1>4, <1>5 DEF SoundInv
  <1>7. ASSUME NEW T \in SUBSET Table
        PROVE  /\ \A g \in Frame : Covers({mem} \cup T, g) => Covers({mem'} \cup T, g)
               /\ Covers({mem'} \cup T, f)
    <2>1. Outdone(T \cup {mem}, T \cup {mem'})
      BY <1>1, <1>3, OutdoneJoin
    <2>2. Outdone({mem} \cup T, {mem'} \cup T)
      BY <2>1 DEF Outdone
    <2>3. {mem} \cup T \subseteq Table /\ {mem'} \cup T \subseteq Table
      BY <1>1
    <2>4. Covers({mem'} \cup T, f)
      BY <1>3 DEF Covers
    <2> QED
      BY <2>2, <2>3, <2>4, CoversMore DEF Frame
  <1>8. \A g \in Frame : Covers({mem}, g) => Covers({mem'}, g)
    BY <1>1, <1>3, CoversMore DEF Frame
  <1> QED
    BY <1>1, <1>3, <1>6, <1>7, <1>8

LEMMA RecReplayFrame ==
    ASSUME Base, Base', RecInv, ReplayFrame
    PROVE  RecInv'
  <1> DEFINE f == frames[replayed + 1]
  <1>1. /\ pc = "replay" /\ pc' = "replay" /\ replayed < Len(frames) /\ replayed' = replayed + 1
        /\ mem' = MemApply(mem, f)
        /\ UNCHANGED <<walVars, mfVars, files, tables, pending, ghosts>>
    BY DEF ReplayFrame
  <1>2. replayed \in Nat /\ frames \in Seq(Frame)
    BY DEF Base, TypeInv, TypeOK, SessionTypeOK, WALTypeOK
  <1>3. replayed + 1 \in DOMAIN frames
    BY <1>1, <1>2
  <1>4. f \in ToSet(frames) /\ f \in Carried /\ f # <<>>
    BY <1>2, <1>3, FramesAre DEF ToSet, Frame
  <1>5. Replaying /\ f \in hist
    BY <1>1, <1>4 DEF RecInv, SessionInv, Replaying
  <1>6. Merged' = {} /\ hist' = hist
    BY <1>1 DEF Merged, DataOf, ghosts
  <1> HIDE DEF f
  <1>7. /\ SoundInv' /\ Covers({mem'}, f)
        /\ \A g \in Frame : Covers({mem}, g) => Covers({mem'}, g)
    BY <1>1, <1>4, <1>5, <1>6, SoundApply DEF RecInv
  <1>8. LogInv'
    BY <1>1 DEF RecInv, LogInv, walVars
  <1>9. DiskInv' /\ StableInv'
    BY <1>1, DiskStays, StableStays DEF RecInv, walVars, ghosts, mfVars
  <1>10. Replaying'
    <2>1. ASSUME NEW i \in DOMAIN frames, i =< replayed + 1
          PROVE  Covers({mem'}, frames[i])
      <3>1. CASE i =< replayed
        <4>1. frames[i] \in Frame
          BY <1>2
        <4>2. Covers({mem}, frames[i])
          BY <1>1, <1>5, <3>1 DEF Replaying
        <4> QED
          BY <1>7, <4>1, <4>2
      <3>2. CASE i = replayed + 1
        BY <1>7, <3>2 DEF f
      <3> QED
        BY <1>2, <2>1, <3>1, <3>2
    <2> QED
      BY <1>1, <1>5, <2>1 DEF Replaying, walVars, mfVars, ghosts
  <1>11. SessionInv'
    BY <1>1, <1>10 DEF SessionInv, Shown, LogHeld, Flushed, Replacing, Serving
  <1> QED
    BY <1>7, <1>8, <1>9, <1>11 DEF RecInv

LEMMA RecReplayDone ==
    ASSUME Base, Base', RecInv, ReplayDone
    PROVE  RecInv'
  <1>1. /\ pc = "replay" /\ pc' = "idle" /\ replayed = Len(frames) /\ mem' = mem
        /\ UNCHANGED <<walVars, mfVars, files, tables, pending, ghosts>>
    BY DEF ReplayDone
  <1>2. /\ frames \in Seq(Frame) /\ OnDisk \subseteq Table /\ mem \in Table
        /\ hist \subseteq Frame
    BY TablesAre, FramesAre DEF Tabled
  <1>3. /\ OnDisk' = OnDisk /\ DataOf(tables)' = DataOf(tables) /\ Noted' = Noted /\ Merged' = {}
        /\ DataOf(tables) = OnDisk
    BY <1>1, SameDisk DEF Noted, DataOf, mfVars, OnDisk, Merged, RecInv, SessionInv, Replaying
  <1>4. \A i \in DOMAIN frames : Covers({mem}, frames[i])
    BY <1>1, <1>2 DEF RecInv, SessionInv, Replaying
  <1>5. \A i \in DOMAIN frames : Covers({mem} \cup OnDisk, frames[i])
    BY <1>4 DEF Covers
  <1>6. \A f \in hist : Covers({mem} \cup OnDisk, f)
    <2> SUFFICES ASSUME NEW f \in hist PROVE Covers({mem} \cup OnDisk, f)
      OBVIOUS
    <2>1. CASE Covers(OnDisk, f)
      BY <2>1 DEF Covers
    <2>2. CASE f \in ToSet(frames)
      BY <2>2, <1>5 DEF ToSet
    <2> QED
      BY <1>1, <2>1, <2>2 DEF RecInv, DiskInv, InReach
  <1>7. Shown' /\ LogHeld'
    BY <1>1, <1>3, <1>5, <1>6 DEF Shown, LogHeld, walVars, ghosts
  <1>8. SessionInv'
    BY <1>1, <1>7 DEF SessionInv, Replaying, Flushed, Replacing
  <1>9. DiskInv' /\ StableInv'
    BY <1>1, DiskStays, StableStays DEF RecInv, walVars, ghosts, mfVars
  <1>10. LogInv' /\ SoundInv'
    BY <1>1, <1>3 DEF RecInv, LogInv, SoundInv, walVars, ghosts
  <1> QED
    BY <1>8, <1>9, <1>10 DEF RecInv

\* What the kernel has, a power failure may leave.
LEMMA FramesSurvive ==
    ASSUME Base
    PROVE  frames \in Survivors
  <1>1. frames \in Seq(Frame) /\ durable \in Seq(Frame)
    BY FramesAre
  <1>2. SubSeq(frames, 1, Len(frames)) = frames
    BY <1>1
  <1>3. IsPrefix(durable, frames) => Len(durable) =< Len(frames)
    BY <1>1, PrefixIs
  <1>4. Len(frames) \in Nat /\ Len(durable) \in Nat
    BY <1>1
  <1>5. Len(frames) \in (IF IsPrefix(durable, frames) THEN Len(durable) ELSE 0) .. Len(frames)
    BY <1>3, <1>4
  <1> QED
    BY <1>2, <1>5 DEF Survivors

\* After an fsync it leaves nothing else.
LEMMA SyncedSurvives ==
    ASSUME Base', durable' = frames'
    PROVE  Survivors' = {frames'}
  <1>1. frames' \in Seq(Frame)
    BY DEF Base, TypeInv, TypeOK, WALTypeOK
  <1>2. IsPrefix(durable', frames')
    BY <1>1, PrefixSelf
  <1>3. \A n \in Len(frames') .. Len(frames') : n = Len(frames')
    BY <1>1
  <1>4. SubSeq(frames', 1, Len(frames')) = frames'
    BY <1>1
  <1> QED
    BY <1>2, <1>3, <1>4 DEF Survivors

\* What the log and the tables reach.
LEMMA EndReached ==
    ASSUME Base, NEW f \in hist, Covers(OnDisk, f) \/ f \in ToSet(frames)
    PROVE  Reaches(frames, LastSeq(f))
  <1>1. f \in Frame /\ LastSeq(f) \in Nat /\ f[Len(f)] \in ToSet(f)
    BY FramesAre DEF Frame
  <1>2. CASE Covers(OnDisk, f)
    <2>1. PICK t \in OnDisk, k \in Keys : LastSeq(f) =< t[k].seq
      BY <1>1, <1>2, CoveredEnd
    <2>2. t[k].seq \in TableSeqs
      BY DEF TableSeqs, OnDisk
    <2> QED
      BY <2>1, <2>2 DEF Reaches
  <1>3. CASE f \in ToSet(frames)
    <2>1. LastSeq(f) \in SeqsIn(frames)
      BY <1>1, <1>3 DEF SeqsIn, FrameRecords, LastSeq
    <2> QED
      BY <1>1, <2>1 DEF Reaches
  <1> QED
    BY <1>2, <1>3

LEMMA HistSeqIs ==
    ASSUME Base
    PROVE  HistSeq \in Nat /\ (HistSeq = 0 \/ \E f \in hist : HistSeq = LastSeq(f))
  <1>1. {LastSeq(f) : f \in hist} \subseteq Nat
    BY FramesAre DEF Frame
  <1> QED
    BY <1>1, HighestSeqIn, HighestSeqType DEF HistSeq

LEMMA HistReached ==
    ASSUME Base, InReach, pc # "down"
    PROVE  HistSeq \in Nat /\ (HistSeq = 0 \/ Reaches(frames, HistSeq))
  BY HistSeqIs, EndReached DEF InReach

\* An fsync, and what it promises: q is reached already.
LEMMA StableSynced ==
    ASSUME Base, Base', StableInv, UNCHANGED <<files, mfDisk, frames>>, durable' = frames,
           NEW q \in Nat, q = 0 \/ Reaches(frames, q), stable' \in {stable, Larger(stable, q)}
    PROVE  \A s \in Survivors' : stable' = 0 \/ Reaches(s, stable)'
  <1>1. Survivors' = {frames}
    BY SyncedSurvives
  <1>2. stable = 0 \/ Reaches(frames, stable)
    BY FramesSurvive DEF StableInv
  <1>3. TableSeqs' = TableSeqs
    BY SameDisk
  <1>4. stable \in Nat
    BY DEF Base, TypeInv, TypeOK, GhostTypeOK
  <1>5. stable' = 0 \/ \E p \in SeqsIn(frames) \cup TableSeqs : stable' =< p
    BY <1>2, <1>4 DEF Reaches, Larger
  <1> QED
    BY <1>1, <1>3, <1>5 DEF Reaches

LEMMA PromiseKept ==
    ASSUME StableInv, Base, NEW q \in Nat, q = 0 \/ \E f \in hist' : q =< LastSeq(f),
           hist \subseteq hist', stable' \in {stable, Larger(stable, q)}, pc # "down"
    PROVE  stable' = 0 \/ \E f \in hist' : stable' =< LastSeq(f)
  <1>1. stable \in Nat
    BY DEF Base, TypeInv, TypeOK, GhostTypeOK
  <1>2. CASE stable' = stable
    BY <1>2 DEF StableInv
  <1>3. CASE stable' = Larger(stable, q)
    BY <1>1, <1>3 DEF StableInv, Larger
  <1> QED
    BY <1>2, <1>3

LEMMA RecBeginWrite ==
    ASSUME Base, Base', RecInv, NEW ops \in Seq(Op), ops # <<>>, BeginWrite(ops)
    PROVE  RecInv'
  <1> DEFINE f == NewFrame(ops)
  <1>1. /\ pc = "idle" /\ pc' = "sync" /\ pending' = f /\ mem' = mem
        /\ frames' = Append(frames, f)
        /\ UNCHANGED <<torn, durable, mfVars, files, tables, ghosts>>
    BY DEF BeginWrite, CanWrite, AppendFrame, RecInv, LogInv
  <1>2. /\ f \in Frame /\ \A r \in ToSet(f) : nextSeq < r.seq /\ r.seq =< nextSeq'
    BY <1>1, NewFrameConsecutive DEF Base
  <1>3. f[1] \in ToSet(f) /\ f[Len(f)] \in ToSet(f)
    BY <1>2, LastSeqIn
  <1>4. /\ frames \in Seq(Frame) /\ durable \in Seq(Frame) /\ hist \subseteq Frame
        /\ OnDisk \subseteq Table /\ mem \in Table
        /\ \A i \in DOMAIN frames : frames[i] \in Carried /\ frames[i] # <<>>
    BY FramesAre, TablesAre DEF Tabled, Frame
  <1>5. /\ nextSeq \in Nat
        /\ \A k \in Keys : mem[k].seq \in Nat /\ mem[k].seq =< nextSeq
        /\ \A g \in Carried : \A r \in ToSet(g) : r.seq =< nextSeq
        /\ \A n \in Named \cap DOMAIN files : \A k \in Keys : files[n].data[k].seq =< nextSeq
    BY <1>1, BoundedBy DEF Base, AgreeInv
  <1>6. nextSeq < LastSeq(f) /\ nextSeq < f[1].seq /\ LastSeq(f) \in Nat /\ f[1].seq \in Nat
    BY <1>2, <1>3, FrameSeqsAre DEF LastSeq, Frame
  <1>7. NewerThan(f, {mem} \cup OnDisk)
    <2>1. \A t \in OnDisk : \A k \in Keys : t[k].seq =< nextSeq
      BY <1>5, TablesAre DEF OnDisk, DataOf, Named, Tabled
    <2>2. \A t \in {mem} \cup OnDisk : \A k \in Keys : t[k].seq \in Nat /\ t[k].seq =< nextSeq
      BY <1>4, <1>5, <2>1, TableSeqsAre
    <2> QED
      BY <1>5, <1>6, <2>2 DEF NewerThan
  <1>8. \A i \in DOMAIN frames : LastSeq(frames[i]) =< nextSeq /\ LastSeq(frames[i]) \in Nat
    BY <1>4, <1>5, FramesAre DEF LastSeq
  <1> HIDE DEF f
  <1>9. /\ Len(frames') = Len(frames) + 1 /\ frames' \in Seq(Frame)
        /\ DOMAIN frames' = DOMAIN frames \cup {Len(frames) + 1}
        /\ frames'[Len(frames) + 1] = f /\ frames' # <<>>
        /\ \A i \in DOMAIN frames : frames'[i] = frames[i] /\ i < Len(frames) + 1
        /\ DOMAIN frames \subseteq Nat
    BY <1>1, <1>2, <1>4
  <1>10. ToSet(frames) \subseteq ToSet(frames')
    BY <1>9 DEF ToSet
  <1>11. LogInv'
    <2>1. ASSUME NEW i \in DOMAIN frames', NEW j \in DOMAIN frames', i < j
          PROVE  LastSeq(frames'[i]) < frames'[j][1].seq
      <3>1. i \in DOMAIN frames
        BY <1>9, <2>1
      <3>2. CASE j \in DOMAIN frames
        BY <1>9, <2>1, <3>1, <3>2 DEF RecInv, LogInv, Ordered
      <3>3. CASE j = Len(frames) + 1
        BY <1>5, <1>6, <1>8, <1>9, <3>1, <3>3
      <3> QED
        BY <1>9, <3>2, <3>3
    <2>2. Ordered(frames')
      BY <2>1 DEF Ordered
    <2> QED
      BY <1>1, <1>9, <2>2 DEF RecInv, LogInv
  <1>12. /\ OnDisk' = OnDisk /\ DataOf(tables)' = DataOf(tables) /\ Noted' = Noted
         /\ Merged' = {} /\ hist' = hist
    BY <1>1, SameDisk DEF Noted, DataOf, mfVars, Merged, ghosts
  <1>13. SoundInv'
    BY <1>1, <1>12 DEF RecInv, SoundInv
  <1>14. ASSUME NEW i \in DOMAIN frames, Synced(i)
         PROVE  i =< Len(durable') /\ IsPrefix(durable', frames')
    BY <1>1, <1>2, <1>4, <1>14, PrefixAppend DEF Synced
  <1>15. DiskInv'
    <2>1. InReach'
      BY <1>1, <1>10, <1>12 DEF RecInv, DiskInv, InReach
    <2>2. Orderly'
      <3> SUFFICES ASSUME NEW i \in DOMAIN frames'
                   PROVE  \/ i =< Len(durable') /\ IsPrefix(durable', frames')
                          \/ Covers(OnDisk, frames'[i]) \/ NewerThan(frames'[i], OnDisk)
        BY <1>12 DEF Orderly, Synced
      <3>1. CASE i \in DOMAIN frames
        BY <1>9, <1>14, <3>1 DEF RecInv, DiskInv, Orderly
      <3>2. CASE i = Len(frames) + 1
        BY <1>7, <1>9, <3>2, NewerThanJoin
      <3> QED
        BY <1>9, <3>1, <3>2
    <2>3. Redundant'
      BY <1>1, <1>2, <1>4, <1>12, PrefixAppend DEF RecInv, DiskInv, Redundant
    <2>4. Behind'
      BY <1>12 DEF RecInv, DiskInv, Behind
    <2> QED
      BY <2>1, <2>2, <2>3, <2>4 DEF DiskInv
  <1>16. LogHeld'
    <2> SUFFICES ASSUME NEW i \in DOMAIN frames'
                 PROVE  \/ Covers({mem} \cup OnDisk, frames'[i])
                        \/ frames'[i] = f
                        \/ /\ "walSync" \in Faults
                           /\ \/ i =< Len(durable') /\ IsPrefix(durable', frames')
                              \/ NewerThan(frames'[i], {mem} \cup OnDisk)
      BY <1>1, <1>7, <1>12 DEF LogHeld, Synced
    <2>1. CASE i \in DOMAIN frames
      BY <1>1, <1>9, <1>14, <2>1 DEF RecInv, SessionInv, LogHeld, Serving
    <2>2. CASE i = Len(frames) + 1
      BY <1>9, <2>2
    <2> QED
      BY <1>9, <2>1, <2>2
  <1>17. SessionInv'
    BY <1>1, <1>12, <1>16
       DEF RecInv, SessionInv, Replaying, Shown, Flushed, Replacing, Serving
  <1>18. StableInv'
    <2>1. stable' = stable /\ stable \in Nat
      BY <1>1 DEF ghosts, Base, TypeInv, TypeOK, GhostTypeOK
    <2>2. SeqsIn(frames) \subseteq SeqsIn(frames')
      BY <1>10 DEF SeqsIn, FrameRecords
    <2>3. frames \in Survivors
      BY FramesSurvive
    <2>4. ASSUME NEW s \in Survivors' PROVE s \in Survivors \/ s = frames'
      <3>1. CASE s = durable'
        BY <1>1, <3>1 DEF Survivors
      <3>2. ASSUME NEW n \in (IF IsPrefix(durable', frames') THEN Len(durable') ELSE 0) .. Len(frames'),
                   s = SubSeq(frames', 1, n)
            PROVE  s \in Survivors \/ s = frames'
        <4>1. CASE n = Len(frames')
          BY <1>9, <3>2, <4>1
        <4>2. CASE n =< Len(frames)
          <5>1. n \in Nat
            BY <1>4, <1>1
          <5>2. s = SubSeq(frames, 1, n)
            BY <1>1, <1>2, <1>4, <3>2, <4>2, <5>1
          <5>3. IsPrefix(durable, frames) => Len(durable) =< n
            BY <1>1, <1>2, <1>4, PrefixAppend
          <5> QED
            BY <1>4, <4>2, <5>1, <5>2, <5>3 DEF Survivors
        <4> QED
          BY <1>9, <1>4, <1>1, <4>1, <4>2
      <3> QED
        BY <3>1, <3>2, <2>4 DEF Survivors
    <2>5. ASSUME NEW s \in Survivors' PROVE stable = 0 \/ Reaches(s, stable)'
      <3>1. CASE s \in Survivors
        BY <1>1, <2>1, <3>1, SameDisk DEF RecInv, StableInv, Reaches, mfVars
      <3>2. CASE s = frames'
        BY <1>1, <2>1, <2>2, <2>3, <3>2, SameDisk DEF RecInv, StableInv, Reaches, mfVars
      <3> QED
        BY <2>4, <3>1, <3>2
    <2> QED
      BY <1>1, <1>12, <2>1, <2>5 DEF RecInv, StableInv
  <1> QED
    BY <1>11, <1>13, <1>15, <1>17, <1>18 DEF RecInv

LEMMA RecFinishWrite ==
    ASSUME Base, Base', Harmless, RecInv, FinishWrite
    PROVE  RecInv'
  <1>1. /\ pc = "sync" /\ pc' \in {"flushAlloc", "idle"} /\ mem' = MemApply(mem, pending)
        /\ hist' = hist \cup {pending} /\ pending' = <<>>
        /\ UNCHANGED <<frames, torn, mfVars, files, tables>>
        /\ durable' \in {durable, frames}
        /\ SyncPolicy = "SyncFull" => durable' = frames
        /\ stable' = IF SyncPolicy = "SyncFull" THEN Larger(stable, LastSeq(pending)) ELSE stable
    BY DEF FinishWrite, Fsync, SyncDue
  <1>2. /\ frames \in Seq(Frame) /\ durable \in Seq(Frame) /\ hist \subseteq Frame
        /\ OnDisk \subseteq Table /\ mem \in Table
        /\ \A i \in DOMAIN frames : frames[i] \in Frame
    BY FramesAre, TablesAre DEF Tabled, Frame
  <1>3. pending \in ToSet(frames) /\ pending \in Carried /\ pending # <<>>
    <2>1. frames # <<>> /\ frames[Len(frames)] = pending
      BY <1>1 DEF RecInv, LogInv
    <2>2. Len(frames) \in DOMAIN frames
      BY <1>2, <2>1
    <2> QED
      BY <2>1, <2>2, <1>2, FramesAre DEF ToSet, Frame
  <1>4. pending \in Frame
    BY <1>3, FramesAre
  <1>5. Merged' = {}
    BY <1>1 DEF Merged, DataOf
  <1>6. /\ SoundInv'
        /\ \A g \in Frame : Covers({mem} \cup OnDisk, g) => Covers({mem'} \cup OnDisk, g)
        /\ \A g \in Frame :
              Covers({mem} \cup DataOf(tables), g) => Covers({mem'} \cup DataOf(tables), g)
        /\ Covers({mem'} \cup OnDisk, pending) /\ Covers({mem'} \cup DataOf(tables), pending)
    BY <1>1, <1>3, <1>5, SoundApply DEF RecInv
  <1>7. /\ OnDisk' = OnDisk /\ DataOf(tables)' = DataOf(tables) /\ Noted' = Noted
        /\ TableSeqs' = TableSeqs
    BY <1>1, SameDisk DEF Noted, DataOf, mfVars
  <1>8. LogInv'
    BY <1>1 DEF RecInv, LogInv
  <1>9. durable' = frames =>
           \A i \in DOMAIN frames : i =< Len(durable') /\ IsPrefix(durable', frames')
    BY <1>1, <1>2, PrefixSelf
  <1>10. \A i \in DOMAIN frames : Synced(i) => i =< Len(durable') /\ IsPrefix(durable', frames')
    BY <1>1, <1>9 DEF Synced
  <1>11. DiskInv'
    <2>1. Behind'
      BY <1>7 DEF RecInv, DiskInv, Behind
    <2>2. InReach'
      BY <1>1, <1>3, <1>7 DEF RecInv, DiskInv, InReach
    <2>3. Orderly'
      BY <1>1, <1>7, <1>10 DEF RecInv, DiskInv, Orderly, Synced
    <2>4. Redundant'
      BY <1>1, <1>2, <1>7, PrefixSelf DEF RecInv, DiskInv, Redundant
    <2> QED
      BY <2>1, <2>2, <2>3, <2>4 DEF DiskInv
  <1>12. Shown'
    BY <1>1, <1>2, <1>4, <1>6, <1>7 DEF RecInv, SessionInv, Shown, Serving
  <1>13. LogHeld'
    <2>1. CASE "walSync" \in Faults
      BY <1>1, <1>9, <2>1 DEF Harmless, LogHeld, Synced
    <2>2. CASE "walSync" \notin Faults
      BY <1>1, <1>2, <1>6, <1>7, <2>2 DEF RecInv, SessionInv, LogHeld, Serving
    <2> QED
      BY <2>1, <2>2
  <1>14. SessionInv'
    BY <1>1, <1>12, <1>13 DEF SessionInv, Replaying, Flushed, Replacing
  <1>15. LastSeq(pending) \in Nat /\ Reaches(frames, LastSeq(pending))
    <2>1. LastSeq(pending) \in Nat /\ pending[Len(pending)] \in ToSet(pending)
      BY <1>3, FramesAre
    <2>2. LastSeq(pending) \in SeqsIn(frames)
      BY <1>3, <2>1 DEF SeqsIn, FrameRecords, LastSeq
    <2> QED
      BY <2>1, <2>2 DEF Reaches
  <1>16. StableInv'
    <2>1. \A s \in Survivors' : stable' = 0 \/ Reaches(s, stable)'
      <3>1. CASE durable' = frames
        BY <1>1, <1>15, <3>1, StableSynced DEF RecInv, mfVars
      <3>2. CASE durable' = durable /\ stable' = stable
        <4>1. Survivors' = Survivors
          BY <1>1, <3>2 DEF Survivors
        <4> QED
          BY <1>7, <3>2, <4>1 DEF RecInv, StableInv, Reaches
      <3> QED
        BY <1>1, <3>1, <3>2
    <2>2. stable' = 0 \/ \E f \in hist' : stable' =< LastSeq(f)
      <3>1. pending \in hist' /\ LastSeq(pending) =< LastSeq(pending)
        BY <1>1, <1>15
      <3> QED
        BY <1>1, <1>15, <3>1, PromiseKept DEF RecInv
    <2> QED
      BY <2>1, <2>2 DEF StableInv
  <1> QED
    BY <1>6, <1>8, <1>11, <1>14, <1>16 DEF RecInv

LEMMA RecSync ==
    ASSUME Base, Base', RecInv, Sync
    PROVE  RecInv'
  <1>1. /\ pc = "idle" /\ pc' = "idle" /\ durable' = frames /\ stable' = Larger(stable, HistSeq)
        /\ UNCHANGED <<frames, torn, mfVars, files, tables, mem, pending, replayed, hist>>
    BY DEF Sync, Fsync, dbVars, volatile
  <1>2. frames \in Seq(Frame)
    BY FramesAre
  <1>3. /\ OnDisk' = OnDisk /\ DataOf(tables)' = DataOf(tables) /\ Noted' = Noted /\ Merged' = {}
    BY <1>1, SameDisk DEF Noted, DataOf, mfVars, Merged
  <1>4. \A i \in DOMAIN frames : i =< Len(durable') /\ IsPrefix(durable', frames')
    BY <1>1, <1>2, PrefixSelf
  <1>5. LogInv' /\ SoundInv'
    BY <1>1, <1>3 DEF RecInv, LogInv, SoundInv
  <1>6. DiskInv'
    BY <1>1, <1>2, <1>3, <1>4, PrefixSelf
       DEF RecInv, DiskInv, Behind, InReach, Orderly, Synced, Redundant
  <1>7. SessionInv'
    BY <1>1, <1>3, <1>4
       DEF RecInv, SessionInv, Replaying, Shown, LogHeld, Synced, Serving, Flushed, Replacing
  <1>8. HistSeq \in Nat /\ (HistSeq = 0 \/ Reaches(frames, HistSeq))
    BY <1>1, HistReached DEF RecInv, DiskInv
  <1>9. StableInv'
    <2>1. \A s \in Survivors' : stable' = 0 \/ Reaches(s, stable)'
      BY <1>1, <1>8, StableSynced DEF RecInv, mfVars
    <2>2. HistSeq = 0 \/ \E f \in hist' : HistSeq =< LastSeq(f)
      BY <1>1, <1>8, HistSeqIs
    <2>3. stable' = 0 \/ \E f \in hist' : stable' =< LastSeq(f)
      BY <1>1, <1>8, <2>2, PromiseKept DEF RecInv
    <2> QED
      BY <2>1, <2>3 DEF StableInv
  <1> QED
    BY <1>5, <1>6, <1>7, <1>9 DEF RecInv

LEMMA EmptyAddsNothing ==
    ASSUME NEW T \in SUBSET Table, NEW f \in Frame,
           \A r \in ToSet(f) : r.seq > 0, Covers({EmptyTable} \cup T, f)
    PROVE  Covers(T, f)
  <1>1. \A r \in ToSet(f) : r.key \in Keys /\ r.seq \in Nat
    BY FrameSeqsAre DEF Frame
  <1>2. \A k \in Keys : EmptyTable[k].seq = 0
    BY DEF EmptyTable, NoVersion
  <1> QED
    BY <1>1, <1>2 DEF Covers

\* The flushed table is read in the place of the memtable.
LEMMA RecFlushOpen ==
    ASSUME Base, Base', FilesKept, RecInv, FlushOpen
    PROVE  RecInv'
  <1>1. CASE UNCHANGED <<tables, mem>> /\ pc' \in {"idle", "closing"}
    <2>1. pc = "flushOpen" /\ UNCHANGED <<mfVars, walVars, ghosts>>
      BY DEF FlushOpen
    <2> QED
      BY <1>1, <2>1, QuietRec DEF Serving, walVars, ghosts
  <1>2. CASE tables' = tables \cup {LastAllocated} /\ mem' = EmptyTable /\ pc' = "flushReset"
    <2>1. /\ pc = "flushOpen"
          /\ UNCHANGED <<frames, durable, torn, mfVars, files, pending, replayed, hist, stable>>
      BY DEF FlushOpen, walVars, ghosts
    <2>2. files[LastAllocated].data = mem /\ LastAllocated \in FileNos(mfDisk)
      BY <2>1 DEF RecInv, SessionInv, Flushed
    <2>3. /\ OnDisk \subseteq Table /\ mem \in Table /\ DataOf(tables) \subseteq Table
          /\ EmptyTable \in Table /\ hist \subseteq Frame
          /\ \A i \in DOMAIN frames : frames[i] \in Frame /\ LastSeq(frames[i]) > 0
      BY TablesAre, FramesAre, EmptyTableType DEF Tabled, Frame
    <2>4. /\ OnDisk' = OnDisk /\ DataOf(tables)' = DataOf(tables) \cup {mem}
          /\ Noted' = Noted /\ Merged' = {} /\ mem \in OnDisk
      BY <1>2, <2>1, <2>2, SameDisk DEF Noted, DataOf, mfVars, Merged, OnDisk
    <2>5. ASSUME NEW T \in SUBSET Table, mem \in T, NEW f \in Frame, Covers({mem} \cup T, f)
          PROVE  Covers({EmptyTable} \cup T, f)
      BY <2>5 DEF Covers
    <2>6. ASSUME NEW f \in Frame, Covers({mem} \cup DataOf(tables), f)
          PROVE  Covers({EmptyTable} \cup (DataOf(tables) \cup {mem}), f)
      BY <2>6 DEF Covers
    <2>7. LogInv'
      BY <1>2, <2>1 DEF RecInv, LogInv
    <2>8. SoundInv'
      BY <1>2, <2>1, <2>4, EmptyIsSound DEF RecInv, SoundInv
    <2>9. DiskInv' /\ StableInv'
      BY <1>2, <2>1, DiskStays, StableStays DEF RecInv, mfVars
    <2>10. Shown'
      BY <1>2, <2>1, <2>3, <2>4, <2>5, <2>6 DEF RecInv, SessionInv, Shown, Serving
    <2>11. ASSUME NEW f \in Frame, LastSeq(f) > 0, NewerThan(f, {mem} \cup OnDisk)
           PROVE  NewerThan(f, {EmptyTable} \cup OnDisk)
      <3>1. NewerThan(f, {EmptyTable})
        BY <2>11 DEF NewerThan, EmptyTable, NoVersion
      <3> QED
        BY <2>11, <3>1, NewerThanJoin
    <2>12. LogHeld'
      BY <1>2, <2>1, <2>3, <2>4, <2>5, <2>11
         DEF RecInv, SessionInv, LogHeld, Serving, Synced
    <2>13. SessionInv'
      BY <1>2, <2>10, <2>12 DEF SessionInv, Replaying, Flushed, Replacing
    <2> QED
      BY <2>7, <2>8, <2>9, <2>13 DEF RecInv
  <1> QED
    BY <1>1, <1>2 DEF FlushOpen, FlushFails

\* The log is cut when the tables cover all it holds.
LEMMA RecFlushReset ==
    ASSUME Base, Base', FilesKept, Harmless, RecInv, FlushReset
    PROVE  RecInv'
  <1>1. /\ pc = "flushReset" /\ pc' \in {"idle", "closing"}
        /\ UNCHANGED <<mfVars, files, mem, tables, pending, replayed, hist>>
    BY DEF FlushReset, FlushFails
  <1>2. CASE UNCHANGED <<walVars, stable>>
    BY <1>1, <1>2, QuietRec DEF Serving, walVars
  <1>3. CASE /\ frames' = <<>> /\ torn' = FALSE /\ stable' \in {stable, Larger(stable, HistSeq)}
             /\ durable' = <<>> \/ (durable' = durable /\ stable' = stable
                                      /\ "walResetSync" \in Faults)
    <2>1. /\ OnDisk \subseteq Table /\ hist \subseteq Frame /\ durable \in Seq(Frame)
          /\ \A f \in hist : f \in Frame /\ \A r \in ToSet(f) : r.seq > 0
          /\ \A i \in DOMAIN frames : frames[i] \in Frame /\ \A r \in ToSet(frames[i]) : r.seq > 0
          /\ frames \in Seq(Frame)
      BY TablesAre, FramesAre DEF Tabled, Frame
    <2>2. mem = EmptyTable
      BY <1>1 DEF RecInv, SessionInv, Flushed
    <2>3. \A f \in hist : Covers(OnDisk, f)
      BY <1>1, <2>1, <2>2, EmptyAddsNothing DEF RecInv, SessionInv, Shown, Serving
    <2>4. /\ OnDisk' = OnDisk /\ DataOf(tables)' = DataOf(tables) /\ Noted' = Noted
          /\ Merged' = {} /\ TableSeqs' = TableSeqs
      BY <1>1, SameDisk DEF Noted, DataOf, mfVars, Merged
    <2>5. Ordered(<<>>) /\ IsPrefix(<<>>, <<>>)
      <3>1. <<>> \in Seq(Frame)
        OBVIOUS
      <3>2. IsPrefix(<<>>, <<>>)
        BY <3>1, PrefixSelf
      <3> QED
        BY <3>2 DEF Ordered
    <2>6. LogInv'
      BY <1>1, <1>3, <2>5 DEF RecInv, LogInv
    <2>7. SoundInv'
      BY <1>1, <2>4 DEF RecInv, SoundInv
    <2>8. Redundant'
      <3>1. CASE durable' = <<>>
        BY <1>3, <2>5, <3>1 DEF Redundant
      <3>2. CASE durable' = durable /\ "walResetSync" \in Faults
        <4>1. CASE IsPrefix(durable, frames)
          <5>1. "walSync" \notin Faults
            BY <3>2 DEF Harmless
          <5>2. \A i \in DOMAIN frames : Covers(OnDisk, frames[i])
            BY <1>1, <2>1, <2>2, <5>1, EmptyAddsNothing
               DEF RecInv, SessionInv, LogHeld, Serving
          <5>3. \A i \in DOMAIN durable : i \in DOMAIN frames /\ durable[i] = frames[i]
            BY <2>1, <4>1, PrefixIs
          <5> QED
            BY <2>4, <3>2, <5>2, <5>3 DEF Redundant
        <4>2. CASE ~IsPrefix(durable, frames)
          BY <2>4, <3>2, <4>2 DEF RecInv, DiskInv, Redundant
        <4> QED
          BY <4>1, <4>2
      <3> QED
        BY <1>3, <3>1, <3>2
    <2>9. DiskInv'
      BY <1>1, <1>3, <2>3, <2>4, <2>8 DEF RecInv, DiskInv, Behind, InReach, Orderly
    <2>10. SessionInv'
      <3>1. Shown'
        BY <1>1, <2>4 DEF RecInv, SessionInv, Shown, Serving
      <3>2. LogHeld'
        BY <1>3 DEF LogHeld
      <3>3. Replaying' /\ Flushed' /\ Replacing'
        BY <1>1 DEF Replaying, Flushed, Replacing
      <3> QED
        BY <3>1, <3>2, <3>3 DEF SessionInv
    <2>11. stable \in Nat /\ HistSeq \in Nat
      BY HistSeqIs DEF Base, TypeInv, TypeOK, GhostTypeOK
    <2>12. \A f \in hist : LastSeq(f) \in Nat /\ \E q \in TableSeqs : LastSeq(f) =< q
      <3> SUFFICES ASSUME NEW f \in hist
                   PROVE  LastSeq(f) \in Nat /\ \E q \in TableSeqs : LastSeq(f) =< q
        OBVIOUS
      <3>1. PICK t \in OnDisk, k \in Keys : LastSeq(f) =< t[k].seq
        BY <2>1, <2>3, CoveredEnd
      <3> QED
        BY <2>1, <3>1, LastSeqType DEF TableSeqs, OnDisk
    <2>13. TableSeqs \subseteq Nat
      BY <2>1, TableSeqsAre DEF TableSeqs, OnDisk
    <2>14. stable' = 0 \/ \E f \in hist : stable' =< LastSeq(f)
      BY <1>1, <1>3, HistSeqIs, PromiseKept, <2>11, <2>12 DEF RecInv
    <2>15. stable' = 0 \/ \E q \in TableSeqs : stable' =< q
      BY <1>3, <2>11, <2>12, <2>13, <2>14 DEF Larger
    <2>16. \A s \in Survivors' : s = <<>> \/ (s = durable /\ durable' = durable
                                                /\ stable' = stable)
      <3>1. \A n \in Int : SubSeq(frames', 1, n) = <<>> \/ n > 0
        BY <1>3
      <3>2. \A n \in 0 .. 0 : SubSeq(<<>>, 1, n) = <<>>
        OBVIOUS
      <3>3. (IF IsPrefix(durable', frames') THEN Len(durable') ELSE 0) \in Nat
        BY <1>3, <2>1
      <3>4. \A n \in (IF IsPrefix(durable', frames') THEN Len(durable') ELSE 0) .. Len(frames') :
                n \in 0 .. 0
        BY <1>3, <3>3
      <3> QED
        BY <1>3, <3>2, <3>4 DEF Survivors
    <2>17. \A s \in Survivors' : stable' = 0 \/ Reaches(s, stable)'
      <3>1. ASSUME NEW s \in Survivors', stable' # 0
            PROVE  \E q \in SeqsIn(s) \cup TableSeqs : stable' =< q
        BY <2>15, <3>1
      <3> QED
        BY <2>4, <3>1 DEF Reaches
    <2>18. StableInv'
      BY <1>1, <2>14, <2>17 DEF StableInv
    <2> QED
      BY <2>6, <2>7, <2>9, <2>10, <2>18 DEF RecInv
  <1> QED
    BY <1>2, <1>3 DEF FlushReset, ResetLog, ResetLogUnsynced, Fault, FlushFails

-----------------------------------------------------------------------------
(* Crashes and recoveries.                                                   *)

LEMMA SeqsInIs ==
    ASSUME NEW fs \in Seq(Frame), NEW q \in SeqsIn(fs)
    PROVE  \E i \in DOMAIN fs : \E r \in ToSet(fs[i]) : q = r.seq
  BY DEF SeqsIn, FrameRecords, ToSet

\* A survivor is the log up to some frame, with all that is synced, or the log
\* that an unsynced Reset cut.
LEMMA SurvivorShape ==
    ASSUME Base, NEW s \in Survivors
    PROVE  /\ s \in Seq(Frame)
           /\ \/ s = durable /\ ~IsPrefix(durable, frames)
              \/ \E n \in 0 .. Len(frames) : /\ Len(s) = n /\ \A i \in 1 .. n : s[i] = frames[i]
                                             /\ \A i \in DOMAIN frames : Synced(i) => i =< n
  <1>1. frames \in Seq(Frame) /\ durable \in Seq(Frame)
    BY FramesAre
  <1>2. s \in Seq(Frame)
    BY SurvivorFrames DEF Base, TypeInv, TypeOK
  <1>3. CASE s = durable
    BY <1>1, <1>3, PrefixIs DEF Synced
  <1>4. ASSUME NEW n \in (IF IsPrefix(durable, frames) THEN Len(durable) ELSE 0) .. Len(frames),
               s = SubSeq(frames, 1, n)
        PROVE  \E m \in 0 .. Len(frames) : /\ Len(s) = m /\ \A i \in 1 .. m : s[i] = frames[i]
                                           /\ \A i \in DOMAIN frames : Synced(i) => i =< m
    <2>1. n \in 0 .. Len(frames) /\ (IsPrefix(durable, frames) => Len(durable) =< n)
      BY <1>1
    <2>2. Len(s) = n /\ \A i \in 1 .. n : s[i] = frames[i]
      BY <1>1, <1>4, <2>1
    <2>3. \A i \in DOMAIN frames : Synced(i) => i =< n
      BY <1>1, <2>1 DEF Synced
    <2> QED
      BY <2>1, <2>2, <2>3
  <1> QED
    BY <1>2, <1>3, <1>4 DEF Survivors

LEMMA SurvivorOrdered ==
    ASSUME Base, LogInv, NEW s \in Survivors
    PROVE  Ordered(s)
  <1>1. CASE s = durable
    BY <1>1 DEF LogInv
  <1>2. ASSUME NEW n \in 0 .. Len(frames), Len(s) = n, \A i \in 1 .. n : s[i] = frames[i]
        PROVE  Ordered(s)
    <2>1. s \in Seq(Frame) /\ frames \in Seq(Frame)
      BY SurvivorShape, FramesAre
    <2>2. DOMAIN s = 1 .. n /\ 1 .. n \subseteq DOMAIN frames
      BY <1>2, <2>1
    <2> QED
      BY <1>2, <2>2 DEF LogInv, Ordered
  <1> QED
    BY <1>1, <1>2, SurvivorShape

\* What became of a write, whatever survives of the log: it is in a table, it
\* is in the log, or it is later than all that is in either.
LEMMA LostOrLeft ==
    ASSUME Base, LogInv, DiskInv, NEW s \in Survivors, NEW f \in hist
    PROVE  Covers(OnDisk, f) \/ f \in ToSet(s) \/ Lost(f, s, OnDisk)
  <1>1. /\ s \in Seq(Frame) /\ frames \in Seq(Frame) /\ durable \in Seq(Frame)
        /\ OnDisk \subseteq Table /\ f \in Frame /\ LastSeq(f) \in Nat
        /\ \A i \in DOMAIN frames :
              /\ frames[i] \in Carried /\ frames[i] # <<>>
              /\ frames[i][1].seq =< LastSeq(frames[i]) /\ frames[i][1].seq \in Nat
              /\ LastSeq(frames[i]) \in Nat
              /\ \A r \in ToSet(frames[i]) : r.seq \in Nat /\ r.seq =< LastSeq(frames[i])
    BY SurvivorShape, FramesAre, TablesAre DEF Tabled, Frame, LastSeq
  <1>2. \/ Covers(OnDisk, f)
        \/ \E i \in DOMAIN frames : f = frames[i]
        \/ Lost(f, frames, OnDisk)
    BY DEF DiskInv, InReach, ToSet
  <1>3. CASE s = durable /\ ~IsPrefix(durable, frames)
    <2>1. \A i \in DOMAIN durable : Covers(OnDisk, durable[i])
      BY <1>3 DEF DiskInv, Redundant
    <2>2. ASSUME NewerThan(f, OnDisk) PROVE Lost(f, s, OnDisk)
      <3> SUFFICES ASSUME NEW q \in SeqsIn(s) PROVE q < LastSeq(f)
        BY <2>2 DEF Lost
      <3>0. PICK i \in DOMAIN s : \E r \in ToSet(s[i]) : q = r.seq
        BY <1>1, SeqsInIs
      <3>1. PICK r \in ToSet(s[i]) : q = r.seq
        BY <3>0
      <3>2. r.key \in Keys /\ r.seq \in Nat
        BY <1>1, FrameSeqsAre DEF Frame
      <3>3. PICK t \in OnDisk : r.seq =< t[r.key].seq
        BY <1>3, <2>1 DEF Covers
      <3>4. t[r.key].seq < LastSeq(f) /\ t[r.key].seq \in Nat
        BY <1>1, <2>2, <3>2, TableSeqsAre DEF NewerThan
      <3> QED
        BY <1>1, <3>1, <3>2, <3>3, <3>4
    <2>3. \A i \in DOMAIN frames : ~Synced(i)
      BY <1>3 DEF Synced
    <2> QED
      BY <1>2, <2>2, <2>3 DEF DiskInv, Orderly, Lost
  <1>4. ASSUME NEW n \in 0 .. Len(frames), Len(s) = n, \A i \in 1 .. n : s[i] = frames[i],
               \A i \in DOMAIN frames : Synced(i) => i =< n
        PROVE  Covers(OnDisk, f) \/ f \in ToSet(s) \/ Lost(f, s, OnDisk)
    <2>1. DOMAIN s = 1 .. n /\ 1 .. n \subseteq DOMAIN frames
      BY <1>1, <1>4
    <2>2. ASSUME NEW i \in DOMAIN frames, f = frames[i], i =< n
          PROVE  f \in ToSet(s)
      <3>1. i \in 1 .. n
        BY <1>1, <2>2
      <3> QED
        BY <1>4, <2>1, <2>2, <3>1 DEF ToSet
    <2>3. ASSUME NEW i \in DOMAIN frames, f = frames[i], ~(i =< n), NewerThan(f, OnDisk)
          PROVE  Lost(f, s, OnDisk)
      <3> SUFFICES ASSUME NEW q \in SeqsIn(s) PROVE q < LastSeq(f)
        BY <2>3 DEF Lost
      <3>0. PICK j \in DOMAIN s : \E r \in ToSet(s[j]) : q = r.seq
        BY <1>1, SeqsInIs
      <3>1. PICK r \in ToSet(s[j]) : q = r.seq
        BY <3>0
      <3>2. j \in DOMAIN frames /\ s[j] = frames[j] /\ j < i
        BY <1>1, <1>4, <2>1, <2>3
      <3>3. LastSeq(frames[j]) < frames[i][1].seq
        BY <3>2 DEF LogInv, Ordered
      <3>4. r.seq \in Nat /\ r.seq =< LastSeq(frames[j]) /\ LastSeq(frames[j]) \in Nat
        BY <1>1, <3>1, <3>2
      <3> QED
        BY <1>1, <2>3, <3>1, <3>3, <3>4
    <2>4. ASSUME Lost(f, frames, OnDisk) PROVE Lost(f, s, OnDisk)
      <3>1. SeqsIn(s) \subseteq SeqsIn(frames)
        <4>1. ToSet(s) \subseteq ToSet(frames)
          BY <1>4, <2>1 DEF ToSet
        <4> QED
          BY <4>1 DEF SeqsIn, FrameRecords
      <3> QED
        BY <2>4, <3>1 DEF Lost
    <2>5. ASSUME NEW i \in DOMAIN frames, f = frames[i]
          PROVE  Covers(OnDisk, f) \/ f \in ToSet(s) \/ Lost(f, s, OnDisk)
      <3>1. CASE i =< n
        BY <2>2, <2>5, <3>1
      <3>2. CASE ~(i =< n)
        <4>1. ~Synced(i)
          BY <1>4, <3>2
        <4>2. Covers(OnDisk, frames[i]) \/ NewerThan(frames[i], OnDisk)
          BY <4>1 DEF DiskInv, Orderly
        <4> QED
          BY <2>3, <2>5, <3>2, <4>2
      <3> QED
        BY <3>1, <3>2
    <2> QED
      BY <1>2, <2>4, <2>5
  <1> QED
    BY <1>3, <1>4, SurvivorShape

LEMMA RecDown ==
    ASSUME Base, Base', RecInv, pc' = "down", UNCHANGED <<files, mfDisk, hist>>,
           Outdone(OnDisk, Noted'), Noted' \subseteq OnDisk \cup Noted,
           DataOf(tables)' \subseteq DataOf(tables),
           NEW s \in Survivors, frames' = s, durable' = s \/ (s = frames /\ durable' = durable),
           \A z \in Survivors' : stable' = 0 \/ Reaches(z, stable)'
    PROVE  RecInv'
  <1>1. OnDisk' = OnDisk /\ Merged' = {}
    BY SameDisk DEF Merged, DataOf
  <1>2. mem' = EmptyTable
    BY DEF Base, AgreeInv, RestInv
  <1>3. s \in Seq(Frame)
    BY SurvivorShape
  <1>4. IsPrefix(s, s) /\ \A i \in DOMAIN s : i =< Len(s)
    BY <1>3, PrefixSelf
  <1>5. LogInv'
    BY SurvivorOrdered DEF RecInv, LogInv
  <1>6. SoundInv'
    BY <1>1, <1>2, EmptyIsSound DEF RecInv, SoundInv
  <1>7. InReach'
    BY <1>1, LostOrLeft DEF InReach, RecInv
  <1>8. Orderly' /\ Redundant'
    <2>1. CASE durable' = s
      BY <1>4, <2>1 DEF Orderly, Synced, Redundant
    <2>2. CASE s = frames /\ durable' = durable
      BY <1>1, <2>2 DEF RecInv, DiskInv, Orderly, Synced, Redundant
    <2> QED
      BY <2>1, <2>2
  <1>9. DiskInv'
    BY <1>1, <1>7, <1>8 DEF DiskInv, Behind
  <1>10. SessionInv'
    BY DEF SessionInv, Replaying, Shown, LogHeld, Flushed, Replacing, Serving
  <1>11. StableInv'
    BY DEF StableInv
  <1> QED
    BY <1>5, <1>6, <1>9, <1>10, <1>11 DEF RecInv

LEMMA RecKill ==
    ASSUME Base, Base', RecInv, Kill
    PROVE  RecInv'
  <1>1. /\ pc # "down" /\ pc' = "down" /\ UNCHANGED <<files, mfDisk, hist, stable>>
        /\ frames' = frames /\ durable' = durable /\ mf' = mfDisk /\ tables' = {}
    BY DEF Kill, Forget, walVars, ghosts
  <1>2. OnDisk' = OnDisk /\ TableSeqs' = TableSeqs /\ Noted' = OnDisk /\ DataOf(tables)' = {}
    BY <1>1, SameDisk DEF Noted, OnDisk, DataOf
  <1>3. Survivors' = Survivors
    BY <1>1 DEF Survivors
  <1>4. \A z \in Survivors' : stable' = 0 \/ Reaches(z, stable)'
    BY <1>1, <1>2, <1>3 DEF RecInv, StableInv, Reaches
  <1> QED
    BY <1>1, <1>2, <1>4, FramesSurvive, SelfOutdone, RecDown

LEMMA RecFinishClose ==
    ASSUME Base, Base', RecInv, FinishClose
    PROVE  RecInv'
  <1>1. /\ pc # "down" /\ pc' = "down" /\ UNCHANGED <<files, mfDisk, hist>>
        /\ frames' = frames /\ mf' = mfDisk /\ tables' = {}
        /\ \/ durable' = frames /\ stable' \in {stable, Larger(stable, HistSeq)}
           \/ durable' = durable /\ stable' = stable
    BY DEF FinishClose, Forget, Fsync
  <1>2. OnDisk' = OnDisk /\ TableSeqs' = TableSeqs /\ Noted' = OnDisk /\ DataOf(tables)' = {}
    BY <1>1, SameDisk DEF Noted, OnDisk, DataOf
  <1>3. \A z \in Survivors' : stable' = 0 \/ Reaches(z, stable)'
    <2>1. CASE durable' = frames /\ stable' \in {stable, Larger(stable, HistSeq)}
      BY <1>1, <2>1, HistReached, StableSynced DEF RecInv, DiskInv
    <2>2. CASE durable' = durable /\ stable' = stable
      <3>1. Survivors' = Survivors
        BY <1>1, <2>2 DEF Survivors
      <3> QED
        BY <1>2, <2>2, <3>1 DEF RecInv, StableInv, Reaches
    <2> QED
      BY <1>1, <2>1, <2>2
  <1> QED
    BY <1>1, <1>2, <1>3, FramesSurvive, SelfOutdone, RecDown

LEMMA RecOpenFails ==
    ASSUME Base, Base', RecInv, OpenFails
    PROVE  RecInv'
  <1>1. /\ pc' = "down" /\ UNCHANGED <<files, mf, mfDisk, tables, hist, stable>>
        /\ frames' = frames /\ durable' = frames
    BY DEF OpenFails, RecoverLog, Fsync, mfVars, dbVars, volatile, ghosts
  <1>2. OnDisk' = OnDisk /\ Noted' = Noted /\ DataOf(tables)' = DataOf(tables)
    BY <1>1, SameDisk DEF Noted, DataOf
  <1>3. \A z \in Survivors' : stable' = 0 \/ Reaches(z, stable)'
    BY <1>1, StableSynced DEF RecInv
  <1> QED
    BY <1>1, <1>2, <1>3, FramesSurvive, RecDown DEF RecInv, DiskInv, Behind

LEMMA RecPowerLoss ==
    ASSUME Base, Base', RecInv, PowerLoss
    PROVE  RecInv'
  <1>1. /\ pc' = "down" /\ UNCHANGED <<files, mfDisk, hist, stable>>
        /\ mf' = mfDisk /\ tables' = {}
    BY DEF PowerLoss, Forget, ghosts
  <1>2. PICK s \in Survivors : frames' = s /\ durable' = s
    BY DEF PowerLoss, LosePower
  <1>3. OnDisk' = OnDisk /\ TableSeqs' = TableSeqs /\ Noted' = OnDisk /\ DataOf(tables)' = {}
    BY <1>1, SameDisk DEF Noted, OnDisk, DataOf
  <1>4. Survivors' = {s}
    BY <1>2, SyncedSurvives
  <1>5. \A z \in Survivors' : stable' = 0 \/ Reaches(z, stable)'
    BY <1>1, <1>3, <1>4 DEF RecInv, StableInv, Reaches
  <1> QED
    BY <1>1, <1>2, <1>3, <1>5, SelfOutdone, RecDown

\* The number up to which a recovery finds the writes.
LEMMA TopIs ==
    ASSUME Base, NEW s \in Survivors
    PROVE  /\ RecoverableSeq(s) \in Nat
           /\ RecoverableSeq(s) = 0 \/ RecoverableSeq(s) \in SeqsIn(s) \cup TableSeqs
           /\ \A q \in SeqsIn(s) \cup TableSeqs : q \in Nat /\ q =< RecoverableSeq(s)
  <1>1. s \in Seq(Frame) /\ SeqsIn(s) \subseteq Nat
    BY SurvivorShape, SeqsInType
  <1>2. \A n \in FileNos(mfDisk) : Readable(n)
    BY DEF Base, NamedInv
  <1>3. TableSeqs \subseteq Nat /\ \A q \in TableSeqs : q =< SeqFloor(mfDisk)
    BY <1>2, TableSeqsBound DEF Base
  <1>4. SeqFloor(mfDisk) \in Nat
    BY MfTypes, SeqFloorType DEF Base
  <1>5. PICK b \in Nat : Below(frames, b) /\ Below(durable, b)
    BY DEF Base, OrderInv, LogBounded
  <1>6. ToSet(s) \subseteq ToSet(frames) \cup ToSet(durable)
    BY SurvivorFrames DEF Base, TypeInv, TypeOK
  <1>7. \A q \in SeqsIn(s) : q =< b
    BY <1>5, <1>6 DEF Below, SeqsIn, FrameRecords
  <1> DEFINE c == Larger(b, SeqFloor(mfDisk))
  <1>8. c \in Nat /\ b =< c /\ SeqFloor(mfDisk) =< c
    BY <1>4, LargerType
  <1> HIDE DEF c
  <1>9. SeqsIn(s) \cup TableSeqs \in SUBSET Nat /\ \A q \in SeqsIn(s) \cup TableSeqs : q =< c
    <2>1. \A q \in SeqsIn(s) : q \in Nat /\ q =< c
      BY <1>1, <1>5, <1>7, <1>8
    <2>2. \A q \in TableSeqs : q \in Nat /\ q =< c
      BY <1>3, <1>4, <1>8
    <2> QED
      BY <2>1, <2>2
  <1>10. \A q \in SeqsIn(s) \cup TableSeqs : q =< HighestSeq(SeqsIn(s) \cup TableSeqs)
    BY <1>8, <1>9, HighestSeqBound
  <1>11. /\ HighestSeq(SeqsIn(s) \cup TableSeqs) \in Nat
         /\ \/ HighestSeq(SeqsIn(s) \cup TableSeqs) \in SeqsIn(s) \cup TableSeqs
            \/ HighestSeq(SeqsIn(s) \cup TableSeqs) = 0
    BY <1>9, HighestSeqType, HighestSeqIn
  <1> QED
    BY <1>9, <1>10, <1>11 DEF RecoverableSeq

\* A recovery keeps what the tables cover, and finds what it keeps.
LEMMA RecoveredKeeps ==
    ASSUME Base, NEW s \in Survivors, NEW f \in hist, Covers(OnDisk, f)
    PROVE  f \in RecoveredHist(s)
  <1>1. f \in Frame /\ LastSeq(f) \in Nat
    BY FramesAre DEF Frame
  <1>2. PICK t \in OnDisk, k \in Keys : LastSeq(f) =< t[k].seq
    BY <1>1, CoveredEnd
  <1>3. t[k].seq \in TableSeqs
    BY DEF TableSeqs, OnDisk
  <1>4. LastSeq(f) =< RecoverableSeq(s)
    BY <1>1, <1>2, <1>3, TopIs
  <1> QED
    BY <1>4 DEF RecoveredHist

LEMMA RecoveredFinds ==
    ASSUME Base, LogInv, DiskInv, NEW s \in Survivors, NEW f \in RecoveredHist(s)
    PROVE  Covers(OnDisk, f) \/ f \in ToSet(s)
  <1>1. CASE f \in ToSet(s)
    BY <1>1
  <1>2. CASE f \in hist /\ LastSeq(f) =< RecoverableSeq(s)
    <2>1. LastSeq(f) \in Nat /\ LastSeq(f) > 0
      BY <1>2, FramesAre DEF Frame
    <2>2. RecoverableSeq(s) \in SeqsIn(s) \cup TableSeqs /\ RecoverableSeq(s) \in Nat
      BY <1>2, <2>1, TopIs
    <2>3. ASSUME Lost(f, s, OnDisk) PROVE FALSE
      <3>1. \A q \in TableSeqs : q < LastSeq(f)
        BY <2>3 DEF Lost, NewerThan, TableSeqs, OnDisk
      <3> QED
        BY <1>2, <2>1, <2>2, <2>3, <3>1 DEF Lost
    <2> QED
      BY <1>2, <2>3, LostOrLeft
  <1> QED
    BY <1>1, <1>2 DEF RecoveredHist

LEMMA RecOpen ==
    ASSUME Base, Base', RecInv, NEW ro \in BOOLEAN, Open(ro)
    PROVE  RecInv'
  <1>1. /\ pc = "down" /\ pc' = "replay" /\ mf' = mfDisk /\ tables' = FileNos(mfDisk)
        /\ torn' = FALSE /\ hist' = RecoveredHist(frames)
        /\ UNCHANGED <<frames, durable, mfDisk, files, mem, pending, replayed, stable>>
    BY DEF Open, RecoverLog
  <1>2. mem = EmptyTable /\ pending = <<>> /\ replayed = 0
    BY <1>1 DEF Base, AgreeInv, RestInv
  <1>3. /\ OnDisk' = OnDisk /\ TableSeqs' = TableSeqs
        /\ Noted' = OnDisk /\ DataOf(tables)' = OnDisk /\ Merged' = {}
    BY <1>1, SameDisk DEF Noted, DataOf, OnDisk, Merged
  <1>4. /\ frames \in Seq(Frame) /\ hist \subseteq Frame /\ OnDisk \subseteq Table
        /\ frames \in Survivors
    BY FramesAre, TablesAre, FramesSurvive DEF Tabled
  <1>5. ToSet(frames) \subseteq hist'
    BY <1>1 DEF RecoveredHist
  <1>6. \A f \in hist : Covers(OnDisk, f) => f \in hist'
    BY <1>1, <1>4, RecoveredKeeps
  <1>7. \A t \in OnDisk : Sound(hist', t, OnDisk)
    BY <1>6 DEF RecInv, SoundInv, Sound
  <1>8. LogInv'
    BY <1>1 DEF RecInv, LogInv
  <1>9. SoundInv'
    BY <1>1, <1>2, <1>3, <1>7, EmptyIsSound DEF SoundInv
  <1>10. DiskInv'
    <2>1. InReach'
      BY <1>1, <1>3, <1>4, RecoveredFinds DEF RecInv, InReach
    <2>2. Behind'
      BY <1>3, SelfOutdone DEF Behind
    <2>3. Orderly' /\ Redundant'
      BY <1>1, <1>3 DEF RecInv, DiskInv, Orderly, Synced, Redundant
    <2> QED
      BY <2>1, <2>2, <2>3 DEF DiskInv
  <1>11. SessionInv'
    <2>1. \A i \in DOMAIN frames : ~(i =< 0)
      BY <1>4
    <2>2. Replaying'
      BY <1>1, <1>2, <1>5, <2>1 DEF Replaying
    <2>3. Shown' /\ LogHeld' /\ Flushed' /\ Replacing'
      BY <1>1 DEF Shown, LogHeld, Serving, Flushed, Replacing
    <2> QED
      BY <2>2, <2>3 DEF SessionInv
  <1>12. stable \in Nat
    BY DEF Base, TypeInv, TypeOK, GhostTypeOK
  <1>13. stable = 0 \/ \E f \in hist' : stable =< LastSeq(f)
    <2>1. stable = 0 \/ \E q \in SeqsIn(frames) \cup TableSeqs : stable =< q
      BY <1>4 DEF RecInv, StableInv, Reaches
    <2>2. ASSUME NEW q \in SeqsIn(frames), stable =< q
          PROVE  \E f \in hist' : stable =< LastSeq(f)
      <3>1. PICK i \in DOMAIN frames : \E r \in ToSet(frames[i]) : q = r.seq
        BY <1>4, SeqsInIs
      <3>2. PICK r \in ToSet(frames[i]) : q = r.seq
        BY <3>1
      <3>3. /\ r.seq \in Nat /\ r.seq =< LastSeq(frames[i]) /\ LastSeq(frames[i]) \in Nat
            /\ frames[i] \in ToSet(frames)
        BY <1>4, <3>2, FramesAre DEF Frame, ToSet
      <3> QED
        BY <1>5, <1>12, <2>2, <3>2, <3>3
    <2>3. ASSUME NEW q \in TableSeqs, stable =< q, stable # 0
          PROVE  \E f \in hist' : stable =< LastSeq(f)
      <3>1. PICK t \in OnDisk, k \in Keys : q = t[k].seq
        BY DEF TableSeqs, OnDisk
      <3>2. q \in Nat /\ q # 0
        BY <1>4, <1>12, <2>3, <3>1, TableSeqsAre
      <3>3. t[k] # NoVersion
        BY <3>1, <3>2 DEF NoVersion
      <3>4. PICK f \in hist : RecordAt(t, k) \in ToSet(f) /\ Covers(OnDisk, f)
        BY <3>3 DEF RecInv, SoundInv, Sound
      <3>5. q =< LastSeq(f) /\ LastSeq(f) \in Nat
        <4>1. RecordAt(t, k).seq =< LastSeq(f) /\ LastSeq(f) \in Nat
          BY <1>4, <3>4, FramesAre DEF Frame
        <4> QED
          BY <3>1, <4>1 DEF RecordAt
      <3> QED
        BY <1>6, <1>12, <2>3, <3>2, <3>4, <3>5
    <2> QED
      BY <2>1, <2>2, <2>3
  <1>14. StableInv'
    <2>1. Survivors' = Survivors
      BY <1>1 DEF Survivors
    <2>2. \A s \in Survivors' : stable' = 0 \/ Reaches(s, stable)'
      BY <1>1, <1>3, <2>1 DEF RecInv, StableInv, Reaches
    <2> QED
      BY <1>1, <1>13, <2>2 DEF StableInv
  <1> QED
    BY <1>8, <1>9, <1>10, <1>11, <1>14 DEF RecInv

LEMMA RecStutter ==
    ASSUME RecInv, UNCHANGED vars
    PROVE  RecInv'
  <1>1. UNCHANGED <<frames, torn, durable, nextSeq, appends, mf, mfDisk, files, pc, mem, tables,
                    closed, readOnly, closing, inputs, pending, replayed, hist, stable>>
    BY DEF vars, walVars, mfVars, dbVars, volatile, ghosts
  <1>2. /\ OnDisk' = OnDisk /\ Noted' = Noted /\ DataOf(tables)' = DataOf(tables)
        /\ Merged' = Merged /\ TableSeqs' = TableSeqs /\ Survivors' = Survivors
        /\ LastAllocated' = LastAllocated
    BY <1>1 DEF OnDisk, Noted, DataOf, Merged, LastAllocated, TableSeqs, Survivors
  <1>3. LogInv' /\ SoundInv' /\ DiskInv'
    BY <1>1, <1>2
       DEF RecInv, LogInv, SoundInv, DiskInv, Behind, InReach, Orderly, Synced, Redundant
  <1>4. SessionInv'
    BY <1>1, <1>2
       DEF RecInv, SessionInv, Replaying, Shown, LogHeld, Synced, Serving, Flushed, Replacing
  <1>5. StableInv'
    BY <1>1, <1>2 DEF RecInv, StableInv, Reaches
  <1> QED
    BY <1>3, <1>4, <1>5 DEF RecInv

LEMMA RecNext ==
    ASSUME Harmless, Base, Base', RecInv, [Next]_vars
    PROVE  RecInv'
  <1>1. FilesKept
    BY FilesNext DEF Base, Preserved
  <1>2. CASE StartOp
    <2>1. \/ \E ro \in BOOLEAN : Open(ro)
          \/ \E ops \in Seq(Op) : ops # <<>> /\ (BeginWrite(ops) \/ WriteFails(ops))
          \/ OpenFails \/ Sync \/ Flush \/ Compact \/ Close
      BY <1>2, AppendsAreOps DEF StartOp
    <2> QED
      BY <1>1, <2>1, RecOpen, RecBeginWrite, RecOpenFails, RecSync, QuietActions
  <1>3. CASE Continue
    <2>1. ~ReplayCancelled
      BY DEF Harmless, ReplayCancelled, Fault
    <2> QED
      BY <1>1, <1>3, <2>1, RecReplayFrame, RecReplayDone, RecFinishWrite, RecFlushOpen,
         RecFlushReset, RecFinishClose, QuietActions, MovingActions DEF Continue
  <1>4. CASE Crash
    BY <1>4, RecKill, RecPowerLoss DEF Crash
  <1>5. CASE UNCHANGED vars
    BY <1>5, RecStutter
  <1> QED
    BY <1>2, <1>3, <1>4, <1>5 DEF Next

LEMMA RecInit == Init => RecInv
  <1> SUFFICES ASSUME Init PROVE RecInv
    OBVIOUS
  <1>1. /\ frames = <<>> /\ durable = <<>> /\ torn = FALSE /\ pc = "down" /\ mem = EmptyTable
        /\ tables = {} /\ hist = {} /\ stable = 0 /\ mf.files = {} /\ mfDisk.files = {}
    BY DEF Init, WALInit, ManifestInit, NewManifest
  <1>2. OnDisk = {} /\ Noted = {} /\ DataOf(tables) = {} /\ Merged = {}
    BY <1>1 DEF OnDisk, Noted, DataOf, FileNos, Merged
  <1>3. IsPrefix(<<>>, <<>>)
    <2>1. <<>> \in Seq(Frame)
      OBVIOUS
    <2> QED
      BY <2>1, PrefixSelf
  <1>4. LogInv
    BY <1>1 DEF LogInv, Ordered
  <1>5. SoundInv
    BY <1>1, <1>2, EmptyIsSound DEF SoundInv
  <1>6. DiskInv
    BY <1>1, <1>2, <1>3 DEF DiskInv, Behind, Outdone, InReach, Orderly, Redundant
  <1>7. SessionInv
    BY <1>1 DEF SessionInv, Replaying, Shown, LogHeld, Serving, Flushed, Replacing
  <1>8. StableInv
    BY <1>1 DEF StableInv
  <1> QED
    BY <1>4, <1>5, <1>6, <1>7, <1>8 DEF RecInv

-----------------------------------------------------------------------------
(* What is read is what was written.                                         *)

LEMMA BaseInit == Init => Base
  BY TypeInit, FilesInit, OrderInit, AgreeInit DEF Base

LEMMA BaseNext ==
    ASSUME Harmless, Base, [Next]_vars
    PROVE  Base'
  <1>1. TypeInv'
    BY TypeNext DEF Base
  <1>2. FilesInv' /\ NamedInv' /\ MetaInv'
    BY FilesNext DEF Base, Preserved, Harmless
  <1>3. OrderInv'
    BY <1>1, OrderNext DEF Base
  <1>4. ResetSafe
    BY DEF Harmless, ResetSafe
  <1>5. AgreeInv'
    BY <1>1, <1>3, <1>4, AgreeNext DEF Base
  <1> QED
    BY <1>1, <1>2, <1>3, <1>5 DEF Base

\* Tables that hold nothing but the records of the frames of H, and cover them
\* all, merge to what H wrote.
LEMMA ViewAgrees ==
    ASSUME Base, NEW H \in SUBSET Frame, H \subseteq Carried, NEW T \in SUBSET Table,
           NEW b \in Nat, \A f \in H : \A r \in ToSet(f) : r.seq =< b,
           \A t \in T : \A k \in Keys : t[k] = NoVersion \/ \E f \in H : RecordAt(t, k) \in ToSet(f),
           \A f \in H : Covers(T, f)
    PROVE  Visible(MergeTables(T)) = HistView(H)
  <1> SUFFICES ASSUME NEW k \in Keys
               PROVE  MergeTables(T)[k] = TableOf(FrameRecords(H))[k]
    BY DEF Visible, HistView
  <1> DEFINE R == {r \in FrameRecords(H) : r.key = k}
             X == {t[k] : t \in T}
             Y == {VersionOf(r) : r \in R}
  <1>1. \A r \in R : /\ r \in Record /\ r.key = k /\ r.seq \in Nat /\ r.seq > 0 /\ r.seq =< b
                     /\ r \in Everything
    <2>1. \A f \in H : f # <<>> /\ f \in Carried
      BY DEF Frame
    <2>2. \A f \in H : \A r \in ToSet(f) : r \in Record /\ r.seq \in Nat /\ r.seq > 0
      BY <2>1, FramesAre
    <2>3. \A f \in H : ToSet(f) \subseteq Everything
      BY EverythingHas
    <2> QED
      BY <2>2, <2>3 DEF FrameRecords
  <1>2. X \subseteq Version
    BY TableSeqsAre
  <1>3. Y \subseteq Version /\ \A y \in Y : 0 < y.seq /\ y.seq =< b
    BY <1>1 DEF VersionOf, Version, Record
  <1>4. \A y, z \in Y : y.seq = z.seq => y = z
    <2> SUFFICES ASSUME NEW r \in R, NEW q \in R, VersionOf(r).seq = VersionOf(q).seq
                 PROVE  VersionOf(r) = VersionOf(q)
      OBVIOUS
    <2>1. r.seq = q.seq
      BY DEF VersionOf
    <2>2. r = q
      BY <1>1, <2>1 DEF Base, AgreeInv, Unique
    <2> QED
      BY <2>2
  <1>5. \A x \in X : x = NoVersion \/ x \in Y
    <2> SUFFICES ASSUME NEW t \in T, t[k] # NoVersion PROVE t[k] \in Y
      OBVIOUS
    <2>1. PICK f \in H : RecordAt(t, k) \in ToSet(f)
      OBVIOUS
    <2>2. RecordAt(t, k) \in R
      BY <2>1 DEF FrameRecords, RecordAt
    <2>3. VersionOf(RecordAt(t, k)) = t[k]
      BY <1>2 DEF VersionOf, RecordAt, Version
    <2> QED
      BY <2>2, <2>3
  <1>6. \A y \in Y : \E x \in X : y.seq =< x.seq
    <2> SUFFICES ASSUME NEW r \in R PROVE \E x \in X : VersionOf(r).seq =< x.seq
      OBVIOUS
    <2>1. PICK f \in H : r \in ToSet(f)
      BY DEF FrameRecords
    <2>2. PICK t \in T : r.seq =< t[r.key].seq
      BY <2>1 DEF Covers
    <2> QED
      BY <1>1, <2>2 DEF VersionOf
  <1> HIDE DEF R, X, Y
  <1>7. Newest(X) = Newest(Y)
    BY <1>2, <1>3, <1>4, <1>5, <1>6, ResolvedAlike
  <1> QED
    BY <1>7 DEF X, Y, R, MergeTables, TableOf

\* The log that survives, replayed.
LEMMA LogReplayed ==
    ASSUME Base, NEW s \in Survivors
    PROVE  LET t == TableOf(FrameRecords(ToSet(s))) IN
           /\ t \in Table
           /\ \A k \in Keys : t[k] = NoVersion \/ \E f \in ToSet(s) : RecordAt(t, k) \in ToSet(f)
           /\ \A f \in ToSet(s) : Covers({t}, f)
  <1> DEFINE t == TableOf(FrameRecords(ToSet(s)))
             R(k) == {r \in FrameRecords(ToSet(s)) : r.key = k}
             Y(k) == {VersionOf(r) : r \in R(k)}
             b == RecoverableSeq(s)
  <1>1. s \in Seq(Frame) /\ ToSet(s) \subseteq Frame
    BY SurvivorShape DEF ToSet
  <1>2. \A r \in FrameRecords(ToSet(s)) : r \in Record /\ r.seq \in SeqsIn(s)
    <2>1. \A f \in ToSet(s) : \A r \in ToSet(f) : r \in Record
      BY <1>1, FrameSeqsAre DEF Frame
    <2> QED
      BY <2>1 DEF FrameRecords, SeqsIn
  <1>3. b \in Nat /\ \A r \in FrameRecords(ToSet(s)) : r.seq \in Nat /\ r.seq =< b
    BY <1>2, TopIs
  <1> HIDE DEF b
  <1>4. ASSUME NEW k \in Keys
        PROVE  /\ Y(k) \in SUBSET Version /\ \A v \in Y(k) : v.seq =< b
               /\ t[k] = Newest(Y(k))
    <2>1. \A r \in R(k) : r \in Record /\ r.seq =< b
      BY <1>2, <1>3
    <2>2. \A v \in Y(k) : v \in Version /\ v.seq =< b
      BY <2>1 DEF VersionOf, Version, Record
    <2>3. t[k] = Newest(Y(k))
      BY DEF TableOf
    <2> QED
      BY <2>2, <2>3
  <1>5. t \in Table
    <2>1. \A k \in Keys : Newest(Y(k)) \in Version
      BY <1>4, NewestType
    <2> QED
      BY <2>1 DEF TableOf, Table
  <1>6. ASSUME NEW k \in Keys
        PROVE  t[k] = NoVersion \/ \E f \in ToSet(s) : RecordAt(t, k) \in ToSet(f)
    <2>1. t[k] = NoVersion \/ t[k] \in Y(k)
      BY <1>4, NewestIn
    <2>2. ASSUME NEW r \in R(k), t[k] = VersionOf(r)
          PROVE  \E f \in ToSet(s) : RecordAt(t, k) \in ToSet(f)
      <3>1. r \in Record /\ r.key = k
        BY <1>2
      <3>2. RecordAt(t, k) = r
        BY <3>1, <2>2 DEF RecordAt, VersionOf, Record
      <3> QED
        BY <3>2 DEF FrameRecords
    <2> QED
      BY <2>1, <2>2
  <1>7. ASSUME NEW f \in ToSet(s), NEW r \in ToSet(f)
        PROVE  r.seq =< t[r.key].seq
    <2>1. r \in FrameRecords(ToSet(s)) /\ r \in Record
      BY <1>2 DEF FrameRecords
    <2>2. r.key \in Keys /\ VersionOf(r) \in Y(r.key) /\ VersionOf(r).seq = r.seq
      BY <2>1 DEF Record, VersionOf
    <2> QED
      BY <1>3, <1>4, <2>2, NewestAbove
  <1> QED
    BY <1>5, <1>6, <1>7 DEF Covers

LEMMA RecoveredViewIs ==
    ASSUME Base, RecInv, NEW s \in Survivors
    PROVE  RecoveredView(s) = HistView(RecoveredHist(s))
  <1> DEFINE t == TableOf(FrameRecords(ToSet(s)))
             T == {t} \cup OnDisk
             H == RecoveredHist(s)
             b == RecoverableSeq(s)
  <1>1. /\ t \in Table
        /\ \A k \in Keys : t[k] = NoVersion \/ \E f \in ToSet(s) : RecordAt(t, k) \in ToSet(f)
        /\ \A f \in ToSet(s) : Covers({t}, f)
    BY LogReplayed
  <1>2. /\ s \in Seq(Frame) /\ ToSet(s) \subseteq Frame /\ hist \subseteq Frame
        /\ OnDisk \subseteq Table /\ ToSet(s) \subseteq Carried /\ hist \subseteq Carried
    BY SurvivorShape, SurvivorFrames, FramesAre, TablesAre
       DEF ToSet, Tabled, Carried, Base, TypeInv, TypeOK
  <1>3. ToSet(s) \subseteq H /\ H \subseteq hist \cup ToSet(s)
    BY DEF RecoveredHist
  <1>4. \A f \in H : \A r \in ToSet(f) : r.seq =< b
    <2>1. \A f \in ToSet(s) : \A r \in ToSet(f) : r.seq =< b
      BY TopIs DEF SeqsIn, FrameRecords
    <2>2. ASSUME NEW f \in hist, LastSeq(f) =< b, NEW r \in ToSet(f) PROVE r.seq =< b
      <3>1. r.seq \in Nat /\ r.seq =< LastSeq(f) /\ LastSeq(f) \in Nat
        BY <1>2, FramesAre DEF Frame
      <3> QED
        BY <2>2, <3>1, TopIs
    <2> QED
      BY <2>1, <2>2 DEF RecoveredHist
  <1>5. ASSUME NEW u \in OnDisk, NEW k \in Keys
        PROVE  u[k] = NoVersion \/ \E f \in H : RecordAt(u, k) \in ToSet(f)
    BY RecoveredKeeps DEF RecInv, SoundInv, Sound
  <1>6. \A f \in H : Covers(T, f)
    <2> SUFFICES ASSUME NEW f \in H PROVE Covers(T, f)
      OBVIOUS
    <2>1. Covers(OnDisk, f) \/ f \in ToSet(s)
      BY RecoveredFinds DEF RecInv
    <2> QED
      BY <1>1, <2>1 DEF Covers
  <1>7. b \in Nat
    BY TopIs
  <1>8. \A u \in T : \A k \in Keys : u[k] = NoVersion \/ \E f \in H : RecordAt(u, k) \in ToSet(f)
    BY <1>1, <1>3, <1>5
  <1>9. T \in SUBSET Table /\ H \in SUBSET Frame /\ H \subseteq Carried
    BY <1>1, <1>2, <1>3
  <1>10. RecoveredView(s) = Visible(MergeTables(T))
    BY DEF RecoveredView, OnDisk
  <1> HIDE DEF T, H, b
  <1>11. Visible(MergeTables(T)) = HistView(H)
    BY <1>4, <1>6, <1>7, <1>8, <1>9, ViewAgrees
  <1> QED
    BY <1>10, <1>11 DEF H

LEMMA StableFound ==
    ASSUME Base, RecInv, NEW s \in Survivors
    PROVE  stable =< RecoverableSeq(s)
  <1>1. stable \in Nat
    BY DEF Base, TypeInv, TypeOK, GhostTypeOK
  <1>2. stable = 0 \/ \E q \in SeqsIn(s) \cup TableSeqs : stable =< q
    BY DEF RecInv, StableInv, Reaches
  <1> QED
    BY <1>1, <1>2, TopIs

LEMMA HistFound ==
    ASSUME Base, RecInv, pc # "down"
    PROVE  HistSeq =< RecoverableSeq(frames)
  <1>1. HistSeq \in Nat /\ (HistSeq = 0 \/ \E q \in SeqsIn(frames) \cup TableSeqs : HistSeq =< q)
    BY HistReached DEF RecInv, DiskInv, Reaches
  <1> QED
    BY <1>1, FramesSurvive, TopIs

LEMMA Recovers ==
    ASSUME Harmless
    PROVE  Spec => [](Base /\ RecInv)
  <1>1. Init => Base /\ RecInv
    BY BaseInit, RecInit
  <1>2. (Base /\ RecInv) /\ [Next]_vars => (Base /\ RecInv)'
    BY BaseNext, RecNext
  <1> QED
    BY <1>1, <1>2, PTL DEF Spec

\* The death of the process loses no write that took effect, at whatever step of
\* a write, a flush, a compaction, a Close or a recovery it comes.
THEOREM KillLosesNothing ==
    ASSUME Harmless
    PROVE  Spec => []KillSafe
  <1>1. Base /\ RecInv => KillSafe
    BY HistFound DEF KillSafe
  <1> QED
    BY <1>1, Recovers, PTL

\* Whatever a power failure leaves of the log, at whatever step it comes, the
\* next Open finds every write that was promised to be on disk, and reads the
\* effect of the writes up to some number and of nothing else, each batch whole.
THEOREM CrashLosesNoPromise ==
    ASSUME Harmless
    PROVE  Spec => []CrashSafe
  <1>1. Base /\ RecInv => CrashSafe
    BY StableFound, RecoveredViewIs DEF CrashSafe
  <1> QED
    BY <1>1, Recovers, PTL

-----------------------------------------------------------------------------
(***************************************************************************)
(* What is read is what was written: IteratorAgrees, and GetAgrees as long *)
(* as the machine keeps its power.                                         *)
(*                                                                         *)
(* An iterator merges the memtable with the tables, so that the invariant  *)
(* above is all it needs, with the readers open.  Get takes the memtable's *)
(* word: it also needs the memtable to be ahead of every table for each    *)
(* key it holds.  After a recovery it is if the log was, and the log is    *)
(* unless a power failure takes its end.                                   *)
(***************************************************************************)
\* The fault kinds that leave the readers of the inputs closed.
ReadersStay == Faults \cap {"outOpen", "replace"} = {}

\* Readers are closed from the opening of the output to the removal of the
\* inputs only, unless the opening or the Replace fails.
ClosedInv ==
    \/ closed = {}
    \/ pc \in {"mergeReplace", "mergeRemove"} /\ closed \subseteq inputs

\* The machine keeps its power; the process may be killed.
PoweredNext == StartOp \/ Continue \/ Kill
PoweredSpec == Init /\ [][PoweredNext]_vars

LogHolds(k, s) == \E r \in FrameRecords(ToSet(frames)) : r.key = k /\ s =< r.seq

\* A key that is in the log at all has there its newest version of all.
LogNewest == \A r \in Everything : LogHolds(r.key, 0) => LogHolds(r.key, r.seq)

\* A key that is in the memtable has there the newest of the versions that took
\* effect.  (A write whose fsync failed is in the log and not in the memtable.)
MemNewest ==
    Serving => \A r \in FrameRecords(hist) : Holds(mem, r.key) => r.seq =< mem[r.key].seq

\* During a recovery the memtable comes from the log.
FromLog == pc = "replay" => \A k \in Keys : Holds(mem, k) => LogHolds(k, 0)

GetInv == LogNewest /\ MemNewest /\ FromLog

-----------------------------------------------------------------------------
(* What an iterator shows.                                                   *)

LEMMA ClosedNext ==
    ASSUME ReadersStay, ClosedInv, [Next]_vars
    PROVE  ClosedInv'
  <1>1. ~Fault("outOpen") /\ ~Fault("replace")
    BY DEF ReadersStay, Fault
  <1>2. CASE closed' = {}
    BY <1>2 DEF ClosedInv
  <1>3. CASE closed = {} /\ closed' = closed
    BY <1>3 DEF ClosedInv
  <1>4. CASE MergeOpen
    BY <1>1, <1>4 DEF MergeOpen, ClosedInv
  <1>5. CASE MergeReplace
    BY <1>1, <1>5 DEF MergeReplace, ClosedInv
  <1>6. CASE MergeRemove
    <2>1. closed \subseteq inputs /\ closed' = closed \ inputs
      BY <1>6 DEF MergeRemove, ClosedInv
    <2> QED
      BY <1>2, <2>1
  <1>7. CASE StartOp
    <2>1. pc \in {"down", "idle"} /\ UNCHANGED closed
      BY <1>7 DEF StartOp, Open, Put, Delete, WriteBatch, BeginWrite, CanWrite, WriteFails,
                  OpenFails, Sync, Flush, Compact, Close, dbVars, volatile
    <2> QED
      BY <1>3, <2>1 DEF ClosedInv
  <1>8. CASE ReplayFrame \/ ReplayDone \/ ReplayCancelled \/ FinishWrite \/ SyncFails
    <2>1. pc \in {"replay", "sync"} /\ UNCHANGED closed
      BY <1>8 DEF ReplayFrame, ReplayDone, ReplayCancelled, FinishWrite, SyncFails
    <2> QED
      BY <1>3, <2>1 DEF ClosedInv
  <1>9. CASE FlushAlloc \/ FlushCreate \/ FlushFinish \/ FlushAdd \/ FlushOpen \/ FlushReset
    <2>1. /\ pc \in {"flushAlloc", "flushCreate", "flushFinish", "flushAdd", "flushOpen",
                     "flushReset"}
          /\ UNCHANGED closed
      BY <1>9 DEF FlushAlloc, FlushCreate, FlushFinish, FlushAdd, FlushOpen, FlushReset, volatile
    <2> QED
      BY <1>3, <2>1 DEF ClosedInv
  <1>10. CASE MergeAlloc \/ MergeCreate \/ MergeFinish
    <2>1. pc \in {"mergeAlloc", "mergeCreate", "mergeFinish"} /\ UNCHANGED closed
      BY <1>10 DEF MergeAlloc, MergeCreate, MergeFinish
    <2> QED
      BY <1>3, <2>1 DEF ClosedInv
  <1>11. CASE FinishClose \/ Crash
    BY <1>2, <1>11 DEF FinishClose, Crash, Kill, PowerLoss, Forget
  <1>12. CASE UNCHANGED vars
    BY <1>12 DEF ClosedInv, vars, dbVars, volatile
  <1> QED
    BY <1>4, <1>5, <1>6, <1>7, <1>8, <1>9, <1>10, <1>11, <1>12 DEF Next, Continue

LEMMA ServedViewIs ==
    ASSUME Base, RecInv, Serving
    PROVE  Visible(MergeTables({mem} \cup DataOf(tables))) = HistView(hist)
  <1> DEFINE T == {mem} \cup DataOf(tables)
  <1>1. /\ hist \in SUBSET Frame /\ hist \subseteq Carried
        /\ T \in SUBSET Table
    BY TablesAre DEF Tabled, Carried, Base, TypeInv, TypeOK, GhostTypeOK
  <1>2. nextSeq \in Nat /\ \A f \in hist : \A r \in ToSet(f) : r.seq =< nextSeq
    <2>1. nextSeq \in Nat
      BY DEF Base, TypeInv, TypeOK, WALTypeOK
    <2>2. ASSUME NEW f \in hist, NEW r \in ToSet(f) PROVE r.seq =< nextSeq
      <3>1. r.seq \in Nat /\ r.seq =< LastSeq(f) /\ LastSeq(f) \in Nat
        BY <1>1, FramesAre DEF Frame
      <3>2. LastSeq(f) =< nextSeq
        BY DEF Base, OrderInv, Serving
      <3> QED
        BY <2>1, <3>1, <3>2
    <2> QED
      BY <2>1, <2>2
  <1>3. \A t \in T : \A k \in Keys : t[k] = NoVersion \/ \E f \in hist : RecordAt(t, k) \in ToSet(f)
    BY DEF RecInv, SoundInv, Sound
  <1>4. \A f \in hist : Covers(T, f)
    BY DEF RecInv, SessionInv, Shown
  <1> HIDE DEF T
  <1> QED
    BY <1>1, <1>2, <1>3, <1>4, ViewAgrees DEF T

\* With no operation under way an iterator shows the newest version of every key
\* ever written, and no other, after any number of flushes, merges, failures,
\* crashes and recoveries.
THEOREM IteratorShowsHistory ==
    ASSUME Harmless, ReadersStay
    PROVE  Spec => []IteratorAgrees
  <1>1. Init => ClosedInv
    BY DEF Init, ClosedInv
  <1>2. ClosedInv /\ [Next]_vars => ClosedInv'
    BY ClosedNext
  <1>3. Base /\ RecInv /\ ClosedInv => IteratorAgrees
    <2> SUFFICES ASSUME Base, RecInv, ClosedInv, pc = "idle" PROVE IterView = HistView(hist)
      BY DEF IteratorAgrees
    <2>1. tables \ closed = tables
      BY DEF ClosedInv
    <2> QED
      BY <2>1, ServedViewIs DEF IterView, Serving
  <1> QED
    BY <1>1, <1>2, <1>3, Recovers, PTL DEF Spec

-----------------------------------------------------------------------------
(* What Get answers.                                                         *)

\* A record that is not newer than one that was there is in the log only after it.
LEMMA LogNewestStep ==
    ASSUME TypeInv, FilesInv, AgreeInv, LogInv, LogNewest, PoweredNext,
           frames' = frames \/ frames' = <<>>,
           ~\E ops \in Seq(Op) : ops # <<>> /\ BeginWrite(ops)
    PROVE  LogNewest'
  <1>1. Everything' \subseteq Everything
    BY NothingNewNext DEF PoweredNext, Next, Crash
  <1>2. CASE frames' = frames
    BY <1>1, <1>2 DEF LogNewest, LogHolds
  <1>3. CASE frames' = <<>>
    BY <1>3, ToSetEmpty DEF LogNewest, LogHolds, FrameRecords
  <1> QED
    BY <1>2, <1>3

LEMMA GetBeginWrite ==
    ASSUME Base, RecInv, GetInv, NEW ops \in Seq(Op), ops # <<>>, BeginWrite(ops), [Next]_vars
    PROVE  GetInv'
  <1> DEFINE f == pending'
  <1>1. /\ pc = "idle" /\ pc' = "sync" /\ frames' = Append(frames, f)
        /\ UNCHANGED <<mem, hist>>
    BY DEF BeginWrite, CanWrite, AppendFrame, RecInv, LogInv, ghosts
  <1>2. f \in Frame /\ \A r \in ToSet(f) : nextSeq < r.seq /\ r.seq \in Nat
    BY NewFrameConsecutive, FrameSeqsAre DEF Base, Frame
  <1>3. f \in ToSet(frames') /\ ToSet(frames) \subseteq ToSet(frames')
    <2>1. frames \in Seq(Frame)
      BY FramesAre
    <2>2. /\ Len(frames) + 1 \in DOMAIN frames' /\ frames'[Len(frames) + 1] = f
          /\ \A i \in DOMAIN frames : i \in DOMAIN frames' /\ frames'[i] = frames[i]
      BY <1>1, <1>2, <2>1
    <2> QED
      BY <2>2 DEF ToSet
  <1>4. Everything' \subseteq Everything \cup ToSet(f)
    BY AppendAdds DEF Base
  <1>5. nextSeq \in Nat /\ \A r \in Everything : r.seq \in Nat /\ r.seq =< nextSeq
    BY <1>1, EverythingNumbers, BoundedBy DEF Base, AgreeInv, GivenOut
  <1> HIDE DEF f
  <1>6. ASSUME NEW k, NEW s, LogHolds(k, s) PROVE LogHolds(k, s)'
    BY <1>3, <1>6 DEF LogHolds, FrameRecords
  <1>7. ASSUME NEW q \in ToSet(f) PROVE LogHolds(q.key, q.seq)'
    BY <1>2, <1>3 DEF LogHolds, FrameRecords
  <1>8. ASSUME NEW r \in Everything, LogHolds(r.key, 0)'
        PROVE  LogHolds(r.key, r.seq)'
    <2>1. CASE LogHolds(r.key, 0)
      BY <1>6, <2>1 DEF GetInv, LogNewest
    <2>2. CASE \E q \in ToSet(f) : q.key = r.key
      BY <1>2, <1>3, <1>5, <2>2 DEF LogHolds, FrameRecords
    <2>3. LogHolds(r.key, 0) \/ \E q \in ToSet(f) : q.key = r.key
      <3>1. ToSet(frames') \subseteq ToSet(frames) \cup {f}
        <4>1. frames \in Seq(Frame)
          BY FramesAre
        <4>2. \A i \in DOMAIN frames' : frames'[i] = f \/ (i \in DOMAIN frames /\ frames'[i] = frames[i])
          BY <1>1, <1>2, <4>1
        <4> QED
          BY <4>2 DEF ToSet
      <3> QED
        BY <1>8, <3>1 DEF LogHolds, FrameRecords
    <2> QED
      BY <2>1, <2>2, <2>3
  <1>9. LogNewest'
    BY <1>4, <1>7, <1>8 DEF LogNewest
  <1> QED
    BY <1>1, <1>9 DEF GetInv, MemNewest, FromLog, Serving

\* A frame of the log applied to the memtable.
LEMMA GetApply ==
    ASSUME Base, Base', NEW f \in Carried, f # <<>>, mem' = MemApply(mem, f), pc # "down"
    PROVE  /\ \A k \in Keys : mem[k].seq \in Nat /\ mem'[k].seq \in Nat /\ mem[k].seq =< mem'[k].seq
           /\ \A r \in ToSet(f) : r.key \in Keys /\ r.seq \in Nat /\ r.seq =< mem'[r.key].seq
           /\ \A k \in Keys : Holds(mem', k) =>
                 Holds(mem, k) \/ \E r \in ToSet(f) : r.key = k /\ mem'[k].seq = r.seq
  <1>1. /\ f \in Frame /\ f \in Seq(Record) /\ mem \in Table /\ mem' \in Table
        /\ \A r \in ToSet(f) : r.key \in Keys /\ r.seq \in Nat
    BY FramesAre, TablesAre, TablesAreNext, FrameSeqsAre DEF Tabled, Frame
  <1>2. nextSeq \in Nat /\ (\A k \in Keys : mem[k].seq =< nextSeq)
        /\ \A r \in ToSet(f) : r.seq =< nextSeq
    BY BoundedBy DEF Base, AgreeInv
  <1>3. \A k \in Keys : /\ mem[k].seq =< mem'[k].seq
                        /\ \A r \in ToSet(f) : r.key = k => r.seq =< mem'[k].seq
    BY <1>1, <1>2, ApplyAbove
  <1>4. ASSUME NEW k \in Keys, Holds(mem', k)
        PROVE  Holds(mem, k) \/ \E r \in ToSet(f) : r.key = k /\ mem'[k].seq = r.seq
    <2>1. \/ mem'[k] = NoVersion \/ mem'[k] = mem[k]
          \/ \E r \in ToSet(f) : r.key = k /\ mem'[k] = VersionOf(r)
      BY <1>1, ApplyHolds
    <2>2. mem'[k] # NoVersion
      BY <1>4 DEF Holds, NoVersion
    <2>3. mem'[k] = mem[k] => Holds(mem, k)
      BY <1>4 DEF Holds
    <2>4. \A r \in ToSet(f) : VersionOf(r).seq = r.seq
      BY DEF VersionOf
    <2> QED
      BY <2>1, <2>2, <2>3, <2>4
  <1> QED
    BY <1>1, <1>3, <1>4, TableSeqsAre

LEMMA GetFinishWrite ==
    ASSUME Base, Base', RecInv, GetInv, FinishWrite, LogNewest'
    PROVE  GetInv'
  <1>1. /\ pc = "sync" /\ pc' \in {"flushAlloc", "idle"} /\ mem' = MemApply(mem, pending)
        /\ hist' = hist \cup {pending}
    BY DEF FinishWrite
  <1>2. pending \in Carried /\ pending # <<>>
    BY <1>1 DEF Carried, Base, TypeInv, PcInv, Frame
  <1>3. /\ \A k \in Keys : mem[k].seq \in Nat /\ mem'[k].seq \in Nat /\ mem[k].seq =< mem'[k].seq
        /\ \A r \in ToSet(pending) : r.key \in Keys /\ r.seq \in Nat /\ r.seq =< mem'[r.key].seq
        /\ \A k \in Keys : Holds(mem', k) =>
              Holds(mem, k) \/ \E r \in ToSet(pending) : r.key = k /\ mem'[k].seq = r.seq
    BY <1>1, <1>2, GetApply
  <1>4. ASSUME NEW g \in hist, NEW r \in ToSet(g), Holds(mem', r.key)
        PROVE  r.seq =< mem'[r.key].seq
    <2>1. /\ r.seq \in Nat /\ r.key \in Keys /\ r.seq =< LastSeq(g) /\ LastSeq(g) \in Nat
      BY FramesAre DEF Record, Frame
    <2>2. CASE Holds(mem, r.key)
      <3>1. r \in FrameRecords(hist)
        BY DEF FrameRecords
      <3>2. r.seq =< mem[r.key].seq
        BY <1>1, <2>2, <3>1 DEF GetInv, MemNewest, Serving
      <3> QED
        BY <1>3, <2>1, <3>2
    <2>3. ASSUME NEW q \in ToSet(pending), mem'[r.key].seq = q.seq
          PROVE  r.seq =< mem'[r.key].seq
      <3>1. LastSeq(g) < pending[1].seq
        BY <1>1 DEF Base, OrderInv
      <3>2. pending[1].seq =< q.seq /\ q.seq \in Nat /\ pending[1].seq \in Nat
        BY <1>2, FramesAre DEF Frame
      <3> QED
        BY <2>1, <2>3, <3>1, <3>2
    <2> QED
      BY <1>3, <1>4, <2>1, <2>2, <2>3
  <1>5. \A r \in FrameRecords(hist') : Holds(mem', r.key) => r.seq =< mem'[r.key].seq
    BY <1>1, <1>3, <1>4 DEF FrameRecords
  <1> QED
    BY <1>1, <1>5 DEF GetInv, MemNewest, FromLog

LEMMA GetReplayFrame ==
    ASSUME Base, Base', RecInv, GetInv, ReplayFrame, LogNewest'
    PROVE  GetInv'
  <1> DEFINE f == frames[replayed + 1]
  <1>1. /\ pc = "replay" /\ pc' = "replay" /\ replayed < Len(frames) /\ mem' = MemApply(mem, f)
        /\ frames' = frames
    BY DEF ReplayFrame, walVars
  <1>2. replayed \in Nat /\ frames \in Seq(Frame)
    BY DEF Base, TypeInv, TypeOK, SessionTypeOK, WALTypeOK
  <1>3. replayed + 1 \in DOMAIN frames
    BY <1>1, <1>2
  <1>4. f \in ToSet(frames) /\ f \in Carried /\ f # <<>>
    BY <1>2, <1>3, FramesAre DEF ToSet, Frame
  <1> HIDE DEF f
  <1>5. ASSUME NEW k \in Keys, Holds(mem', k) PROVE LogHolds(k, 0)
    <2>1. Holds(mem, k) \/ \E r \in ToSet(f) : r.key = k
      BY <1>1, <1>4, <1>5, GetApply
    <2>2. CASE Holds(mem, k)
      BY <1>1, <2>2 DEF GetInv, FromLog
    <2>3. ASSUME NEW r \in ToSet(f), r.key = k PROVE LogHolds(k, 0)
      <3>1. r.seq \in Nat /\ r \in FrameRecords(ToSet(frames))
        BY <1>4, FramesAre DEF FrameRecords
      <3> QED
        BY <2>3, <3>1 DEF LogHolds
    <2> QED
      BY <2>1, <2>2, <2>3
  <1> QED
    BY <1>1, <1>5 DEF GetInv, MemNewest, FromLog, Serving, LogHolds

LEMMA GetReplayDone ==
    ASSUME Base, RecInv, GetInv, ReplayDone, LogNewest'
    PROVE  GetInv'
  <1>1. /\ pc = "replay" /\ pc' = "idle" /\ replayed = Len(frames)
        /\ UNCHANGED <<mem, frames, hist>>
    BY DEF ReplayDone, walVars, ghosts
  <1>2. ASSUME NEW r \in FrameRecords(hist), Holds(mem, r.key)
        PROVE  r.seq =< mem[r.key].seq
    <2>1. r \in Everything /\ r.key \in Keys /\ r.seq \in Nat
      <3>1. PICK g \in hist : r \in ToSet(g)
        BY DEF FrameRecords
      <3>2. g \in Carried /\ g # <<>> /\ g \in Frame
        BY FramesAre DEF Frame
      <3> QED
        BY <3>1, <3>2, EverythingHas, FrameSeqsAre DEF Frame
    <2>2. LogHolds(r.key, 0)
      BY <1>1, <1>2, <2>1 DEF GetInv, FromLog
    <2>3. PICK q \in FrameRecords(ToSet(frames)) : q.key = r.key /\ r.seq =< q.seq
      BY <2>1, <2>2 DEF GetInv, LogNewest, LogHolds
    <2>4. PICK i \in DOMAIN frames : q \in ToSet(frames[i])
      BY DEF FrameRecords, ToSet
    <2>5. frames[i] \in Frame /\ i =< Len(frames)
      BY FramesAre
    <2>6. Covers({mem}, frames[i])
      BY <1>1, <2>5 DEF RecInv, SessionInv, Replaying
    <2>7. q.seq =< mem[r.key].seq /\ q.seq \in Nat /\ mem[r.key].seq \in Nat
      <3>1. q.seq =< mem[q.key].seq
        BY <2>4, <2>6 DEF Covers
      <3>2. q.seq \in Nat
        BY <2>4, <2>5, FrameSeqsAre DEF Frame
      <3> QED
        BY <2>1, <2>3, <3>1, <3>2, TablesAre, TableSeqsAre DEF Tabled
    <2> QED
      BY <2>1, <2>3, <2>7
  <1> QED
    BY <1>1, <1>2 DEF GetInv, MemNewest, FromLog

\* The other steps leave the memtable and the history, or empty the memtable.
LEMMA GetStays ==
    ASSUME Base', GetInv, LogNewest',
           \/ UNCHANGED <<mem, hist>> /\ (Serving' => Serving) /\ pc' # "replay"
           \/ mem' = EmptyTable
    PROVE  GetInv'
  <1>1. CASE UNCHANGED <<mem, hist>> /\ (Serving' => Serving) /\ pc' # "replay"
    BY <1>1 DEF GetInv, MemNewest, FromLog
  <1>2. CASE mem' = EmptyTable
    <2>1. hist' \subseteq Frame
      BY DEF Base, TypeInv, TypeOK, GhostTypeOK
    <2>2. \A r \in FrameRecords(hist') : r.key \in Keys
      BY <2>1, FrameSeqsAre DEF FrameRecords, Frame
    <2>3. \A k \in Keys : ~Holds(mem', k)
      BY <1>2 DEF EmptyTable, NoVersion, Holds
    <2> QED
      BY <2>2, <2>3 DEF GetInv, MemNewest, FromLog
  <1> QED
    BY <1>1, <1>2

LEMMA GetNext ==
    ASSUME Harmless, Base, Base', RecInv, GetInv, [PoweredNext]_vars
    PROVE  GetInv'
  <1>1. CASE \E ops \in Seq(Op) : ops # <<>> /\ BeginWrite(ops)
    <2>1. [Next]_vars
      BY DEF PoweredNext, Next, Crash
    <2> QED
      BY <1>1, <2>1, GetBeginWrite
  <1>2. CASE UNCHANGED vars
    BY <1>2 DEF GetInv, LogNewest, MemNewest, FromLog, LogHolds, Serving, Everything, Named, Carried,
                FileNos, LastAllocated, vars, walVars, mfVars, dbVars, volatile, ghosts
  <1>3. CASE PoweredNext /\ ~\E ops \in Seq(Op) : ops # <<>> /\ BeginWrite(ops)
    <2>1. \/ \E ro \in BOOLEAN : Open(ro)
          \/ \E ops \in Seq(Op) : WriteFails(ops)
          \/ OpenFails \/ Sync \/ Flush \/ Compact \/ Close
          \/ Continue \/ Kill
      BY <1>3, AppendsAreOps DEF PoweredNext, StartOp
    <2>2. ASSUME frames' = frames \/ frames' = <<>> PROVE LogNewest'
      BY <1>3, <2>2, LogNewestStep DEF Base, RecInv, GetInv
    <2>3. CASE \E ro \in BOOLEAN : Open(ro)
      <3>1. pc = "down" /\ frames' = frames /\ mem' = mem
        BY <2>3 DEF Open, RecoverLog
      <3>2. mem' = EmptyTable
        BY <3>1 DEF Base, AgreeInv, RestInv
      <3> QED
        BY <2>2, <3>1, <3>2, GetStays
    <2>4. CASE OpenFails
      <3>1. frames' = frames /\ UNCHANGED <<mem, hist, pc>> /\ pc = "down"
        BY <2>4 DEF OpenFails, RecoverLog, dbVars, volatile, ghosts
      <3> QED
        BY <2>2, <3>1, GetStays DEF Serving
    <2>5. CASE (\E ops \in Seq(Op) : WriteFails(ops)) \/ Sync \/ Flush \/ Compact \/ Close
      <3>1. frames' = frames /\ UNCHANGED <<mem, hist>> /\ pc = "idle" /\ pc' # "replay"
        BY <2>5 DEF WriteFails, CanWrite, AppendNothing, AppendTorn, Sync, Flush, Compact, Close,
                    StartClose, walVars, dbVars, volatile, ghosts
      <3> QED
        BY <2>2, <3>1, GetStays DEF Serving
    <2>6. CASE ReplayFrame \/ ReplayDone \/ FinishWrite
      <3>1. frames' = frames
        BY <2>6 DEF ReplayFrame, ReplayDone, FinishWrite, walVars
      <3> QED
        BY <2>2, <2>6, <3>1, GetReplayFrame, GetReplayDone, GetFinishWrite
    <2>7. ~ReplayCancelled
      BY DEF Harmless, ReplayCancelled, Fault
    <2>8. CASE SyncFails \/ FlushAlloc \/ FlushCreate \/ FlushFinish \/ FlushAdd
      <3>1. frames' = frames /\ UNCHANGED <<mem, hist>> /\ Serving /\ pc' # "replay"
        BY <2>8 DEF SyncFails, FlushAlloc, FlushCreate, FlushFinish, FlushAdd, FlushFails, Serving,
                    walVars, volatile, ghosts
      <3> QED
        BY <2>2, <3>1, GetStays
    <2>9. CASE FlushOpen
      <3>1. /\ frames' = frames /\ hist' = hist /\ (mem' = mem \/ mem' = EmptyTable)
            /\ Serving /\ pc' # "replay"
        BY <2>9 DEF FlushOpen, FlushFails, Serving, walVars, ghosts
      <3> QED
        BY <2>2, <3>1, GetStays
    <2>10. CASE FlushReset
      <3>1. frames' = frames \/ frames' = <<>>
        BY <2>10 DEF FlushReset, ResetLog, ResetLogUnsynced, walVars
      <3>2. mem' = mem /\ pc = "flushReset"
        BY <2>10 DEF FlushReset
      <3>3. mem' = EmptyTable
        BY <3>2 DEF RecInv, SessionInv, Flushed
      <3> QED
        BY <2>2, <3>1, <3>3, GetStays
    <2>11. CASE MergeAlloc \/ MergeCreate \/ MergeFinish \/ MergeOpen \/ MergeReplace \/ MergeRemove
      <3>1. frames' = frames /\ UNCHANGED <<mem, hist>> /\ Serving /\ pc' # "replay"
        BY <2>11 DEF MergeAlloc, MergeCreate, MergeFinish, MergeOpen, MergeReplace, MergeRemove,
                     MergeFails, Serving, walVars, ghosts
      <3> QED
        BY <2>2, <3>1, GetStays
    <2>12. CASE FinishClose \/ Kill
      <3>1. frames' = frames /\ mem' = EmptyTable
        BY <2>12 DEF FinishClose, Kill, Forget, walVars
      <3> QED
        BY <2>2, <3>1, GetStays
    <2> QED
      BY <2>1, <2>3, <2>4, <2>5, <2>6, <2>7, <2>8, <2>9, <2>10, <2>11, <2>12 DEF Continue
  <1> QED
    BY <1>1, <1>2, <1>3

\* The versions in sight were written by hist, one for each number.
LEMMA ServedVersions ==
    ASSUME Base, RecInv, Serving, NEW k \in Keys
    PROVE  LET X == {t[k] : t \in {mem} \cup DataOf(tables)} IN
           /\ X \subseteq Version
           /\ \A v \in X : \/ v = NoVersion
                           \/ /\ 0 < v.seq
                              /\ \E r \in FrameRecords(hist) : r.key = k /\ r.seq = v.seq
           /\ \A v, w \in X : v.seq = w.seq => v = w
           /\ nextSeq \in Nat /\ \A v \in X : v.seq =< nextSeq
  <1> DEFINE T == {mem} \cup DataOf(tables)
             X == {t[k] : t \in T}
  <1>1. T \subseteq Table /\ X \subseteq Version
    BY TablesAre, TableSeqsAre DEF Tabled
  <1>2. ASSUME NEW t \in T, t[k] # NoVersion
        PROVE  /\ 0 < t[k].seq /\ RecordAt(t, k) \in FrameRecords(hist)
               /\ RecordAt(t, k) \in Everything
    <2>1. PICK f \in hist : RecordAt(t, k) \in ToSet(f)
      BY <1>2 DEF RecInv, SoundInv, Sound
    <2>2. f \in Carried /\ f # <<>>
      BY FramesAre DEF Frame
    <2>3. RecordAt(t, k).seq > 0
      BY <2>1, <2>2, FramesAre
    <2> QED
      BY <2>1, <2>2, <2>3, EverythingHas DEF FrameRecords, RecordAt
  <1>3. ASSUME NEW t \in T, NEW u \in T, t[k].seq = u[k].seq PROVE t[k] = u[k]
    <2>1. CASE t[k] = NoVersion \/ u[k] = NoVersion
      BY <1>2, <1>3, <2>1 DEF NoVersion
    <2>2. CASE t[k] # NoVersion /\ u[k] # NoVersion
      <3>1. RecordAt(t, k) = RecordAt(u, k)
        BY <1>2, <1>3, <2>2 DEF Base, AgreeInv, Unique, RecordAt
      <3>2. t[k].val = u[k].val
        BY <3>1 DEF RecordAt
      <3> QED
        BY <1>1, <1>3, <3>2 DEF Version
    <2> QED
      BY <2>1, <2>2
  <1>4. nextSeq \in Nat /\ \A t \in T : t[k].seq =< nextSeq
    <2>1. /\ nextSeq \in Nat /\ mem[k].seq =< nextSeq
          /\ \A n \in tables \cap DOMAIN files : files[n].data[k].seq =< nextSeq
      BY BoundedBy DEF Base, AgreeInv, Named, Serving
    <2> QED
      BY <2>1, TablesAre DEF Tabled, DataOf
  <1>5. ASSUME NEW t \in T, t[k] # NoVersion
        PROVE  0 < t[k].seq /\ \E r \in FrameRecords(hist) : r.key = k /\ r.seq = t[k].seq
    <2>1. RecordAt(t, k).key = k /\ RecordAt(t, k).seq = t[k].seq
      BY DEF RecordAt
    <2> QED
      BY <1>2, <1>5, <2>1
  <1> QED
    BY <1>1, <1>3, <1>4, <1>5

LEMMA GetIs ==
    ASSUME Base, RecInv, GetInv, Serving, NEW k \in Keys
    PROVE  GetResult(k) = HistView(hist)[k]
  <1> DEFINE D == {t[k] : t \in DataOf(tables)}
             X == {t[k] : t \in {mem} \cup DataOf(tables)}
  <1>1. /\ X \subseteq Version
        /\ \A v \in X : \/ v = NoVersion
                        \/ /\ 0 < v.seq
                           /\ \E r \in FrameRecords(hist) : r.key = k /\ r.seq = v.seq
        /\ \A v, w \in X : v.seq = w.seq => v = w
        /\ nextSeq \in Nat /\ \A v \in X : v.seq =< nextSeq
    BY ServedVersions
  <1>2. X = {mem[k]} \cup D
    OBVIOUS
  <1>3. HistView(hist)[k] = Newest(X).val
    BY ServedViewIs DEF Visible, MergeTables
  <1>4. MergeTables(DataOf(tables))[k] = Newest(D)
    BY DEF MergeTables
  <1> HIDE DEF D, X
  <1>5. CASE Holds(mem, k)
    <2>1. \A v \in X : v.seq =< mem[k].seq
      <3>1. \A r \in FrameRecords(hist) : r.key = k => r.seq =< mem[k].seq
        BY <1>5 DEF GetInv, MemNewest
      <3>2. NoVersion.seq =< mem[k].seq
        <4>1. mem[k].seq \in Nat
          BY <1>1, <1>2 DEF Version
        <4> QED
          BY <4>1 DEF NoVersion
      <3> QED
        BY <1>1, <3>1, <3>2
    <2>2. Newest(X) = mem[k]
      BY <1>1, <1>2, <2>1, NewestIs
    <2> QED
      BY <1>3, <1>5, <2>2 DEF GetResult
  <1>6. CASE ~Holds(mem, k)
    <2> DEFINE Y == D \ {NoVersion}
    <2>1. mem[k] = NoVersion
      BY <1>1, <1>2, <1>6 DEF Holds
    <2>2. /\ X \in SUBSET Version /\ D \in SUBSET Version /\ Y \in SUBSET Version
          /\ \A y \in Y : 0 < y.seq /\ y.seq =< nextSeq /\ y.seq \in Nat
          /\ \A y, z \in Y : y.seq = z.seq => y = z
          /\ \A x \in X : x = NoVersion \/ x \in Y
          /\ \A x \in D : x = NoVersion \/ x \in Y
          /\ Y \subseteq X /\ Y \subseteq D
      BY <1>1, <1>2, <2>1 DEF Version
    <2> HIDE DEF Y
    <2>3. \A y \in Y : (\E x \in X : y.seq =< x.seq) /\ (\E x \in D : y.seq =< x.seq)
      BY <2>2
    <2>4. Newest(X) = Newest(Y)
      BY <1>1, <2>2, <2>3, ResolvedAlike
    <2>5. Newest(D) = Newest(Y)
      BY <1>1, <2>2, <2>3, ResolvedAlike
    <2> QED
      BY <1>3, <1>4, <1>6, <2>4, <2>5 DEF GetResult
  <1> QED
    BY <1>5, <1>6

\* A Get is never behind the history while the machine keeps its power.
LEMMA Powered ==
    ASSUME Harmless
    PROVE  PoweredSpec => [](Base /\ RecInv /\ GetInv)
  <1> DEFINE Inv == Base /\ RecInv /\ GetInv
  <1>1. Init => Inv
    <2> SUFFICES ASSUME Init PROVE GetInv
      BY BaseInit, RecInit
    <2>1. frames = <<>> /\ pc = "down"
      BY DEF Init, WALInit
    <2>2. LogNewest
      BY <2>1, ToSetEmpty DEF LogNewest, LogHolds, FrameRecords
    <2> QED
      BY <2>1, <2>2 DEF GetInv, MemNewest, FromLog, Serving
  <1>2. Inv /\ [PoweredNext]_vars => Inv'
    <2> SUFFICES ASSUME Inv, [PoweredNext]_vars PROVE Inv'
      OBVIOUS
    <2>1. [Next]_vars
      BY DEF PoweredNext, Next, Crash
    <2>2. Base' /\ RecInv'
      BY <2>1, BaseNext, RecNext
    <2> QED
      BY <2>2, GetNext
  <1> QED
    BY <1>1, <1>2, PTL DEF PoweredSpec

\* read.go, compact.go: whatever becomes of a merge that has closed the readers of
\* its inputs, a Get that does not fail answers the newest version of its key ever
\* written, as long as the machine keeps its power: through flushes, merges,
\* failures, deaths of the process and recoveries, whatever the sync policy.
THEOREM GetIsTruthful ==
    ASSUME Harmless
    PROVE  PoweredSpec => []GetNeverLies
  <1>1. Base /\ RecInv /\ GetInv => GetNeverLies
    BY GetIs DEF GetNeverLies, Serving
  <1> QED
    BY <1>1, Powered, PTL

\* With no operation under way a Get succeeds and answers the newest version of
\* its key ever written, as long as the machine keeps its power and no merge fails
\* once it has closed the readers of its inputs.  (A power failure may leave a log
\* older than the tables, which the memtable then is too.)
THEOREM GetFindsNewest ==
    ASSUME Harmless, ReadersStay
    PROVE  PoweredSpec => []GetAgrees
  <1>1. Init => ClosedInv
    BY DEF Init, ClosedInv
  <1>2. ClosedInv /\ [PoweredNext]_vars => ClosedInv'
    BY ClosedNext DEF PoweredNext, Next, Crash
  <1>3. Base /\ RecInv /\ GetInv /\ ClosedInv => GetAgrees
    <2> SUFFICES ASSUME Base, RecInv, GetInv, ClosedInv, pc = "idle", NEW k \in Keys
                 PROVE  ~GetFails(k) /\ GetResult(k) = HistView(hist)[k]
      BY DEF GetAgrees
    <2>1. ~GetFails(k)
      BY DEF ClosedInv, GetFails
    <2> QED
      BY <2>1, GetIs DEF Serving
  <1> QED
    BY <1>1, <1>2, <1>3, Powered, PTL DEF PoweredSpec
=============================================================================
