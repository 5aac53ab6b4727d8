----------------------------- MODULE LSMKVProofs ----------------------------
(***************************************************************************)
(* Theorems about LSMKV that hold for every set of keys, values, batches   *)
(* and faults, every sync policy and every bound: the types, the log, the  *)
(* tables in the directory and the manifest, then the sequence numbers.    *)
(***************************************************************************)
EXTENDS LSMKV, VersionsProofs, SequenceTheorems

Op == [key : Keys, val : Contents]

-----------------------------------------------------------------------------
(* The log.                                                                  *)

LEMMA NewFrameType ==
    ASSUME nextSeq \in Nat, NEW ops \in Seq(Op), ops # <<>>
    PROVE  NewFrame(ops) \in Frame
  <1>1. Len(ops) \in Nat /\ DOMAIN ops = 1 .. Len(ops) /\ Len(ops) # 0
    OBVIOUS
  <1>2. ASSUME NEW i \in 1 .. Len(ops)
        PROVE  [key |-> ops[i].key, seq |-> nextSeq + i, val |-> ops[i].val] \in Record
    <2>1. ops[i] \in Op
      BY <1>1, <1>2, ElementOfSeq
    <2>2. nextSeq + i \in Nat
      BY <1>1, <1>2
    <2> QED
      BY <2>1, <2>2 DEF Op, Record
  <1>3. NewFrame(ops) \in [1 .. Len(ops) -> Record]
    BY <1>1, <1>2 DEF NewFrame
  <1>4. NewFrame(ops) \in Seq(Record)
    BY <1>1, <1>3
  <1>5. NewFrame(ops) # <<>>
    BY <1>1, <1>3
  <1> QED
    BY <1>4, <1>5 DEF Frame

LEMMA AppendType ==
    ASSUME WALTypeOK, NEW ops \in Seq(Op), ops # <<>>,
           AppendFrame(ops) \/ AppendNothing(ops) \/ AppendTorn(ops)
    PROVE  WALTypeOK'
  <1>1. NewFrame(ops) \in Frame
    BY NewFrameType DEF WALTypeOK
  <1>2. Len(ops) \in Nat
    OBVIOUS
  <1>3. (appends + 1) % SyncEveryN \in Nat
    BY WALAssumption DEF WALTypeOK
  <1>4. Append(frames, NewFrame(ops)) \in Seq(Frame)
    BY <1>1 DEF WALTypeOK
  <1>5. CASE AppendFrame(ops)
    BY <1>2, <1>3, <1>4, <1>5 DEF WALTypeOK, AppendFrame
  <1>6. CASE AppendNothing(ops)
    BY <1>2, <1>6 DEF WALTypeOK, AppendNothing
  <1>7. CASE AppendTorn(ops)
    BY <1>2, <1>7 DEF WALTypeOK, AppendTorn
  <1> QED
    BY <1>5, <1>6, <1>7

LEMMA SurvivorsType ==
    ASSUME WALTypeOK
    PROVE  Survivors \subseteq Seq(Frame)
  <1>1. ASSUME NEW n \in 0 .. Len(frames) PROVE SubSeq(frames, 1, n) \in Seq(Frame)
    BY SubSeqProperties DEF WALTypeOK
  <1>2. Len(durable) \in Nat /\ Len(frames) \in Nat
    BY DEF WALTypeOK
  <1> QED
    BY <1>1, <1>2 DEF Survivors, WALTypeOK

LEMMA LosePowerType ==
    ASSUME WALTypeOK, LosePower
    PROVE  WALTypeOK'
  BY SurvivorsType DEF LosePower, WALTypeOK

LEMMA SeqsInType ==
    ASSUME NEW fs \in Seq(Frame)
    PROVE  SeqsIn(fs) \subseteq Nat
  <1>1. ToSet(fs) \subseteq Frame
    BY DEF ToSet
  <1>2. ASSUME NEW f \in Frame PROVE ToSet(f) \subseteq Record
    BY DEF ToSet, Frame
  <1>3. FrameRecords(ToSet(fs)) \subseteq Record
    BY <1>1, <1>2 DEF FrameRecords
  <1> QED
    BY <1>3 DEF SeqsIn, Record

LEMMA SeqFloorType ==
    ASSUME NEW m \in MfState
    PROVE  SeqFloor(m) \in Nat
  <1>1. {f.maxSeq : f \in m.files} \in SUBSET Nat
    BY DEF MfState, FileMeta
  <1>2. m.logSeq \in Nat
    BY DEF MfState
  <1> QED
    BY <1>1, <1>2, HighestSeqType, LargerType DEF SeqFloor

LEMMA RecoverLogType ==
    ASSUME WALTypeOK, NEW floor \in Nat, RecoverLog(floor), durable' \in {durable, frames}
    PROVE  WALTypeOK'
  <1>1. SeqsIn(frames) \in SUBSET Nat
    BY SeqsInType DEF WALTypeOK
  <1>2. Larger(HighestSeq(SeqsIn(frames)), floor) \in Nat
    BY <1>1, HighestSeqType, LargerType
  <1> QED
    BY <1>2 DEF WALTypeOK, RecoverLog

LEMMA ResetType ==
    ASSUME WALTypeOK, ResetLog \/ ResetLogUnsynced, nextSeq' \in Nat
    PROVE  WALTypeOK'
  <1>1. <<>> \in Seq(Frame)
    OBVIOUS
  <1>2. frames' \in Seq(Frame) /\ durable' \in Seq(Frame)
    BY <1>1 DEF WALTypeOK, ResetLog, ResetLogUnsynced
  <1>3. torn' = FALSE /\ appends' = 0
    BY Zenon DEF ResetLog, ResetLogUnsynced
  <1> QED
    BY <1>2, <1>3 DEF WALTypeOK

-----------------------------------------------------------------------------
(* The manifest and the directory.                                           *)

LEMMA ManifestOps ==
    ASSUME NEW m \in MfState, NEW meta \in FileMeta, NEW removed
    PROVE  /\ Alloc(m) \in MfState /\ Alloc(m).nextFile = m.nextFile + 1
           /\ AddFile(m, meta) \in MfState /\ AddFile(m, meta).nextFile = m.nextFile
           /\ Replace(m, removed, meta) \in MfState
           /\ Replace(m, removed, meta).nextFile = m.nextFile
  <1>1. Larger(m.logSeq, meta.maxSeq) \in Nat
    BY LargerType DEF MfState, FileMeta
  <1>2. m.files \cup {meta} \in SUBSET FileMeta
    BY DEF MfState
  <1>3. {f \in m.files : f.no \notin removed} \cup {meta} \in SUBSET FileMeta
    BY DEF MfState
  <1>4. Alloc(m) \in MfState /\ Alloc(m).nextFile = m.nextFile + 1
    BY DEF Alloc, MfState
  <1>5. AddFile(m, meta) \in MfState /\ AddFile(m, meta).nextFile = m.nextFile
    BY <1>1, <1>2 DEF AddFile, MfState
  <1>6. Replace(m, removed, meta) \in MfState /\ Replace(m, removed, meta).nextFile = m.nextFile
    BY <1>1, <1>3 DEF Replace, MfState
  <1> QED
    BY <1>4, <1>5, <1>6

LEMMA MetaOfType ==
    ASSUME NEW n \in Nat, NEW level \in {0, 1}, NEW t \in Table
    PROVE  MetaOf(n, level, t) \in FileMeta
  BY MaxSeqOfType DEF MetaOf, FileMeta

LEMMA WriteToType ==
    ASSUME FilesTypeOK, NEW n \in Nat, NEW c \in BOOLEAN, NEW t \in Table, WriteTo(n, c, t)
    PROVE  /\ FilesTypeOK'
           /\ DOMAIN files' = DOMAIN files \cup {n}
           /\ files'[n] = [complete |-> c, data |-> t]
           /\ \A m \in DOMAIN files \ {n} : files'[m] = files[m]
  <1>1. [complete |-> c, data |-> t] \in SSTFile
    BY DEF SSTFile
  <1> QED
    BY <1>1 DEF WriteTo, FilesTypeOK

LEMMA RemoveFilesType ==
    ASSUME FilesTypeOK, NEW ns, RemoveFiles(ns)
    PROVE  /\ FilesTypeOK'
           /\ DOMAIN files' = DOMAIN files \ ns
           /\ \A m \in DOMAIN files \ ns : files'[m] = files[m]
  BY DEF RemoveFiles, FilesTypeOK

LEMMA DataOfType ==
    ASSUME FilesTypeOK, NEW ns \in SUBSET DOMAIN files
    PROVE  DataOf(ns) \subseteq Table
  BY DEF DataOf, FilesTypeOK, SSTFile

LEMMA CutShortType ==
    ASSUME NEW t \in Table, NEW lost
    PROVE  CutShort(t, lost) \in Table
  <1>1. NoVersion \in Version
    BY DEF NoVersion, Version, Contents
  <1> QED
    BY <1>1 DEF CutShort, Table

-----------------------------------------------------------------------------
(* Type correctness.  Three facts about the point an operation has reached   *)
(* make it inductive: there is a frame to apply after an append, the file a  *)
(* flush or a merge reads back has been created, and so have its inputs.     *)

HasOutput == {"flushFinish", "flushAdd", "flushOpen", "flushReset",
              "mergeFinish", "mergeOpen", "mergeReplace", "mergeRemove"}

PcInv ==
    /\ pc = "sync" => pending # <<>>
    /\ pc \in HasOutput => LastAllocated \in DOMAIN files
    /\ pc = "mergeFinish" => inputs \subseteq DOMAIN files

TypeInv == TypeOK /\ PcInv

LEMMA HistSeqType ==
    ASSUME GhostTypeOK
    PROVE  HistSeq \in Nat /\ Larger(stable, HistSeq) \in Nat
  <1>1. {LastSeq(f) : f \in hist} \in SUBSET Nat
    BY LastSeqType DEF GhostTypeOK
  <1> QED
    BY <1>1, HighestSeqType, LargerType DEF HistSeq, GhostTypeOK

LEMMA FaultType ==
    ASSUME GhostTypeOK, NEW kind, Fault(kind)
    PROVE  faults' \in Nat
  BY DEF Fault, GhostTypeOK

LEMMA TypeInit == Init => TypeInv
  <1> SUFFICES ASSUME Init PROVE TypeInv
    OBVIOUS
  <1>1. WALTypeOK
    <2>1. <<>> \in Seq(Frame)
      OBVIOUS
    <2>2. frames = <<>> /\ torn = FALSE /\ durable = <<>> /\ nextSeq = 0 /\ appends = 0
      BY Zenon DEF Init, WALInit
    <2> QED
      BY <2>1, <2>2 DEF WALTypeOK
  <1>2. ManifestTypeOK
    BY DEF Init, ManifestInit, NewManifest, ManifestTypeOK, MfState
  <1>3. FilesTypeOK
    <2>1. DOMAIN files = {}
      BY DEF Init
    <2> QED
      BY <2>1 DEF FilesTypeOK
  <1>4. SessionTypeOK
    BY EmptyTableType DEF Init, SessionTypeOK, PCs
  <1>5. GhostTypeOK
    BY DEF Init, GhostTypeOK
  <1>6. PcInv
    BY DEF Init, PcInv, HasOutput
  <1> QED
    BY <1>1, <1>2, <1>3, <1>4, <1>5, <1>6 DEF TypeInv, TypeOK

\* Opening and replaying.
LEMMA TypeOpen ==
    ASSUME TypeInv,
           \/ \E ro \in BOOLEAN : Open(ro)
           \/ OpenFails \/ ReplayFrame \/ ReplayDone \/ ReplayCancelled
    PROVE  TypeInv'
  <1> USE DEF TypeInv, TypeOK
  <1>1. SeqFloor(mfDisk) \in Nat
    BY SeqFloorType DEF ManifestTypeOK
  <1>2. ASSUME NEW ro \in BOOLEAN, Open(ro) PROVE TypeInv'
    <2>1. WALTypeOK'
      BY <1>1, <1>2, RecoverLogType DEF Open
    <2>2. ManifestTypeOK' /\ FilesTypeOK'
      BY <1>2 DEF Open, ManifestTypeOK, FilesTypeOK
    <2>3. FileNos(mfDisk) \subseteq Nat
      BY DEF FileNos, ManifestTypeOK, MfState, FileMeta
    <2>4. SessionTypeOK'
      BY <1>2, <2>3 DEF Open, SessionTypeOK, PCs
    <2>5. ToSet(frames) \subseteq Frame
      BY DEF ToSet, WALTypeOK
    <2>6. GhostTypeOK'
      BY <1>2, <2>5 DEF Open, GhostTypeOK, RecoveredHist, bounds
    <2>7. PcInv'
      BY <1>2 DEF Open, PcInv, HasOutput
    <2> QED
      BY <2>1, <2>2, <2>4, <2>6, <2>7
  <1>3. CASE OpenFails
    <2>1. WALTypeOK'
      BY <1>1, <1>3, RecoverLogType DEF OpenFails, Fsync
    <2>2. faults' \in Nat
      BY <1>3, FaultType DEF OpenFails, GhostTypeOK
    <2>3. UNCHANGED <<mfVars, dbVars, ghosts, crashes>>
      BY <1>3 DEF OpenFails
    <2> QED
      BY <2>1, <2>2, <2>3 DEF mfVars, dbVars, volatile, ghosts, ManifestTypeOK, FilesTypeOK,
         SessionTypeOK, GhostTypeOK, PcInv, LastAllocated
  <1>4. CASE ReplayFrame
    <2>1. frames[replayed + 1] \in Frame
      BY <1>4 DEF ReplayFrame, WALTypeOK, SessionTypeOK
    <2>2. mem' \in Table /\ replayed' \in Nat
      BY <1>4, <2>1, MemApplyType DEF ReplayFrame, SessionTypeOK
    <2>3. nilKey' \in BOOLEAN
      BY <1>4 DEF ReplayFrame
    <2>4. UNCHANGED <<walVars, mfVars, files, pc, tables, closed, readOnly, closing, inputs,
                      pending, ghosts, bounds>>
      BY <1>4 DEF ReplayFrame
    <2> QED
      BY <2>2, <2>3, <2>4 DEF walVars, mfVars, ghosts, bounds, WALTypeOK, ManifestTypeOK,
         FilesTypeOK, SessionTypeOK, GhostTypeOK, PcInv, LastAllocated
  <1>5. CASE ReplayDone
    <2>1. pc' = "idle" /\ replayed' = 0
      BY <1>5 DEF ReplayDone
    <2>2. UNCHANGED <<walVars, mfVars, files, mem, nilKey, tables, closed, readOnly, closing,
                      inputs, pending, ghosts, bounds>>
      BY <1>5 DEF ReplayDone
    <2> QED
      BY <2>1, <2>2 DEF walVars, mfVars, ghosts, bounds, WALTypeOK, ManifestTypeOK, FilesTypeOK,
         SessionTypeOK, GhostTypeOK, PcInv, LastAllocated, PCs, HasOutput
  <1>6. CASE ReplayCancelled
    <2>1. pc' \in {"flushAlloc", "closing"} /\ closing' = "abort" /\ replayed' = 0
      BY <1>6 DEF ReplayCancelled, StartClose
    <2>2. faults' \in Nat
      BY <1>6, FaultType DEF ReplayCancelled
    <2>3. UNCHANGED <<walVars, mfVars, files, mem, nilKey, tables, closed, readOnly, inputs,
                      pending, ghosts, crashes>>
      BY <1>6 DEF ReplayCancelled
    <2> QED
      BY <2>1, <2>2, <2>3 DEF walVars, mfVars, ghosts, WALTypeOK, ManifestTypeOK, FilesTypeOK,
         SessionTypeOK, GhostTypeOK, PcInv, LastAllocated, PCs, HasOutput
  <1> QED
    BY <1>2, <1>3, <1>4, <1>5, <1>6

\* What a client may write, in one frame.
LEMMA OpsType ==
    /\ \A k \in Keys, v \in Contents :
            <<[key |-> k, val |-> v]>> \in Seq(Op) /\ <<[key |-> k, val |-> v]>> # <<>>
    /\ Batches \subseteq Seq(Op) /\ \A b \in Batches : b # <<>>
    /\ Vals \subseteq Contents /\ Tombstone \in Contents
  <1>1. ASSUME NEW k \in Keys, NEW v \in Contents
        PROVE  <<[key |-> k, val |-> v]>> \in Seq(Op) /\ <<[key |-> k, val |-> v]>> # <<>>
    <2>1. [key |-> k, val |-> v] \in Op
      BY <1>1 DEF Op
    <2> QED
      BY <2>1
  <1>2. Batches \subseteq Seq(Op)
    BY LSMKVAssumption, Zenon DEF Op
  <1>3. \A b \in Batches : b # <<>>
    BY LSMKVAssumption
  <1>4. Vals \subseteq Contents /\ Tombstone \in Contents
    BY DEF Contents
  <1> QED
    BY <1>1, <1>2, <1>3, <1>4

\* The writes a client starts, whatever their form, are appends of operations.
LEMMA AppendsAreOps ==
    ASSUME \/ \E k \in Keys, v \in Vals : Put(k, v)
           \/ \E k \in Keys : Delete(k)
           \/ \E b \in Batches : WriteBatch(b) \/ WriteFails(b)
           \/ \E k \in Keys, v \in Contents : WriteFails(<<[key |-> k, val |-> v]>>)
    PROVE  \E ops \in Seq(Op) : ops # <<>> /\ (BeginWrite(ops) \/ WriteFails(ops))
  <1>1. ASSUME NEW k \in Keys, NEW v \in Vals, Put(k, v)
        PROVE  \E ops \in Seq(Op) : ops # <<>> /\ BeginWrite(ops)
    BY <1>1, OpsType DEF Put
  <1>2. ASSUME NEW k \in Keys, Delete(k)
        PROVE  \E ops \in Seq(Op) : ops # <<>> /\ BeginWrite(ops)
    BY <1>2, OpsType DEF Delete
  <1>3. ASSUME NEW b \in Batches, WriteBatch(b) \/ WriteFails(b)
        PROVE  \E ops \in Seq(Op) : ops # <<>> /\ (BeginWrite(ops) \/ WriteFails(ops))
    BY <1>3, OpsType DEF WriteBatch
  <1>4. ASSUME NEW k \in Keys, NEW v \in Contents, WriteFails(<<[key |-> k, val |-> v]>>)
        PROVE  \E ops \in Seq(Op) : ops # <<>> /\ WriteFails(ops)
    BY <1>4, OpsType
  <1> QED
    BY <1>1, <1>2, <1>3, <1>4

\* Writing and syncing.
LEMMA TypeWrite ==
    ASSUME TypeInv,
           \/ \E ops \in Seq(Op) : ops # <<>> /\ (BeginWrite(ops) \/ WriteFails(ops))
           \/ FinishWrite \/ SyncFails \/ Sync
    PROVE  TypeInv'
  <1> USE DEF TypeInv, TypeOK
  <1>1. ASSUME NEW ops \in Seq(Op), ops # <<>>, BeginWrite(ops) PROVE TypeInv'
    <2>1. WALTypeOK'
      BY <1>1, AppendType DEF BeginWrite
    <2>2. NewFrame(ops) \in Frame
      BY <1>1, NewFrameType DEF WALTypeOK
    <2>3. pc' = "sync" /\ pending' = NewFrame(ops)
      BY <1>1 DEF BeginWrite
    <2>4. UNCHANGED <<mfVars, files, mem, nilKey, tables, closed, readOnly, closing, inputs,
                      replayed, ghosts, bounds>>
      BY <1>1 DEF BeginWrite
    <2>5. pending' # <<>>
      BY <2>2, <2>3 DEF Frame
    <2> QED
      BY <2>1, <2>2, <2>3, <2>4, <2>5 DEF mfVars, ghosts, bounds, ManifestTypeOK, FilesTypeOK,
         SessionTypeOK, GhostTypeOK, PcInv, PCs, HasOutput
  <1>2. ASSUME NEW ops \in Seq(Op), ops # <<>>, WriteFails(ops) PROVE TypeInv'
    <2>1. WALTypeOK'
      BY <1>2, AppendType DEF WriteFails
    <2>2. faults' \in Nat
      BY <1>2, FaultType DEF WriteFails
    <2>3. UNCHANGED <<mfVars, dbVars, ghosts, crashes>>
      BY <1>2 DEF WriteFails
    <2> QED
      BY <2>1, <2>2, <2>3 DEF mfVars, dbVars, volatile, ghosts, ManifestTypeOK, FilesTypeOK,
         SessionTypeOK, GhostTypeOK, PcInv, LastAllocated
  <1>3. CASE FinishWrite
    <2>1. pending \in Frame
      BY <1>3 DEF FinishWrite, PcInv, SessionTypeOK
    <2>2. mem' \in Table
      BY <1>3, <2>1, MemApplyType DEF FinishWrite, SessionTypeOK
    <2>3. stable' \in Nat
      BY <1>3, <2>1, LastSeqType, LargerType DEF FinishWrite, GhostTypeOK
    <2>4. hist' \subseteq Frame
      BY <1>3, <2>1 DEF FinishWrite, GhostTypeOK
    <2>5. durable' \in {durable, frames}
      BY <1>3 DEF FinishWrite, Fsync
    <2>6. pc' \in {"flushAlloc", "idle"} /\ pending' = <<>>
      BY <1>3 DEF FinishWrite
    <2>7. UNCHANGED <<frames, torn, nextSeq, appends, mfVars, files, tables, closed, readOnly,
                      closing, inputs, replayed, bounds>>
      BY <1>3 DEF FinishWrite
    <2>8. nilKey' \in BOOLEAN
      <3>1. nilKey' = nilKey \/ nilKey' = (nilKey \/ BringsEmptyKey(pending))
        BY <1>3 DEF FinishWrite
      <3> QED
        BY <3>1 DEF SessionTypeOK
    <2> QED
      BY <2>2, <2>3, <2>4, <2>5, <2>6, <2>7, <2>8 DEF mfVars, bounds, WALTypeOK, ManifestTypeOK,
         FilesTypeOK, SessionTypeOK, GhostTypeOK, PcInv, PCs, HasOutput
  <1>4. CASE SyncFails
    <2>1. pc' = "idle" /\ pending' = <<>>
      BY <1>4 DEF SyncFails
    <2>2. faults' \in Nat
      BY <1>4, FaultType DEF SyncFails
    <2>3. UNCHANGED <<walVars, mfVars, files, mem, nilKey, tables, closed, readOnly, closing,
                      inputs, replayed, ghosts, crashes>>
      BY <1>4 DEF SyncFails
    <2> QED
      BY <2>1, <2>2, <2>3 DEF walVars, mfVars, ghosts, WALTypeOK, ManifestTypeOK, FilesTypeOK,
         SessionTypeOK, GhostTypeOK, PcInv, PCs, HasOutput
  <1>5. CASE Sync
    <2>1. stable' \in Nat
      BY <1>5, HistSeqType DEF Sync
    <2>2. durable' = frames
      BY <1>5 DEF Sync, Fsync
    <2>3. UNCHANGED <<frames, torn, nextSeq, appends, mfVars, dbVars, hist, bounds>>
      BY <1>5 DEF Sync
    <2> QED
      BY <2>1, <2>2, <2>3 DEF mfVars, dbVars, volatile, bounds, WALTypeOK, ManifestTypeOK,
         FilesTypeOK, SessionTypeOK, GhostTypeOK, PcInv, LastAllocated
  <1> QED
    BY <1>1, <1>2, <1>3, <1>4, <1>5

LEMMA LastAllocatedType ==
    ASSUME ManifestTypeOK
    PROVE  LastAllocated \in Nat
  BY DEF LastAllocated, ManifestTypeOK, MfState

\* An allocation, saved or not.
LEMMA AllocType ==
    ASSUME ManifestTypeOK, Update(Alloc(mf)) \/ UpdateUnsaved(Alloc(mf))
    PROVE  ManifestTypeOK'
  <1>1. Alloc(mf) \in MfState
    BY DEF Alloc, ManifestTypeOK, MfState
  <1> QED
    BY <1>1 DEF ManifestTypeOK, Update, UpdateUnsaved

LEMMA FlushFailsType ==
    ASSUME SessionTypeOK, FlushFails
    PROVE  pc' \in {"idle", "closing"} /\ closing' \in {"no", "close", "failed", "abort"}
  BY DEF FlushFails, SessionTypeOK

\* Flushing.
LEMMA TypeFlush ==
    ASSUME TypeInv,
           Flush \/ FlushAlloc \/ FlushCreate \/ FlushFinish \/ FlushAdd \/ FlushOpen \/ FlushReset
    PROVE  TypeInv'
  <1> USE DEF TypeInv, TypeOK
  <1>0. LastAllocated \in Nat
    BY LastAllocatedType
  <1>1. CASE Flush
    <2>1. pc' = "flushAlloc" /\ UNCHANGED <<walVars, mfVars, files, volatile, ghosts, bounds>>
      BY <1>1 DEF Flush
    <2> QED
      BY <2>1 DEF walVars, mfVars, volatile, ghosts, bounds, WALTypeOK, ManifestTypeOK,
         FilesTypeOK, SessionTypeOK, GhostTypeOK, PcInv, PCs, HasOutput
  <1>2. CASE FlushAlloc
    <2>1. ManifestTypeOK'
      BY <1>2, AllocType DEF FlushAlloc
    <2>2. /\ pc' \in {"flushCreate", "idle", "closing"}
          /\ closing' \in {"no", "close", "failed", "abort"}
      BY <1>2, FlushFailsType DEF FlushAlloc, SessionTypeOK
    <2>3. faults' \in Nat
      BY <1>2, FaultType DEF FlushAlloc, GhostTypeOK
    <2>4. UNCHANGED <<walVars, files, mem, nilKey, tables, closed, readOnly, inputs, pending,
                      replayed, ghosts, crashes>>
      BY <1>2 DEF FlushAlloc
    <2> QED
      BY <2>1, <2>2, <2>3, <2>4 DEF walVars, ghosts, WALTypeOK, FilesTypeOK, SessionTypeOK,
         GhostTypeOK, PcInv, PCs, HasOutput
  <1>3. CASE FlushCreate
    <2>1. FilesTypeOK' /\ DOMAIN files' = DOMAIN files \cup {LastAllocated}
      BY <1>0, <1>3, WriteToType, EmptyTableType DEF FlushCreate
    <2>2. pc' = "flushFinish" /\ UNCHANGED <<walVars, mfVars, volatile, ghosts, bounds>>
      BY <1>3 DEF FlushCreate
    <2> QED
      BY <2>1, <2>2 DEF walVars, mfVars, volatile, ghosts, bounds, WALTypeOK, ManifestTypeOK,
         SessionTypeOK, GhostTypeOK, PcInv, PCs, HasOutput, LastAllocated
  <1>4. CASE FlushFinish
    <2>1. FilesTypeOK' /\ (pc' = "flushAdd" => LastAllocated \in DOMAIN files')
      <3>1. CASE WriteTo(LastAllocated, TRUE, mem)
        BY <1>0, <3>1, WriteToType DEF SessionTypeOK
      <3>2. CASE UNCHANGED files
        BY <1>4, <3>2 DEF FlushFinish, FilesTypeOK, PcInv, HasOutput
      <3>3. CASE RemoveFiles({LastAllocated}) /\ FlushFails
        BY <3>3, RemoveFilesType DEF FlushFails
      <3> QED
        BY <1>4, <3>1, <3>2, <3>3 DEF FlushFinish
    <2>2. /\ pc' \in {"flushAdd", "idle", "closing"}
          /\ closing' \in {"no", "close", "failed", "abort"}
      BY <1>4, FlushFailsType DEF FlushFinish, SessionTypeOK
    <2>3. faults' \in Nat
      BY <1>4, FaultType DEF FlushFinish, GhostTypeOK
    <2>4. UNCHANGED <<walVars, mfVars, mem, nilKey, tables, closed, readOnly, inputs, pending,
                      replayed, ghosts, crashes>>
      BY <1>4 DEF FlushFinish
    <2> QED
      BY <2>1, <2>2, <2>3, <2>4 DEF walVars, mfVars, ghosts, WALTypeOK, ManifestTypeOK,
         SessionTypeOK, GhostTypeOK, PcInv, PCs, HasOutput, LastAllocated
  <1>5. CASE FlushAdd
    <2> DEFINE added == AddFile(mf, MetaOf(LastAllocated, 0, mem))
    <2>1. added \in MfState /\ added.nextFile = mf.nextFile
      BY <1>0, MetaOfType, ManifestOps DEF ManifestTypeOK, SessionTypeOK
    <2>2. UNCHANGED <<walVars, mem, nilKey, tables, closed, readOnly, inputs, pending, replayed,
                      ghosts, crashes>>
      BY <1>5 DEF FlushAdd
    <2>3. faults' \in Nat
      BY <1>5, FaultType DEF FlushAdd, GhostTypeOK
    <2>4. mf' = added /\ mfDisk' \in {mfDisk, added}
      BY <1>5 DEF FlushAdd, Update, UpdateUnsaved
    <2>5. ManifestTypeOK' /\ LastAllocated' = LastAllocated
      BY <2>1, <2>4 DEF ManifestTypeOK, LastAllocated
    <2>6. CASE pc' = "flushOpen" /\ UNCHANGED <<files, closing>>
      BY <1>5, <2>2, <2>3, <2>5, <2>6 DEF FlushAdd, walVars, ghosts, WALTypeOK, FilesTypeOK,
         SessionTypeOK, GhostTypeOK, PcInv, PCs, HasOutput
    <2>7. CASE RemoveFiles({LastAllocated}) /\ FlushFails
      BY <2>2, <2>3, <2>5, <2>7, RemoveFilesType, FlushFailsType DEF walVars, ghosts, WALTypeOK,
         SessionTypeOK, GhostTypeOK, PcInv, PCs, HasOutput
    <2> QED
      BY <1>5, <2>6, <2>7 DEF FlushAdd
  <1>6. CASE FlushOpen
    <2>1. tables' \subseteq Nat /\ mem' \in Table /\ nilKey' \in BOOLEAN
      BY <1>0, <1>6, EmptyTableType DEF FlushOpen, SessionTypeOK
    <2>2. /\ pc' \in {"flushReset", "idle", "closing"}
          /\ closing' \in {"no", "close", "failed", "abort"}
      BY <1>6, FlushFailsType DEF FlushOpen, SessionTypeOK
    <2>3. faults' \in Nat
      BY <1>6, FaultType DEF FlushOpen, GhostTypeOK
    <2>4. UNCHANGED <<walVars, mfVars, files, closed, readOnly, inputs, pending, replayed,
                      ghosts, crashes>>
      BY <1>6 DEF FlushOpen
    <2>5. LastAllocated \in DOMAIN files
      BY <1>6 DEF FlushOpen, PcInv, HasOutput
    <2> QED
      BY <2>1, <2>2, <2>3, <2>4, <2>5 DEF walVars, mfVars, ghosts, WALTypeOK, ManifestTypeOK,
         FilesTypeOK, SessionTypeOK, GhostTypeOK, PcInv, PCs, HasOutput, LastAllocated
  <1>7. CASE FlushReset
    <2>1. files[LastAllocated].data \in Table
      BY <1>7 DEF FlushReset, PcInv, HasOutput, FilesTypeOK, SSTFile
    <2>2. nextSeq' \in Nat
      BY <1>7, <2>1, MaxSeqOfType, LargerType DEF FlushReset, WALTypeOK, walVars
    <2>3. WALTypeOK'
      BY <1>7, <2>2, ResetType DEF FlushReset, WALTypeOK, walVars
    <2>4. stable' \in Nat
      BY <1>7, HistSeqType DEF FlushReset, GhostTypeOK
    <2>5. faults' \in Nat
      BY <1>7, FaultType DEF FlushReset, GhostTypeOK
    <2>6. pc' \in {"idle", "closing"} /\ closing' \in {"no", "close", "failed", "abort"}
      BY <1>7, FlushFailsType DEF FlushReset, SessionTypeOK
    <2>7. UNCHANGED <<mfVars, files, mem, nilKey, tables, closed, readOnly, inputs, pending,
                      replayed, hist, crashes>>
      BY <1>7 DEF FlushReset
    <2> QED
      BY <2>3, <2>4, <2>5, <2>6, <2>7 DEF mfVars, ManifestTypeOK, FilesTypeOK,
         SessionTypeOK, GhostTypeOK, PcInv, PCs, HasOutput
  <1> QED
    BY <1>1, <1>2, <1>3, <1>4, <1>5, <1>6, <1>7

LEMMA DataOfAllType ==
    ASSUME FilesTypeOK, NEW ns \in SUBSET DOMAIN files
    PROVE  MergeTables(DataOf(ns)) \in Table
  BY DataOfType, MergeTablesType

\* Compacting.
LEMMA TypeCompact ==
    ASSUME TypeInv,
           \/ Compact \/ MergeAlloc \/ MergeCreate \/ MergeFinish
           \/ MergeOpen \/ MergeReplace \/ MergeRemove
    PROVE  TypeInv'
  <1> USE DEF TypeInv, TypeOK
  <1>0. LastAllocated \in Nat
    BY LastAllocatedType
  <1>1. CASE Compact
    <2>1. inputs' \subseteq Nat
      BY <1>1 DEF Compact, Planned, SessionTypeOK
    <2>2. pc' = "mergeAlloc"
      BY <1>1 DEF Compact
    <2>3. UNCHANGED <<walVars, mfVars, files, mem, nilKey, tables, closed, readOnly, closing,
                      pending, replayed, ghosts, bounds>>
      BY <1>1 DEF Compact
    <2> QED
      BY <2>1, <2>2, <2>3 DEF walVars, mfVars, ghosts, bounds, WALTypeOK, ManifestTypeOK,
         FilesTypeOK, SessionTypeOK, GhostTypeOK, PcInv, PCs, HasOutput
  <1>2. CASE MergeAlloc
    <2>1. ManifestTypeOK'
      BY <1>2, AllocType DEF MergeAlloc
    <2>2. pc' \in {"mergeCreate", "idle"} /\ inputs' \subseteq Nat
      BY <1>2 DEF MergeAlloc, MergeFails, SessionTypeOK
    <2>3. faults' \in Nat
      BY <1>2, FaultType DEF MergeAlloc, GhostTypeOK
    <2>4. UNCHANGED <<walVars, files, mem, nilKey, tables, closed, readOnly, closing, pending,
                      replayed, ghosts, crashes>>
      BY <1>2 DEF MergeAlloc
    <2> QED
      BY <2>1, <2>2, <2>3, <2>4 DEF walVars, ghosts, WALTypeOK, FilesTypeOK, SessionTypeOK,
         GhostTypeOK, PcInv, PCs, HasOutput
  <1>3. CASE MergeCreate
    <2>1. faults' \in Nat
      BY <1>3, FaultType DEF MergeCreate, GhostTypeOK
    <2>2. UNCHANGED <<walVars, mfVars, mem, nilKey, tables, closed, readOnly, closing, pending,
                      replayed, ghosts, crashes>>
      BY <1>3 DEF MergeCreate
    <2>3. CASE /\ \A n \in inputs : Readable(n)
               /\ WriteTo(LastAllocated, FALSE, EmptyTable)
               /\ pc' = "mergeFinish" /\ UNCHANGED inputs
      <3>1. FilesTypeOK' /\ DOMAIN files' = DOMAIN files \cup {LastAllocated}
        BY <1>0, <2>3, WriteToType, EmptyTableType
      <3>2. inputs' \subseteq DOMAIN files'
        BY <2>3, <3>1 DEF Readable
      <3> QED
        BY <2>1, <2>2, <2>3, <3>1, <3>2 DEF walVars, mfVars, ghosts, WALTypeOK, ManifestTypeOK,
           SessionTypeOK, GhostTypeOK, PcInv, PCs, HasOutput, LastAllocated
    <2>4. CASE MergeFails /\ UNCHANGED files
      BY <2>1, <2>2, <2>4 DEF MergeFails, walVars, mfVars, ghosts, WALTypeOK, ManifestTypeOK,
         FilesTypeOK, SessionTypeOK, GhostTypeOK, PcInv, PCs, HasOutput
    <2> QED
      BY <1>3, <2>3, <2>4 DEF MergeCreate
  <1>4. CASE MergeFinish
    <2>1. faults' \in Nat
      BY <1>4, FaultType DEF MergeFinish, GhostTypeOK
    <2>2. UNCHANGED <<walVars, mfVars, mem, nilKey, tables, closed, readOnly, closing, pending,
                      replayed, ghosts, crashes>>
      BY <1>4 DEF MergeFinish
    <2>3. inputs \subseteq DOMAIN files
      BY <1>4 DEF MergeFinish, PcInv
    <2>4. ASSUME NEW t \in Table, WriteTo(LastAllocated, TRUE, t), pc' = "mergeOpen",
                 UNCHANGED inputs
          PROVE  TypeInv'
      <3>1. FilesTypeOK' /\ DOMAIN files' = DOMAIN files \cup {LastAllocated}
        BY <1>0, <2>4, WriteToType
      <3> QED
        BY <2>1, <2>2, <2>4, <3>1 DEF walVars, mfVars, ghosts, WALTypeOK, ManifestTypeOK,
           SessionTypeOK, GhostTypeOK, PcInv, PCs, HasOutput, LastAllocated
    <2>5. CASE /\ WriteTo(LastAllocated, TRUE, MergeTables(DataOf(inputs)))
               /\ pc' = "mergeOpen" /\ UNCHANGED inputs
      BY <2>3, <2>4, <2>5, DataOfAllType
    <2>6. ASSUME NEW n \in inputs, NEW lost \in SUBSET Keys,
                 WriteTo(LastAllocated, TRUE,
                         MergeTables(DataOf(inputs \ {n}) \cup {CutShort(files[n].data, lost)})),
                 pc' = "mergeOpen", UNCHANGED inputs
          PROVE  TypeInv'
      <3>1. DataOf(inputs \ {n}) \subseteq Table
        BY <2>3, DataOfType
      <3>2. CutShort(files[n].data, lost) \in Table
        BY <2>3, <2>6, CutShortType DEF FilesTypeOK, SSTFile
      <3>3. MergeTables(DataOf(inputs \ {n}) \cup {CutShort(files[n].data, lost)}) \in Table
        BY <3>1, <3>2, MergeTablesType
      <3> QED
        BY <2>4, <2>6, <3>3
    <2>7. CASE RemoveFiles({LastAllocated}) /\ MergeFails
      BY <2>1, <2>2, <2>7, RemoveFilesType DEF MergeFails, walVars, mfVars, ghosts, WALTypeOK,
         ManifestTypeOK, SessionTypeOK, GhostTypeOK, PcInv, PCs, HasOutput
    <2> QED
      BY <1>4, <2>5, <2>6, <2>7 DEF MergeFinish
  <1>5. CASE MergeOpen
    <2>1. closed' \subseteq Nat /\ inputs' \subseteq Nat /\ pc' \in {"mergeReplace", "idle"}
      BY <1>5 DEF MergeOpen, MergeFails, SessionTypeOK
    <2>2. faults' \in Nat
      BY <1>5, FaultType DEF MergeOpen, GhostTypeOK
    <2>3. UNCHANGED <<walVars, mfVars, files, mem, nilKey, tables, readOnly, closing, pending,
                      replayed, ghosts, crashes>>
      BY <1>5 DEF MergeOpen
    <2>4. LastAllocated \in DOMAIN files
      BY <1>5 DEF MergeOpen, PcInv, HasOutput
    <2> QED
      BY <2>1, <2>2, <2>3, <2>4 DEF walVars, mfVars, ghosts, WALTypeOK, ManifestTypeOK,
         FilesTypeOK, SessionTypeOK, GhostTypeOK, PcInv, PCs, HasOutput, LastAllocated
  <1>6. CASE MergeReplace
    <2> DEFINE meta     == MetaOf(LastAllocated, 1, files[LastAllocated].data)
               replaced == Replace(mf, inputs, meta)
    <2>1. LastAllocated \in DOMAIN files /\ files[LastAllocated].data \in Table
      BY <1>6 DEF MergeReplace, PcInv, HasOutput, FilesTypeOK, SSTFile
    <2>2. meta \in FileMeta
      BY <1>0, <2>1, MetaOfType
    <2>3. replaced \in MfState /\ replaced.nextFile = mf.nextFile
      BY <2>2, ManifestOps DEF ManifestTypeOK
    <2>4. mf' = replaced /\ mfDisk' \in {mfDisk, replaced}
      BY <1>6 DEF MergeReplace, Update, UpdateUnsaved
    <2>5. ManifestTypeOK' /\ LastAllocated' = LastAllocated
      BY <2>3, <2>4 DEF ManifestTypeOK, LastAllocated
    <2>6. inputs' \subseteq Nat /\ pc' \in {"mergeRemove", "idle"}
      BY <1>6 DEF MergeReplace, MergeFails, SessionTypeOK
    <2>7. faults' \in Nat
      BY <1>6, FaultType DEF MergeReplace, GhostTypeOK
    <2>8. UNCHANGED <<walVars, files, mem, nilKey, tables, closed, readOnly, closing, pending,
                      replayed, ghosts, crashes>>
      BY <1>6 DEF MergeReplace
    <2> QED
      BY <2>1, <2>5, <2>6, <2>7, <2>8 DEF walVars, ghosts, WALTypeOK, FilesTypeOK, SessionTypeOK,
         GhostTypeOK, PcInv, PCs, HasOutput
  <1>7. CASE MergeRemove
    <2>1. FilesTypeOK'
      BY <1>7, RemoveFilesType DEF MergeRemove
    <2>2. tables' \subseteq Nat /\ closed' \subseteq Nat /\ inputs' = {} /\ pc' = "idle"
      BY <1>0, <1>7 DEF MergeRemove, SessionTypeOK
    <2>3. UNCHANGED <<walVars, mfVars, mem, nilKey, readOnly, closing, pending, replayed, ghosts,
                      bounds>>
      BY <1>7 DEF MergeRemove
    <2> QED
      BY <2>1, <2>2, <2>3 DEF walVars, mfVars, ghosts, bounds, WALTypeOK, ManifestTypeOK,
         SessionTypeOK, GhostTypeOK, PcInv, PCs, HasOutput
  <1> QED
    BY <1>1, <1>2, <1>3, <1>4, <1>5, <1>6, <1>7

LEMMA ForgetType ==
    ASSUME ManifestTypeOK, Forget, mfDisk' = mfDisk
    PROVE  ManifestTypeOK' /\ SessionTypeOK' /\ PcInv'
  <1>1. ManifestTypeOK'
    BY DEF Forget, ManifestTypeOK
  <1>2. SessionTypeOK'
    BY EmptyTableType DEF Forget, SessionTypeOK, PCs
  <1>3. PcInv'
    BY DEF Forget, PcInv, HasOutput
  <1> QED
    BY <1>1, <1>2, <1>3

\* Closing and crashing.
LEMMA TypeEnd ==
    ASSUME TypeInv, Close \/ FinishClose \/ Kill \/ PowerLoss
    PROVE  TypeInv'
  <1> USE DEF TypeInv, TypeOK
  <1>1. CASE Close
    <2>1. pc' \in {"flushAlloc", "closing"} /\ closing' = "close"
      BY <1>1 DEF Close, StartClose
    <2>2. UNCHANGED <<walVars, mfVars, files, mem, nilKey, tables, closed, readOnly, inputs,
                      pending, replayed, ghosts, bounds>>
      BY <1>1 DEF Close
    <2> QED
      BY <2>1, <2>2 DEF walVars, mfVars, ghosts, bounds, WALTypeOK, ManifestTypeOK, FilesTypeOK,
         SessionTypeOK, GhostTypeOK, PcInv, PCs, HasOutput
  <1>2. CASE FinishClose
    <2>1. ManifestTypeOK' /\ SessionTypeOK' /\ PcInv'
      BY <1>2, ForgetType DEF FinishClose
    <2>2. durable' \in {durable, frames}
      BY <1>2 DEF FinishClose, Fsync
    <2>3. stable' \in Nat
      BY <1>2, HistSeqType DEF FinishClose, GhostTypeOK
    <2>4. faults' \in Nat
      BY <1>2, FaultType DEF FinishClose, GhostTypeOK
    <2>5. UNCHANGED <<frames, torn, nextSeq, appends, files, hist, crashes>>
      BY <1>2 DEF FinishClose
    <2> QED
      BY <2>1, <2>2, <2>3, <2>4, <2>5 DEF WALTypeOK, FilesTypeOK, GhostTypeOK
  <1>3. CASE Kill
    <2>1. ManifestTypeOK' /\ SessionTypeOK' /\ PcInv'
      BY <1>3, ForgetType DEF Kill
    <2>2. crashes' \in Nat /\ UNCHANGED <<walVars, files, ghosts, faults>>
      BY <1>3 DEF Kill, GhostTypeOK
    <2> QED
      BY <2>1, <2>2 DEF walVars, ghosts, WALTypeOK, FilesTypeOK, GhostTypeOK
  <1>4. CASE PowerLoss
    <2>1. ManifestTypeOK' /\ SessionTypeOK' /\ PcInv'
      BY <1>4, ForgetType DEF PowerLoss
    <2>2. WALTypeOK'
      BY <1>4, LosePowerType DEF PowerLoss
    <2>3. crashes' \in Nat /\ UNCHANGED <<files, ghosts, faults>>
      BY <1>4 DEF PowerLoss, GhostTypeOK
    <2> QED
      BY <2>1, <2>2, <2>3 DEF ghosts, FilesTypeOK, GhostTypeOK
  <1> QED
    BY <1>1, <1>2, <1>3, <1>4

LEMMA TypeStutter ==
    ASSUME TypeInv, UNCHANGED vars
    PROVE  TypeInv'
  BY DEF TypeInv, TypeOK, vars, walVars, mfVars, dbVars, volatile, ghosts, bounds, WALTypeOK,
     ManifestTypeOK, FilesTypeOK, SessionTypeOK, GhostTypeOK, PcInv, LastAllocated

LEMMA TypeNext == TypeInv /\ [Next]_vars => TypeInv'
  <1> SUFFICES ASSUME TypeInv, [Next]_vars PROVE TypeInv'
    OBVIOUS
  <1>1. CASE \E ro \in BOOLEAN : Open(ro)
    BY <1>1, TypeOpen
  <1>2. CASE \/ \E k \in Keys, v \in Vals : Put(k, v)
             \/ \E k \in Keys : Delete(k)
             \/ \E b \in Batches : WriteBatch(b) \/ WriteFails(b)
             \/ \E k \in Keys, v \in Contents : WriteFails(<<[key |-> k, val |-> v]>>)
    <2>1. \E ops \in Seq(Op) : ops # <<>> /\ (BeginWrite(ops) \/ WriteFails(ops))
      BY <1>2, AppendsAreOps
    <2> QED
      BY <2>1, TypeWrite
  <1>3. CASE OpenFails \/ ReplayFrame \/ ReplayDone \/ ReplayCancelled
    BY <1>3, TypeOpen
  <1>4. CASE Sync \/ FinishWrite \/ SyncFails
    BY <1>4, TypeWrite
  <1>5. CASE \/ Flush \/ FlushAlloc \/ FlushCreate \/ FlushFinish
             \/ FlushAdd \/ FlushOpen \/ FlushReset
    BY <1>5, TypeFlush
  <1>6. CASE \/ Compact \/ MergeAlloc \/ MergeCreate \/ MergeFinish
             \/ MergeOpen \/ MergeReplace \/ MergeRemove
    BY <1>6, TypeCompact
  <1>7. CASE Close \/ FinishClose \/ Kill \/ PowerLoss
    BY <1>7, TypeEnd
  <1>8. CASE UNCHANGED vars
    BY <1>8, TypeStutter
  <1> QED
    BY <1>1, <1>2, <1>3, <1>4, <1>5, <1>6, <1>7, <1>8 DEF Next, StartOp, Continue, Crash

\* With its type, whatever an operation reads back is there.
THEOREM TypeInvariant == Spec => []TypeInv
  BY TypeInit, TypeNext, PTL DEF Spec

\* Every variable of the engine keeps its type.
THEOREM TypeCorrect == Spec => []TypeOK
  <1>1. TypeInv => TypeOK
    BY DEF TypeInv
  <1> QED
    BY <1>1, TypeInvariant, PTL
-----------------------------------------------------------------------------
(* How much of the log a power failure can take under SyncBatch.             *)

\* What the frames that are not fsynced may number beyond those of earlier
\* sessions: the appends counted, and all of a round whose fsync is due.
ThisSession ==
    IF pc = "down" THEN 0 ELSE IF pc = "sync" /\ appends = 0 THEN SyncEveryN ELSE appends

LossInv ==
    SyncPolicy = "SyncBatch" =>
        /\ appends < SyncEveryN
        /\ Len(frames) - Len(durable) =< SyncEveryN * crashes + ThisSession

LEMMA Rounds ==
    ASSUME NEW n \in Nat
    PROVE  /\ SyncEveryN * n \in Nat
           /\ SyncEveryN * (n + 1) = SyncEveryN * n + SyncEveryN
  BY WALAssumption

LEMMA LossInit == Init => LossInv
  <1> SUFFICES ASSUME Init PROVE LossInv
    OBVIOUS
  <1>1. frames = <<>> /\ durable = <<>> /\ appends = 0 /\ crashes = 0 /\ pc = "down"
    BY Zenon DEF Init, WALInit
  <1>2. SyncEveryN * 0 \in Nat
    BY Rounds
  <1>3. Len(<<>>) = 0
    OBVIOUS
  <1> QED
    BY <1>1, <1>2, <1>3, WALAssumption DEF LossInv, ThisSession

\* A step that appends nothing and does not crash.
LEMMA LossKept ==
    ASSUME TypeInv, TypeInv', LossInv,
           \/ Len(frames') - Len(durable') =< 0
           \/ Len(frames') - Len(durable') = Len(frames) - Len(durable) /\ appends' = appends
              /\ pc # "down" /\ pc # "sync" /\ pc' # "down",
           appends' \in {0, appends}, crashes' = crashes
    PROVE  LossInv'
  <1> SUFFICES ASSUME SyncPolicy = "SyncBatch" PROVE LossInv'
    BY DEF LossInv
  <1>1. /\ SyncEveryN \in Nat \ {0} /\ SyncEveryN * crashes \in Nat
        /\ appends \in Nat /\ appends < SyncEveryN
        /\ Len(frames) - Len(durable) =< SyncEveryN * crashes + ThisSession
    BY Rounds, WALAssumption DEF LossInv, TypeInv, TypeOK, WALTypeOK, GhostTypeOK
  <1>2. Len(frames) \in Nat /\ Len(durable) \in Nat /\ Len(frames') \in Nat /\ Len(durable') \in Nat
    BY DEF TypeInv, TypeOK, WALTypeOK
  <1>3. CASE Len(frames') - Len(durable') =< 0
    BY <1>1, <1>2, <1>3 DEF LossInv, ThisSession
  <1>4. CASE /\ Len(frames') - Len(durable') = Len(frames) - Len(durable) /\ appends' = appends
             /\ pc # "down" /\ pc # "sync" /\ pc' # "down"
    BY <1>1, <1>2, <1>4 DEF LossInv, ThisSession
  <1> QED
    BY <1>3, <1>4

LEMMA LossOpen ==
    ASSUME TypeInv, TypeInv', LossInv, NEW ro \in BOOLEAN, Open(ro)
    PROVE  LossInv'
  <1>1. /\ frames' = frames /\ durable' = durable /\ appends' = 0 /\ crashes' = crashes
        /\ pc = "down" /\ pc' = "replay"
    BY DEF Open, RecoverLog, bounds
  <1>2. SyncEveryN \in Nat \ {0} /\ SyncEveryN * crashes \in Nat
    BY Rounds, WALAssumption DEF TypeInv, TypeOK, GhostTypeOK
  <1> QED
    BY <1>1, <1>2 DEF LossInv, ThisSession

\* One frame more, and one append more; the round is complete when it counts 0.
LEMMA LossBeginWrite ==
    ASSUME TypeInv, TypeInv', LossInv, NEW ops \in Seq(Op), ops # <<>>, BeginWrite(ops)
    PROVE  LossInv'
  <1> SUFFICES ASSUME SyncPolicy = "SyncBatch" PROVE LossInv'
    BY DEF LossInv
  <1>1. /\ SyncEveryN \in Nat \ {0} /\ SyncEveryN * crashes \in Nat
        /\ appends \in Nat /\ appends < SyncEveryN
        /\ Len(frames) - Len(durable) =< SyncEveryN * crashes + ThisSession
    BY Rounds, WALAssumption DEF LossInv, TypeInv, TypeOK, WALTypeOK, GhostTypeOK
  <1>2. /\ pc = "idle" /\ pc' = "sync" /\ durable' = durable /\ crashes' = crashes
        /\ appends' = (appends + 1) % SyncEveryN
        /\ frames' = frames \/ frames' = Append(frames, NewFrame(ops))
    BY DEF BeginWrite, CanWrite, AppendFrame, bounds
  <1>3. frames \in Seq(Frame) /\ durable \in Seq(Frame) /\ NewFrame(ops) \in Frame
    BY NewFrameType DEF TypeInv, TypeOK, WALTypeOK
  <1>4. Len(frames') =< Len(frames) + 1 /\ Len(frames') \in Nat /\ Len(frames) \in Nat
    BY <1>2, <1>3
  <1>5. Len(durable) \in Nat
    BY <1>3
  <1>6. appends' = IF appends + 1 = SyncEveryN THEN 0 ELSE appends + 1
    BY <1>1, <1>2
  <1> QED
    BY <1>1, <1>2, <1>4, <1>5, <1>6 DEF LossInv, ThisSession

\* The fsync of a round takes all of it off the count.
LEMMA LossFinishWrite ==
    ASSUME TypeInv, TypeInv', LossInv, FinishWrite
    PROVE  LossInv'
  <1> SUFFICES ASSUME SyncPolicy = "SyncBatch" PROVE LossInv'
    BY DEF LossInv
  <1>1. /\ frames' = frames /\ appends' = appends /\ crashes' = crashes
        /\ pc = "sync" /\ pc' \in {"idle", "flushAlloc"}
        /\ IF appends = 0 THEN durable' = frames ELSE durable' = durable
    BY DEF FinishWrite, SyncDue, Fsync, bounds
  <1>2. /\ SyncEveryN \in Nat \ {0} /\ SyncEveryN * crashes \in Nat /\ appends \in Nat
        /\ Len(frames) \in Nat
    BY Rounds, WALAssumption DEF TypeInv, TypeOK, WALTypeOK, GhostTypeOK
  <1> QED
    BY <1>1, <1>2 DEF LossInv, ThisSession

\* The next process counts from zero: what this one counted is added once.
LEMMA LossCrash ==
    ASSUME TypeInv, TypeInv', LossInv, Kill \/ PowerLoss
    PROVE  LossInv'
  <1> SUFFICES ASSUME SyncPolicy = "SyncBatch" PROVE LossInv'
    BY DEF LossInv
  <1>1. /\ SyncEveryN \in Nat \ {0} /\ SyncEveryN * crashes \in Nat
        /\ SyncEveryN * (crashes + 1) = SyncEveryN * crashes + SyncEveryN
        /\ appends \in Nat /\ appends < SyncEveryN
        /\ Len(frames) - Len(durable) =< SyncEveryN * crashes + ThisSession
    BY Rounds, WALAssumption DEF LossInv, TypeInv, TypeOK, WALTypeOK, GhostTypeOK
  <1>2. crashes' = crashes + 1 /\ appends' = appends /\ pc' = "down"
    BY DEF Kill, PowerLoss, LosePower, Forget, walVars
  <1>3. /\ Len(frames) \in Nat /\ Len(durable) \in Nat
        /\ Len(frames') \in Nat /\ Len(durable') \in Nat
    BY DEF TypeInv, TypeOK, WALTypeOK
  <1>4. CASE Kill
    <2>1. frames' = frames /\ durable' = durable
      BY <1>4 DEF Kill, walVars
    <2>2. ThisSession' = 0 /\ appends' < SyncEveryN
      BY <1>1, <1>2 DEF ThisSession
    <2>3. ThisSession =< SyncEveryN /\ Len(frames') - Len(durable') =< SyncEveryN * crashes'
      <3>1. ThisSession =< SyncEveryN /\ ThisSession \in Nat
        BY <1>1 DEF ThisSession
      <3>2. Len(frames') - Len(durable') =< SyncEveryN * crashes + ThisSession
        BY <1>1, <2>1
      <3>3. SyncEveryN * crashes' = SyncEveryN * crashes + SyncEveryN
        BY <1>1, <1>2
      <3> DEFINE p == SyncEveryN * crashes
      <3>4. p \in Nat
        BY <1>1
      <3> HIDE DEF p
      <3> QED
        BY <1>1, <1>3, <3>1, <3>2, <3>3, <3>4
    <2> QED
      BY <1>1, <1>2, <2>1, <2>2, <2>3 DEF LossInv
  <1>5. CASE PowerLoss
    <2>1. Len(frames') - Len(durable') = 0
      BY <1>3, <1>5 DEF PowerLoss, LosePower
    <2>2. SyncEveryN * crashes' \in Nat
      BY <1>1, <1>2
    <2>3. ThisSession' = 0 /\ appends' < SyncEveryN
      BY <1>1, <1>2 DEF ThisSession
    <2> QED
      BY <2>1, <2>2, <2>3 DEF LossInv
  <1> QED
    BY <1>4, <1>5

LEMMA LossNext ==
    ASSUME "walSync" \notin Faults, TypeInv, TypeInv', LossInv, [Next]_vars
    PROVE  LossInv'
  <1>1. CASE \E ro \in BOOLEAN : Open(ro)
    BY <1>1, LossOpen
  <1>2. CASE \/ \E k \in Keys, v \in Vals : Put(k, v)
             \/ \E k \in Keys : Delete(k)
             \/ \E b \in Batches : WriteBatch(b) \/ WriteFails(b)
             \/ \E k \in Keys, v \in Contents : WriteFails(<<[key |-> k, val |-> v]>>)
    <2>1. PICK ops \in Seq(Op) : ops # <<>> /\ (BeginWrite(ops) \/ WriteFails(ops))
      BY <1>2, AppendsAreOps
    <2>2. CASE WriteFails(ops)
      BY <2>2, LossKept DEF WriteFails, CanWrite, AppendNothing, AppendTorn, dbVars
    <2> QED
      BY <2>1, <2>2, LossBeginWrite
  <1>3. CASE FinishWrite
    BY <1>3, LossFinishWrite
  <1>4. CASE Kill \/ PowerLoss
    BY <1>4, LossCrash
  <1>5. CASE OpenFails \/ Sync \/ FinishClose
    <2>1. durable' = frames /\ frames' = frames /\ appends' \in {0, appends} /\ crashes' = crashes
      BY <1>5 DEF OpenFails, RecoverLog, Sync, FinishClose, Fsync, Fault, bounds
    <2>2. Len(frames') \in Nat /\ Len(durable') \in Nat
      BY DEF TypeInv, TypeOK, WALTypeOK
    <2> QED
      BY <2>1, <2>2, LossKept
  <1>6. CASE FlushReset
    <2>1. \/ frames' = <<>> /\ appends' = 0
          \/ UNCHANGED walVars
      BY <1>6 DEF FlushReset, ResetLog, ResetLogUnsynced
    <2>2. pc \notin {"down", "sync"} /\ pc' # "down" /\ crashes' = crashes
      BY <1>6 DEF FlushReset, FlushFails
    <2>3. Len(durable') \in Nat /\ Len(<<>>) = 0
      BY DEF TypeInv, TypeOK, WALTypeOK
    <2> QED
      BY <2>1, <2>2, <2>3, LossKept DEF walVars
  <1>7. CASE \/ ReplayFrame \/ ReplayDone \/ ReplayCancelled
             \/ Flush \/ FlushAlloc \/ FlushCreate \/ FlushFinish \/ FlushAdd \/ FlushOpen
             \/ Close
    <2>1. UNCHANGED walVars /\ crashes' = crashes
      BY <1>7 DEF ReplayFrame, ReplayDone, ReplayCancelled, Flush, FlushAlloc, FlushCreate,
         FlushFinish, FlushAdd, FlushOpen, Close, bounds
    <2>2. pc \notin {"down", "sync"} /\ pc' # "down"
      BY <1>7 DEF ReplayFrame, ReplayDone, ReplayCancelled, StartClose, Flush, FlushAlloc,
         FlushCreate, FlushFinish, FlushAdd, FlushOpen, FlushFails, Close
    <2> QED
      BY <2>1, <2>2, LossKept DEF walVars
  <1>8. CASE \/ Compact \/ MergeAlloc \/ MergeCreate \/ MergeFinish \/ MergeOpen
             \/ MergeReplace \/ MergeRemove
    <2>1. UNCHANGED walVars /\ crashes' = crashes
      BY <1>8 DEF Compact, MergeAlloc, MergeCreate, MergeFinish, MergeOpen, MergeReplace,
         MergeRemove, bounds
    <2>2. pc \notin {"down", "sync"} /\ pc' # "down"
      BY <1>8 DEF Compact, MergeAlloc, MergeCreate, MergeFinish, MergeOpen, MergeReplace,
         MergeRemove, MergeFails
    <2> QED
      BY <2>1, <2>2, LossKept DEF walVars
  <1>9. CASE SyncFails
    BY <1>9 DEF SyncFails, Fault
  <1>10. CASE UNCHANGED vars
    BY <1>10 DEF vars, walVars, dbVars, bounds, LossInv, ThisSession
  <1> QED
    BY <1>1, <1>2, <1>3, <1>4, <1>5, <1>6, <1>7, <1>8, <1>9, <1>10
       DEF Next, StartOp, Continue, Crash

\* If no fsync of an append fails, a power failure under SyncBatch takes fewer than
\* SyncEveryN writes for each process since the log was last on the disk, whatever
\* else fails and through every flush, Reset and recovery.
THEOREM LossIsBounded ==
    ASSUME "walSync" \notin Faults
    PROVE  Spec => []LossBound
  <1>1. Init => TypeInv /\ LossInv
    BY TypeInit, LossInit
  <1>2. TypeInv /\ LossInv /\ [Next]_vars => (TypeInv /\ LossInv)'
    BY TypeNext, LossNext
  <1>3. TypeInv /\ LossInv => LossBound
    <2> SUFFICES ASSUME TypeInv, LossInv, SyncPolicy = "SyncBatch", pc = "idle"
                 PROVE  Len(frames) - Len(durable) < SyncEveryN * (1 + crashes)
      BY DEF LossBound
    <2>1. /\ SyncEveryN \in Nat \ {0} /\ SyncEveryN * crashes \in Nat
          /\ SyncEveryN * (crashes + 1) = SyncEveryN * crashes + SyncEveryN
          /\ crashes \in Nat /\ appends \in Nat
          /\ Len(frames) \in Nat /\ Len(durable) \in Nat
      BY Rounds, WALAssumption DEF TypeInv, TypeOK, WALTypeOK, GhostTypeOK
    <2>2. 1 + crashes = crashes + 1
      BY <2>1
    <2> QED
      BY <2>1, <2>2 DEF LossInv, ThisSession
  <1> QED
    BY <1>1, <1>2, <1>3, PTL DEF Spec

-----------------------------------------------------------------------------
(* File numbers.  Whatever is in the directory was allocated by a state that *)
(* is on the disk, so that a session started after a crash cannot take its   *)
(* number again; and while a table is being written everything the manifest  *)
(* or the session names is older.                                            *)

Merging  == {"mergeAlloc", "mergeCreate", "mergeFinish", "mergeOpen", "mergeReplace",
             "mergeRemove"}
Numbered == {"flushCreate", "flushFinish", "flushAdd",
             "mergeCreate", "mergeFinish", "mergeOpen", "mergeReplace"}
Written  == {"flushAdd", "flushOpen", "mergeOpen", "mergeReplace", "mergeRemove"}
Plain    == {"down", "replay", "idle", "sync", "flushAlloc", "flushReset", "closing"}

NumbersInv ==
    /\ \A n \in DOMAIN files : n < mfDisk.nextFile
    /\ mfDisk.nextFile =< mf.nextFile
    /\ \A n \in FileNos(mfDisk) : n < mfDisk.nextFile
    /\ \A n \in FileNos(mf) \cup tables : n < mf.nextFile
    /\ inputs \subseteq tables
    /\ pc \notin Merging => inputs = {}

NewTableInv ==
    /\ pc \in Numbered => mf = mfDisk /\ \A n \in FileNos(mf) \cup tables : n < LastAllocated
    /\ pc \in {"flushCreate", "mergeCreate"} => LastAllocated \notin DOMAIN files
    /\ pc \in {"flushFinish", "mergeFinish"} => ~files[LastAllocated].complete
    /\ pc \in Written => Readable(LastAllocated)
    /\ pc = "mergeRemove" => /\ mf = mfDisk
                             /\ inputs \cap FileNos(mf) = {}
                             /\ LastAllocated \notin inputs

FilesInv == NumbersInv /\ NewTableInv

\* Everything named is there.
NamedInv == \A n \in FileNos(mf) \cup FileNos(mfDisk) \cup tables : Readable(n)

\* What the manifest m notes of its tables covers the numbers they hold in fs.
Describes(m, fs) ==
    \A f \in m.files :
        /\ f.maxSeq =< m.logSeq
        /\ f.no \in DOMAIN fs => \A k \in Keys : fs[f.no].data[k].seq =< f.maxSeq

FlushedInv == pc = "flushAdd" => files[LastAllocated].data = mem
MetaInv    == Describes(mf, files) /\ Describes(mfDisk, files) /\ FlushedInv

\* The step that FilesImmutable allows.
FilesKept ==
    \A n \in DOMAIN files :
        files[n].complete =>
            IF n \in DOMAIN files' THEN files'[n] = files[n] ELSE n \notin FileNos(mfDisk)

\* What each step is shown to do.
Preserved ==
    /\ FilesInv'
    /\ FilesKept
    /\ "addFile" \notin Faults /\ NamedInv => NamedInv'
    /\ MetaInv => MetaInv'

-----------------------------------------------------------------------------
(* The operations on the manifest and on the directory.                      *)

LEMMA FileNosType ==
    ASSUME NEW m \in MfState
    PROVE  FileNos(m) \subseteq Nat /\ m.nextFile \in Nat \ {0}
  BY DEF FileNos, MfState, FileMeta

LEMMA FileNosOps ==
    ASSUME NEW m \in MfState, NEW meta \in FileMeta, NEW removed
    PROVE  /\ FileNos(Alloc(m)) = FileNos(m)
           /\ FileNos(AddFile(m, meta)) = FileNos(m) \cup {meta.no}
           /\ FileNos(Replace(m, removed, meta)) = (FileNos(m) \ removed) \cup {meta.no}
  <1>1. Alloc(m).files = m.files
    BY DEF Alloc, MfState
  <1>2. AddFile(m, meta).files = m.files \cup {meta}
    BY DEF AddFile, MfState
  <1>3. Replace(m, removed, meta).files = {f \in m.files : f.no \notin removed} \cup {meta}
    BY DEF Replace, MfState
  <1>4. FileNos(Alloc(m)) = FileNos(m)
    BY <1>1 DEF FileNos
  <1>5. FileNos(AddFile(m, meta)) = FileNos(m) \cup {meta.no}
    BY <1>2 DEF FileNos
  <1>6. FileNos(Replace(m, removed, meta)) = (FileNos(m) \ removed) \cup {meta.no}
    BY <1>3 DEF FileNos
  <1> QED
    BY <1>4, <1>5, <1>6

LEMMA WriteToEffect ==
    ASSUME NEW n, NEW c, NEW t, WriteTo(n, c, t)
    PROVE  /\ DOMAIN files' = DOMAIN files \cup {n}
           /\ files'[n].complete = c
           /\ \A m \in DOMAIN files \ {n} : files'[m] = files[m]
  BY DEF WriteTo

LEMMA RemoveFilesEffect ==
    ASSUME NEW ns, RemoveFiles(ns)
    PROVE  /\ DOMAIN files' = DOMAIN files \ ns
           /\ \A m \in DOMAIN files' : files'[m] = files[m]
  BY DEF RemoveFiles

LEMMA MfTypes ==
    ASSUME TypeInv
    PROVE  /\ mf \in MfState /\ mfDisk \in MfState
           /\ mf.nextFile \in Nat \ {0} /\ mfDisk.nextFile \in Nat \ {0}
           /\ FileNos(mf) \subseteq Nat /\ FileNos(mfDisk) \subseteq Nat
           /\ tables \subseteq Nat /\ DOMAIN files \subseteq Nat
           /\ LastAllocated = mf.nextFile - 1 /\ LastAllocated \in Nat
  BY FileNosType, LastAllocatedType
     DEF TypeInv, TypeOK, ManifestTypeOK, SessionTypeOK, FilesTypeOK, LastAllocated

LEMMA DescribesFewer ==
    ASSUME NEW m, NEW fs, NEW gs, Describes(m, fs),
           \A n \in FileNos(m) : n \in DOMAIN gs => n \in DOMAIN fs /\ gs[n] = fs[n]
    PROVE  Describes(m, gs)
  <1>1. \A f \in m.files : f.no \in FileNos(m)
    BY DEF FileNos
  <1> QED
    BY <1>1 DEF Describes

LEMMA DescribesMore ==
    ASSUME NEW m \in MfState, NEW meta \in FileMeta, NEW fs, NEW m2, Describes(m, fs),
           m2.files \subseteq m.files \cup {meta}, m2.logSeq = Larger(m.logSeq, meta.maxSeq),
           meta.no \in DOMAIN fs => \A k \in Keys : fs[meta.no].data[k].seq =< meta.maxSeq
    PROVE  Describes(m2, fs)
  <1>1. m.logSeq \in Nat /\ meta.maxSeq \in Nat /\ \A f \in m.files : f.maxSeq \in Nat
    BY DEF MfState, FileMeta
  <1>2. m2.logSeq \in Nat /\ m.logSeq =< m2.logSeq /\ meta.maxSeq =< m2.logSeq
    BY <1>1, LargerType
  <1>3. ASSUME NEW f \in m2.files PROVE f.maxSeq =< m2.logSeq
    BY <1>1, <1>2 DEF Describes
  <1>4. ASSUME NEW f \in m2.files, f.no \in DOMAIN fs
        PROVE  \A k \in Keys : fs[f.no].data[k].seq =< f.maxSeq
    BY <1>4 DEF Describes
  <1> QED
    BY <1>3, <1>4 DEF Describes

LEMMA ManifestFiles ==
    ASSUME NEW m \in MfState, NEW meta \in FileMeta, NEW removed
    PROVE  /\ Alloc(m).files = m.files /\ Alloc(m).logSeq = m.logSeq
           /\ AddFile(m, meta).files \subseteq m.files \cup {meta}
           /\ AddFile(m, meta).logSeq = Larger(m.logSeq, meta.maxSeq)
           /\ Replace(m, removed, meta).files \subseteq m.files \cup {meta}
           /\ Replace(m, removed, meta).logSeq = Larger(m.logSeq, meta.maxSeq)
  BY DEF Alloc, AddFile, Replace, MfState

-----------------------------------------------------------------------------
(* Steps that leave tables and manifest alone.                               *)

LEMMA FilesInit == Init => FilesInv /\ NamedInv /\ MetaInv
  <1> SUFFICES ASSUME Init PROVE FilesInv /\ NamedInv /\ MetaInv
    OBVIOUS
  <1>1. DOMAIN files = {} /\ pc = "down" /\ tables = {} /\ inputs = {}
    BY DEF Init
  <1>2. mf = NewManifest /\ mfDisk = NewManifest /\ FileNos(NewManifest) = {}
    BY DEF Init, ManifestInit, NewManifest, FileNos
  <1>3. NewManifest.nextFile = 1 /\ NewManifest.files = {}
    BY DEF NewManifest
  <1>4. MetaInv
    BY <1>1, <1>2, <1>3 DEF MetaInv, Describes, FlushedInv
  <1> QED
    BY <1>1, <1>2, <1>3, <1>4
       DEF FilesInv, NumbersInv, NewTableInv, NamedInv, Numbered, Written, Merging

LEMMA PlainStep ==
    ASSUME FilesInv, UNCHANGED <<files, mfVars, tables, inputs>>,
           pc \notin Merging, pc' \in Plain
    PROVE  Preserved
  <1>1. FilesInv'
    BY DEF FilesInv, NumbersInv, NewTableInv, Merging, Plain, Numbered, Written, mfVars,
       FileNos, LastAllocated, Readable
  <1>2. FilesKept
    BY DEF FilesKept
  <1>3. NamedInv => NamedInv'
    BY DEF NamedInv, Readable, mfVars, FileNos
  <1>4. MetaInv => MetaInv'
    BY DEF MetaInv, Describes, FlushedInv, mfVars, Plain
  <1> QED
    BY <1>1, <1>2, <1>3, <1>4 DEF Preserved

LEMMA ForgetStep ==
    ASSUME TypeInv, FilesInv, Forget, UNCHANGED <<files, mfDisk>>
    PROVE  Preserved
  <1>1. pc' = "down" /\ tables' = {} /\ inputs' = {} /\ mf' = mfDisk
    BY DEF Forget
  <1>2. FilesInv'
    BY <1>1, MfTypes DEF FilesInv, NumbersInv, NewTableInv, Merging, Numbered, Written, FileNos
  <1>3. FilesKept
    BY DEF FilesKept
  <1>4. NamedInv => NamedInv'
    BY <1>1 DEF NamedInv, Readable, FileNos
  <1>5. MetaInv => MetaInv'
    BY <1>1 DEF MetaInv, Describes, FlushedInv
  <1> QED
    BY <1>2, <1>3, <1>4, <1>5 DEF Preserved

LEMMA OpenStep ==
    ASSUME TypeInv, FilesInv, NEW ro \in BOOLEAN, Open(ro)
    PROVE  Preserved
  <1>1. /\ pc = "down" /\ pc' = "replay" /\ tables' = FileNos(mfDisk) /\ mf' = mfDisk
        /\ UNCHANGED <<files, mfDisk, inputs>>
        /\ \A n \in FileNos(mfDisk) : Readable(n)
    BY DEF Open
  <1>2. inputs = {}
    BY <1>1 DEF FilesInv, NumbersInv, Merging
  <1>3. FilesInv'
    BY <1>1, <1>2, MfTypes DEF FilesInv, NumbersInv, NewTableInv, Numbered, Written, FileNos
  <1>4. FilesKept
    BY <1>1 DEF FilesKept
  <1>5. NamedInv'
    BY <1>1 DEF NamedInv, Readable, FileNos
  <1>6. MetaInv => MetaInv'
    BY <1>1 DEF MetaInv, Describes, FlushedInv
  <1> QED
    BY <1>3, <1>4, <1>5, <1>6 DEF Preserved

LEMMA QuietStep ==
    ASSUME TypeInv, FilesInv,
           \/ \E ro \in BOOLEAN : Open(ro)
           \/ \E ops \in Seq(Op) : BeginWrite(ops) \/ WriteFails(ops)
           \/ OpenFails \/ ReplayFrame \/ ReplayDone \/ ReplayCancelled
           \/ Sync \/ FinishWrite \/ SyncFails \/ Flush \/ FlushReset
           \/ Close \/ FinishClose \/ Kill \/ PowerLoss
    PROVE  Preserved
  <1>1. CASE FinishClose \/ Kill \/ PowerLoss
    BY <1>1, ForgetStep DEF FinishClose, Kill, PowerLoss
  <1>2. CASE OpenFails \/ ReplayFrame \/ ReplayDone \/ ReplayCancelled
    BY <1>2, PlainStep DEF OpenFails, ReplayFrame, ReplayDone, ReplayCancelled, StartClose,
       dbVars, volatile, Merging, Plain
  <1>3. CASE Sync \/ FinishWrite \/ SyncFails
    BY <1>3, PlainStep DEF Sync, FinishWrite, SyncFails, dbVars, volatile, Merging, Plain
  <1>4. CASE Flush \/ FlushReset \/ Close
    BY <1>4, PlainStep DEF Flush, FlushReset, FlushFails, Close, StartClose, volatile, Merging, Plain
  <1>5. CASE \E ops \in Seq(Op) : BeginWrite(ops) \/ WriteFails(ops)
    BY <1>5, PlainStep DEF BeginWrite, WriteFails, CanWrite, dbVars, volatile, Merging, Plain
  <1> QED
    BY <1>1, <1>2, <1>3, <1>4, <1>5, OpenStep

-----------------------------------------------------------------------------
(* Allocating a number, and creating the file of that number.                *)

LEMMA AllocStep ==
    ASSUME TypeInv, FilesInv, FlushAlloc \/ MergeAlloc
    PROVE  Preserved
  <1>1. UNCHANGED <<files, tables>>
    BY DEF FlushAlloc, MergeAlloc
  <1>2. inputs' \subseteq tables
    BY DEF FlushAlloc, MergeAlloc, MergeFails, FilesInv, NumbersInv
  <1>3. /\ FileNos(Alloc(mf)) = FileNos(mf)
        /\ Alloc(mf).nextFile = mf.nextFile + 1
        /\ Alloc(mf).files = mf.files /\ Alloc(mf).logSeq = mf.logSeq
    <2>1. [no |-> 0, level |-> 0, maxSeq |-> 0] \in FileMeta
      BY DEF FileMeta
    <2> QED
      BY <2>1, MfTypes, FileNosOps, ManifestOps, ManifestFiles
  <1>4. mf' = Alloc(mf) /\ (mfDisk' = mf' \/ mfDisk' = mfDisk)
    BY DEF FlushAlloc, MergeAlloc, Update, UpdateUnsaved
  <1>5. FileNos(mf') = FileNos(mf) /\ mf'.nextFile = mf.nextFile + 1
    BY <1>3, <1>4
  <1>6. LastAllocated' = mf.nextFile
    BY <1>5, MfTypes DEF LastAllocated
  <1>7. FileNos(mfDisk') \subseteq FileNos(mf) \cup FileNos(mfDisk)
    BY <1>4, <1>5
  <1>8. \/ mfDisk' = mf' /\ pc' \in {"flushCreate", "mergeCreate"}
        \/ pc' \in {"idle", "closing"} /\ mfDisk' = mfDisk
    BY DEF FlushAlloc, MergeAlloc, Update, UpdateUnsaved, FlushFails, MergeFails
  <1>9. mfDisk.nextFile =< mfDisk'.nextFile /\ mfDisk'.nextFile =< mf'.nextFile
    BY <1>4, <1>5, MfTypes DEF FilesInv, NumbersInv
  <1>10. \A n \in FileNos(mf) \cup FileNos(mfDisk) \cup tables \cup DOMAIN files :
            n \in Nat /\ n < mf.nextFile
    BY MfTypes DEF FilesInv, NumbersInv
  <1>11. NumbersInv'
    <2>1. \A n \in DOMAIN files' : n < mfDisk'.nextFile
      BY <1>1, <1>4, <1>5, <1>10, MfTypes DEF FilesInv, NumbersInv
    <2>2. \A n \in FileNos(mfDisk') : n < mfDisk'.nextFile
      BY <1>4, <1>5, <1>10, MfTypes DEF FilesInv, NumbersInv
    <2>3. \A n \in FileNos(mf') \cup tables' : n < mf'.nextFile
      BY <1>1, <1>5, <1>10, MfTypes
    <2>4. pc' \notin Merging => inputs' = {}
      BY DEF FlushAlloc, MergeAlloc, FlushFails, MergeFails, FilesInv, NumbersInv, Merging
    <2> QED
      BY <1>1, <1>2, <1>9, <2>1, <2>2, <2>3, <2>4 DEF NumbersInv, FileNos
  <1>12. NewTableInv'
    <2>1. \A n \in FileNos(mf') \cup tables' : n < LastAllocated'
      BY <1>1, <1>5, <1>6, <1>10
    <2>2. LastAllocated' \notin DOMAIN files'
      BY <1>1, <1>6, <1>10, MfTypes
    <2>3. pc' \notin {"flushFinish", "mergeFinish", "mergeRemove"} /\ pc' \notin Written
      BY <1>8 DEF Written
    <2>4. pc' \in Numbered => mf' = mfDisk'
      BY <1>8 DEF Numbered
    <2> QED
      BY <2>1, <2>2, <2>3, <2>4 DEF NewTableInv, FileNos, LastAllocated
  <1>13. FilesKept
    BY <1>1 DEF FilesKept
  <1>14. NamedInv => NamedInv'
    BY <1>1, <1>5, <1>7 DEF NamedInv, Readable, FileNos
  <1>15. MetaInv => MetaInv'
    <2>1. pc' # "flushAdd"
      BY <1>8
    <2>2. mf'.files = mf.files /\ mf'.logSeq = mf.logSeq
      BY <1>3, <1>4
    <2> QED
      BY <1>1, <1>4, <2>1, <2>2 DEF MetaInv, Describes, FlushedInv
  <1> QED
    BY <1>11, <1>12, <1>13, <1>14, <1>15 DEF Preserved, FilesInv

\* While a table is written only its own file changes, and nothing names it.
LEMMA WriteStep ==
    ASSUME TypeInv, FilesInv, pc \in Numbered, UNCHANGED <<mfVars, tables>>,
           \A n \in DOMAIN files \ {LastAllocated} : n \in DOMAIN files' /\ files'[n] = files[n],
           DOMAIN files' \subseteq DOMAIN files \cup {LastAllocated},
           LastAllocated \in DOMAIN files => ~files[LastAllocated].complete,
           inputs' = inputs \/ inputs' = {}, pc' \notin Merging => inputs' = {},
           NewTableInv', FlushedInv'
    PROVE  Preserved
  <1>1. /\ mf = mfDisk /\ mf' = mf /\ mfDisk' = mfDisk
        /\ \A n \in FileNos(mf) \cup tables : n < LastAllocated
    BY DEF FilesInv, NewTableInv, mfVars
  <1>2. LastAllocated < mfDisk.nextFile /\ LastAllocated \in Nat
    BY <1>1, MfTypes
  <1>3. NumbersInv'
    <2>1. \A n \in DOMAIN files' : n < mfDisk'.nextFile
      BY <1>1, <1>2 DEF FilesInv, NumbersInv
    <2>2. inputs' \subseteq tables'
      BY DEF FilesInv, NumbersInv
    <2> QED
      BY <1>1, <2>1, <2>2 DEF FilesInv, NumbersInv, FileNos
  <1>4. FilesKept
    <2>1. ASSUME NEW n \in DOMAIN files, files[n].complete
          PROVE  n \in DOMAIN files' /\ files'[n] = files[n]
      BY <2>1
    <2> QED
      BY <2>1 DEF FilesKept
  <1>5. NamedInv => NamedInv'
    <2>1. ASSUME NEW n \in FileNos(mf) \cup FileNos(mfDisk) \cup tables, Readable(n)
          PROVE  n \in DOMAIN files' /\ files'[n].complete
      <3>1. n # LastAllocated
        BY <1>1, <1>2, MfTypes
      <3> QED
        BY <2>1, <3>1 DEF Readable
    <2> QED
      BY <1>1, <2>1 DEF NamedInv, Readable, FileNos
  <1>6. MetaInv => MetaInv'
    <2>1. \A n \in FileNos(mf) : n \in DOMAIN files' => n \in DOMAIN files /\ files'[n] = files[n]
      BY <1>1, <1>2, MfTypes
    <2>2. Describes(mf, files) => Describes(mf, files')
      BY <2>1, DescribesFewer
    <2> QED
      BY <1>1, <2>2 DEF MetaInv
  <1> QED
    BY <1>3, <1>4, <1>5, <1>6 DEF Preserved, FilesInv

LEMMA CreateStep ==
    ASSUME TypeInv, FilesInv, FlushCreate \/ MergeCreate
    PROVE  Preserved
  <1>1. /\ pc \in {"flushCreate", "mergeCreate"}
        /\ UNCHANGED <<mfVars, tables>>
        /\ mf = mfDisk /\ \A n \in FileNos(mf) \cup tables : n < LastAllocated
        /\ LastAllocated \notin DOMAIN files
    BY DEF FlushCreate, MergeCreate, volatile, FilesInv, NewTableInv, Numbered
  <1>2. CASE MergeCreate /\ MergeFails /\ UNCHANGED files
    <2>1. pc' = "idle" /\ inputs' = {}
      BY <1>2 DEF MergeFails
    <2>2. NewTableInv'
      BY <2>1 DEF NewTableInv, Numbered, Written
    <2>3. FlushedInv'
      BY <2>1 DEF FlushedInv
    <2> QED
      BY <1>1, <1>2, <2>1, <2>2, <2>3, WriteStep DEF Numbered
  <1>3. CASE WriteTo(LastAllocated, FALSE, EmptyTable)
             /\ pc' \in {"flushFinish", "mergeFinish"} /\ UNCHANGED inputs
    <2>1. /\ DOMAIN files' = DOMAIN files \cup {LastAllocated}
          /\ files'[LastAllocated].complete = FALSE
          /\ \A m \in DOMAIN files \ {LastAllocated} : files'[m] = files[m]
      BY <1>3, WriteToEffect
    <2>2. LastAllocated' = LastAllocated
      BY <1>1 DEF LastAllocated, mfVars
    <2>3. NewTableInv'
      BY <1>1, <1>3, <2>1, <2>2 DEF NewTableInv, Written, mfVars, FileNos
    <2>4. pc' \notin Merging => inputs' = {}
      BY <1>3 DEF FlushCreate, MergeCreate, MergeFails, FilesInv, NumbersInv, Merging
    <2>5. /\ \A n \in DOMAIN files \ {LastAllocated} : n \in DOMAIN files' /\ files'[n] = files[n]
          /\ DOMAIN files' \subseteq DOMAIN files \cup {LastAllocated}
      BY <2>1
    <2>6. pc \in Numbered
      BY <1>1 DEF Numbered
    <2>7. FlushedInv'
      BY <1>3 DEF FlushedInv
    <2> QED
      BY <1>1, <1>3, <2>3, <2>4, <2>5, <2>6, <2>7, WriteStep
  <1>4. \/ MergeCreate /\ MergeFails /\ UNCHANGED files
        \/ /\ WriteTo(LastAllocated, FALSE, EmptyTable)
           /\ pc' \in {"flushFinish", "mergeFinish"} /\ UNCHANGED inputs
    BY DEF FlushCreate, MergeCreate, volatile
  <1> QED
    BY <1>2, <1>3, <1>4

LEMMA FinishStep ==
    ASSUME TypeInv, FilesInv, FlushFinish \/ MergeFinish
    PROVE  Preserved
  <1>1. /\ pc \in {"flushFinish", "mergeFinish"}
        /\ UNCHANGED <<mfVars, tables>>
        /\ mf = mfDisk /\ \A n \in FileNos(mf) \cup tables : n < LastAllocated
        /\ ~files[LastAllocated].complete
    BY DEF FlushFinish, MergeFinish, FilesInv, NewTableInv, Numbered
  <1>2. LastAllocated' = LastAllocated
    BY <1>1 DEF LastAllocated, mfVars
  <1>3. CASE /\ \E t : WriteTo(LastAllocated, TRUE, t) /\ (pc' = "flushAdd" => t = mem')
             /\ pc' \in {"flushAdd", "mergeOpen"} /\ UNCHANGED inputs
    <2>1. /\ DOMAIN files' = DOMAIN files \cup {LastAllocated}
          /\ files'[LastAllocated].complete = TRUE
          /\ \A m \in DOMAIN files \ {LastAllocated} : files'[m] = files[m]
      BY <1>3, WriteToEffect
    <2>2. NewTableInv'
      BY <1>1, <1>2, <1>3, <2>1 DEF NewTableInv, Readable, mfVars, FileNos
    <2>3. pc' \notin Merging => inputs' = {}
      BY <1>3 DEF FlushFinish, MergeFinish, FlushFails, MergeFails, FilesInv, NumbersInv, Merging
    <2>4. /\ \A n \in DOMAIN files \ {LastAllocated} : n \in DOMAIN files' /\ files'[n] = files[n]
          /\ DOMAIN files' \subseteq DOMAIN files \cup {LastAllocated}
      BY <2>1
    <2>5. pc \in Numbered
      BY <1>1 DEF Numbered
    <2>6. FlushedInv'
      <3>1. PICK t : WriteTo(LastAllocated, TRUE, t) /\ (pc' = "flushAdd" => t = mem')
        BY <1>3
      <3>2. files'[LastAllocated].data = t
        BY <3>1 DEF WriteTo
      <3> QED
        BY <1>2, <3>1, <3>2 DEF FlushedInv
    <2> QED
      BY <1>1, <1>3, <2>2, <2>3, <2>4, <2>5, <2>6, WriteStep
  <1>4. CASE (UNCHANGED files \/ RemoveFiles({LastAllocated})) /\ pc' \in {"idle", "closing"}
             /\ (inputs' = inputs \/ inputs' = {}) /\ (pc' \notin Merging => inputs' = {})
    <2>1. NewTableInv'
      BY <1>4 DEF NewTableInv, Numbered, Written
    <2>2. /\ \A n \in DOMAIN files \ {LastAllocated} : n \in DOMAIN files' /\ files'[n] = files[n]
          /\ DOMAIN files' \subseteq DOMAIN files \cup {LastAllocated}
      BY <1>4, RemoveFilesEffect
    <2>3. FlushedInv'
      BY <1>4 DEF FlushedInv
    <2> QED
      BY <1>1, <1>4, <2>1, <2>2, <2>3, WriteStep DEF Numbered
  <1>5. \/ /\ \E t : WriteTo(LastAllocated, TRUE, t) /\ (pc' = "flushAdd" => t = mem')
           /\ pc' \in {"flushAdd", "mergeOpen"} /\ UNCHANGED inputs
        \/ (UNCHANGED files \/ RemoveFiles({LastAllocated})) /\ pc' \in {"idle", "closing"}
           /\ (inputs' = inputs \/ inputs' = {}) /\ (pc' \notin Merging => inputs' = {})
    <2>1. CASE FlushFinish
      BY <2>1 DEF FlushFinish, FlushFails, FilesInv, NumbersInv, Merging
    <2>2. CASE MergeFinish
      BY <2>2 DEF MergeFinish, MergeFails
    <2> QED
      BY <2>1, <2>2
  <1> QED
    BY <1>3, <1>4, <1>5
-----------------------------------------------------------------------------
(* The manifest takes the table up, and the merged ones leave.               *)

LEMMA AddStep ==
    ASSUME TypeInv, FilesInv, FlushAdd
    PROVE  Preserved
  <1> DEFINE meta == MetaOf(LastAllocated, 0, mem)
             added == AddFile(mf, meta)
  <1>1. /\ pc = "flushAdd" /\ UNCHANGED <<tables, inputs>> /\ inputs = {}
        /\ mf = mfDisk /\ \A n \in FileNos(mf) \cup tables : n < LastAllocated
        /\ Readable(LastAllocated)
    BY DEF FlushAdd, FilesInv, NewTableInv, NumbersInv, Numbered, Written, Merging
  <1>2. meta \in FileMeta /\ meta.no = LastAllocated
    BY MfTypes, MetaOfType DEF TypeInv, TypeOK, SessionTypeOK, MetaOf
  <1>3. /\ FileNos(added) = FileNos(mf) \cup {LastAllocated}
        /\ added.nextFile = mf.nextFile
    BY <1>2, MfTypes, FileNosOps, ManifestOps
  <1>4. mf' = added
    BY DEF FlushAdd, Update, UpdateUnsaved
  <1>5. /\ mf'.nextFile = mf.nextFile /\ LastAllocated' = LastAllocated
        /\ FileNos(mf') = FileNos(mf) \cup {LastAllocated}
    BY <1>3, <1>4 DEF LastAllocated
  <1>6. LastAllocated < mf.nextFile
    BY MfTypes
  <1>10. MetaInv => Describes(added, files)
    <2>1. mem \in Table /\ meta.maxSeq = MaxSeqOf(mem)
      BY DEF TypeInv, TypeOK, SessionTypeOK, MetaOf
    <2>2. MetaInv => \A k \in Keys : files[LastAllocated].data[k].seq =< meta.maxSeq
      BY <1>1, <2>1, MaxSeqOfBound DEF MetaInv, FlushedInv
    <2>3. added.files \subseteq mf.files \cup {meta} /\ added.logSeq = Larger(mf.logSeq, meta.maxSeq)
      BY <1>2, MfTypes, ManifestFiles
    <2> QED
      BY <1>2, <2>2, <2>3, MfTypes, DescribesMore DEF MetaInv
  <1>7. CASE mfDisk' = added /\ pc' = "flushOpen" /\ UNCHANGED files
    <2>1. NumbersInv'
      BY <1>1, <1>4, <1>5, <1>6, <1>7, MfTypes DEF FilesInv, NumbersInv, FileNos
    <2>2. NewTableInv'
      BY <1>1, <1>5, <1>7 DEF NewTableInv, Numbered, Readable
    <2>3. FilesKept
      BY <1>7 DEF FilesKept
    <2>4. NamedInv => NamedInv'
      BY <1>1, <1>4, <1>5, <1>7 DEF NamedInv, Readable, FileNos
    <2>5. MetaInv => MetaInv'
      BY <1>4, <1>7, <1>10 DEF MetaInv, FlushedInv
    <2> QED
      BY <2>1, <2>2, <2>3, <2>4, <2>5 DEF Preserved, FilesInv
  <1>8. CASE /\ "addFile" \in Faults /\ mfDisk' = mfDisk /\ RemoveFiles({LastAllocated})
             /\ pc' \in {"idle", "closing"}
    <2>1. /\ DOMAIN files' = DOMAIN files \ {LastAllocated}
          /\ \A m \in DOMAIN files' : files'[m] = files[m]
      BY <1>8, RemoveFilesEffect
    <2>2. NumbersInv'
      BY <1>1, <1>5, <1>6, <1>8, <2>1, MfTypes DEF FilesInv, NumbersInv, FileNos
    <2>3. NewTableInv'
      BY <1>8 DEF NewTableInv, Numbered, Written
    <2>4. LastAllocated \notin FileNos(mfDisk)
      BY <1>1, MfTypes
    <2>5. FilesKept
      BY <2>1, <2>4 DEF FilesKept
    <2>6. MetaInv => MetaInv'
      <3>1. MetaInv => Describes(added, files') /\ Describes(mfDisk, files')
        BY <1>10, <2>1, DescribesFewer DEF MetaInv
      <3> QED
        BY <1>4, <1>8, <3>1 DEF MetaInv, FlushedInv
    <2> QED
      BY <1>8, <2>2, <2>3, <2>5, <2>6 DEF Preserved, FilesInv
  <1>9. \/ mfDisk' = added /\ pc' = "flushOpen" /\ UNCHANGED files
        \/ /\ "addFile" \in Faults /\ mfDisk' = mfDisk /\ RemoveFiles({LastAllocated})
           /\ pc' \in {"idle", "closing"}
    BY DEF FlushAdd, Update, UpdateUnsaved, Fault, FlushFails
  <1> QED
    BY <1>7, <1>8, <1>9

LEMMA FlushOpenStep ==
    ASSUME TypeInv, FilesInv, FlushOpen
    PROVE  Preserved
  <1>1. /\ pc = "flushOpen" /\ pc' \in {"flushReset", "idle", "closing"}
        /\ UNCHANGED <<files, mfVars, inputs>> /\ inputs = {}
        /\ Readable(LastAllocated)
        /\ tables' \subseteq tables \cup {LastAllocated}
    BY DEF FlushOpen, FlushFails, FilesInv, NewTableInv, NumbersInv, Written, Merging
  <1>2. NumbersInv'
    BY <1>1, MfTypes DEF FilesInv, NumbersInv, mfVars, FileNos
  <1>3. NewTableInv'
    BY <1>1 DEF NewTableInv, Numbered, Written
  <1>4. FilesKept
    BY <1>1 DEF FilesKept
  <1>5. NamedInv => NamedInv'
    BY <1>1 DEF NamedInv, Readable, mfVars, FileNos
  <1>6. MetaInv => MetaInv'
    BY <1>1 DEF MetaInv, FlushedInv, mfVars
  <1> QED
    BY <1>2, <1>3, <1>4, <1>5, <1>6 DEF Preserved, FilesInv

\* Starting a compaction, and closing the readers of its inputs.
LEMMA CompactStep ==
    ASSUME TypeInv, FilesInv, Compact \/ MergeOpen
    PROVE  Preserved
  <1>1. UNCHANGED <<files, mfVars, tables>>
    BY DEF Compact, MergeOpen
  <1>2. Planned \subseteq tables
    BY DEF Planned
  <1>3. inputs' \subseteq tables /\ (pc' \notin Merging => inputs' = {})
    BY <1>2 DEF Compact, MergeOpen, MergeFails, FilesInv, NumbersInv, Merging
  <1>4. NumbersInv'
    BY <1>1, <1>3 DEF FilesInv, NumbersInv, mfVars, FileNos
  <1>5. NewTableInv'
    <2>1. CASE pc' \in {"mergeAlloc", "idle"}
      BY <2>1 DEF NewTableInv, Numbered, Written
    <2>2. CASE pc = "mergeOpen" /\ pc' = "mergeReplace"
      BY <1>1, <2>2 DEF FilesInv, NewTableInv, Numbered, Written, mfVars, FileNos, LastAllocated,
         Readable
    <2> QED
      BY <2>1, <2>2 DEF Compact, MergeOpen, MergeFails
  <1>6. FilesKept
    BY <1>1 DEF FilesKept
  <1>7. NamedInv => NamedInv'
    BY <1>1 DEF NamedInv, Readable, mfVars, FileNos
  <1>8. MetaInv => MetaInv'
    BY <1>1 DEF Compact, MergeOpen, MergeFails, MetaInv, FlushedInv, mfVars
  <1> QED
    BY <1>4, <1>5, <1>6, <1>7, <1>8 DEF Preserved, FilesInv

LEMMA ReplaceStep ==
    ASSUME TypeInv, FilesInv, MergeReplace
    PROVE  Preserved
  <1> DEFINE meta == MetaOf(LastAllocated, 1, files[LastAllocated].data)
             replaced == Replace(mf, inputs, meta)
  <1>1. /\ pc = "mergeReplace" /\ UNCHANGED <<files, tables>>
        /\ mf = mfDisk /\ \A n \in FileNos(mf) \cup tables : n < LastAllocated
        /\ Readable(LastAllocated) /\ inputs \subseteq tables
    BY DEF MergeReplace, FilesInv, NewTableInv, NumbersInv, Numbered, Written
  <1>2. files[LastAllocated].data \in Table
    BY <1>1 DEF Readable, TypeInv, TypeOK, FilesTypeOK, SSTFile
  <1>3. meta \in FileMeta /\ meta.no = LastAllocated
    BY <1>2, MfTypes, MetaOfType DEF MetaOf
  <1>4. /\ FileNos(replaced) = (FileNos(mf) \ inputs) \cup {LastAllocated}
        /\ replaced.nextFile = mf.nextFile
    BY <1>3, MfTypes, FileNosOps, ManifestOps
  <1>5. /\ mf' = replaced
        /\ \/ mfDisk' = replaced /\ pc' = "mergeRemove" /\ UNCHANGED inputs
           \/ mfDisk' = mfDisk /\ pc' = "idle" /\ inputs' = {}
    BY DEF MergeReplace, Update, UpdateUnsaved, MergeFails
  <1>6. /\ mf'.nextFile = mf.nextFile /\ LastAllocated' = LastAllocated
        /\ FileNos(mf') = (FileNos(mf) \ inputs) \cup {LastAllocated}
    BY <1>4, <1>5 DEF LastAllocated
  <1>7. LastAllocated < mf.nextFile /\ LastAllocated \notin inputs
    BY <1>1, MfTypes
  <1>8. mfDisk'.nextFile = mfDisk.nextFile /\ FileNos(mfDisk') \subseteq FileNos(mf) \cup {LastAllocated}
    BY <1>1, <1>4, <1>5
  <1>9. NumbersInv'
    <2>1. \A n \in FileNos(mf') \cup FileNos(mfDisk') \cup tables' : n < mf'.nextFile
      BY <1>1, <1>6, <1>7, <1>8 DEF FilesInv, NumbersInv
    <2>2. \A n \in DOMAIN files' : n < mfDisk'.nextFile
      BY <1>1, <1>8 DEF FilesInv, NumbersInv
    <2>3. inputs' \subseteq tables' /\ (pc' \notin Merging => inputs' = {})
      BY <1>1, <1>5 DEF Merging
    <2>4. mfDisk'.nextFile = mf'.nextFile
      BY <1>1, <1>6, <1>8
    <2> QED
      BY <2>1, <2>2, <2>3, <2>4, <1>6, MfTypes DEF NumbersInv, FileNos
  <1>10. NewTableInv'
    <2>1. CASE mfDisk' = replaced /\ pc' = "mergeRemove" /\ UNCHANGED inputs
      BY <1>1, <1>5, <1>6, <1>7, <2>1 DEF NewTableInv, Numbered, Readable
    <2>2. CASE pc' = "idle"
      BY <2>2 DEF NewTableInv, Numbered, Written
    <2> QED
      BY <1>5, <2>1, <2>2
  <1>11. FilesKept
    BY <1>1 DEF FilesKept
  <1>12. NamedInv => NamedInv'
    BY <1>1, <1>6, <1>8 DEF NamedInv, Readable, FileNos
  <1>13. MetaInv => MetaInv'
    <2>1. \A k \in Keys : files[LastAllocated].data[k].seq =< meta.maxSeq
      BY <1>2, MaxSeqOfBound DEF MetaOf
    <2>2. replaced.files \subseteq mf.files \cup {meta}
          /\ replaced.logSeq = Larger(mf.logSeq, meta.maxSeq)
      BY <1>3, MfTypes, ManifestFiles
    <2>3. MetaInv => Describes(replaced, files)
      BY <1>3, <2>1, <2>2, MfTypes, DescribesMore DEF MetaInv
    <2> QED
      BY <1>1, <1>5, <2>3 DEF MetaInv, FlushedInv
  <1> QED
    BY <1>9, <1>10, <1>11, <1>12, <1>13 DEF Preserved, FilesInv

\* The merged tables leave the directory, which nothing names any more.
LEMMA RemoveStep ==
    ASSUME TypeInv, FilesInv, MergeRemove
    PROVE  Preserved
  <1>1. /\ pc = "mergeRemove" /\ pc' = "idle" /\ inputs' = {} /\ UNCHANGED mfVars
        /\ tables' = (tables \ inputs) \cup {LastAllocated}
        /\ mf = mfDisk /\ inputs \cap FileNos(mf) = {} /\ LastAllocated \notin inputs
        /\ Readable(LastAllocated)
    BY DEF MergeRemove, FilesInv, NewTableInv, Written
  <1>2. /\ DOMAIN files' = DOMAIN files \ inputs
        /\ \A m \in DOMAIN files' : files'[m] = files[m]
    BY RemoveFilesEffect DEF MergeRemove
  <1>3. NumbersInv'
    BY <1>1, <1>2, MfTypes DEF FilesInv, NumbersInv, mfVars, FileNos
  <1>4. NewTableInv'
    BY <1>1 DEF NewTableInv, Numbered, Written
  <1>5. FilesKept
    BY <1>1, <1>2 DEF FilesKept
  <1>6. NamedInv => NamedInv'
    BY <1>1, <1>2 DEF NamedInv, Readable, mfVars, FileNos
  <1>7. MetaInv => MetaInv'
    <2>1. MetaInv => Describes(mf, files') /\ Describes(mfDisk, files')
      BY <1>2, DescribesFewer DEF MetaInv
    <2> QED
      BY <1>1, <2>1 DEF MetaInv, FlushedInv, mfVars
  <1> QED
    BY <1>3, <1>4, <1>5, <1>6, <1>7 DEF Preserved, FilesInv
-----------------------------------------------------------------------------
LEMMA FilesNext == TypeInv /\ FilesInv /\ [Next]_vars => Preserved
  <1> SUFFICES ASSUME TypeInv, FilesInv, [Next]_vars PROVE Preserved
    OBVIOUS
  <1>1. CASE \/ \E k \in Keys, v \in Vals : Put(k, v)
             \/ \E k \in Keys : Delete(k)
             \/ \E b \in Batches : WriteBatch(b) \/ WriteFails(b)
             \/ \E k \in Keys, v \in Contents : WriteFails(<<[key |-> k, val |-> v]>>)
    BY <1>1, AppendsAreOps, QuietStep
  <1>2. CASE \/ \E ro \in BOOLEAN : Open(ro)
             \/ OpenFails \/ ReplayFrame \/ ReplayDone \/ ReplayCancelled
             \/ Sync \/ FinishWrite \/ SyncFails \/ Flush \/ FlushReset
             \/ Close \/ FinishClose \/ Kill \/ PowerLoss
    BY <1>2, QuietStep
  <1>3. CASE FlushAlloc \/ FlushCreate \/ FlushFinish \/ FlushAdd \/ FlushOpen
    BY <1>3, AllocStep, CreateStep, FinishStep, AddStep, FlushOpenStep
  <1>4. CASE \/ Compact \/ MergeAlloc \/ MergeCreate \/ MergeFinish
             \/ MergeOpen \/ MergeReplace \/ MergeRemove
    BY <1>4, CompactStep, AllocStep, CreateStep, FinishStep, ReplaceStep, RemoveStep
  <1>5. CASE UNCHANGED vars
    <2>1. FilesInv' /\ FilesKept
      BY <1>5 DEF vars, mfVars, dbVars, volatile, FilesInv, NumbersInv, NewTableInv, FilesKept,
         FileNos, LastAllocated, Readable
    <2>2. NamedInv => NamedInv'
      BY <1>5 DEF vars, mfVars, dbVars, volatile, NamedInv, FileNos, Readable
    <2>3. MetaInv => MetaInv'
      BY <1>5 DEF vars, mfVars, dbVars, volatile, MetaInv, FlushedInv, LastAllocated
    <2> QED
      BY <2>1, <2>2, <2>3 DEF Preserved
  <1> QED
    BY <1>1, <1>2, <1>3, <1>4, <1>5 DEF Next, StartOp, Continue, Crash

\* A complete table never changes, and leaves the directory only when MANIFEST
\* does not name it, whatever fails and wherever the process dies: a number is
\* never used for a second table.
THEOREM TablesImmutable == Spec => FilesImmutable
  <1>1. Init => TypeInv /\ FilesInv
    BY TypeInit, FilesInit
  <1>2. TypeInv /\ FilesInv /\ [Next]_vars => (TypeInv /\ FilesInv)'
    BY TypeNext, FilesNext DEF Preserved
  <1>3. TypeInv /\ FilesInv /\ [Next]_vars
          => [\A n \in DOMAIN files :
                files[n].complete =>
                   IF n \in DOMAIN files'
                     THEN files'[n] = files[n]
                     ELSE n \notin FileNos(mfDisk)]_vars
    BY FilesNext DEF Preserved, FilesKept
  <1> QED
    BY <1>1, <1>2, <1>3, PTL DEF Spec, FilesImmutable

\* Every table MANIFEST or the session names is in the directory and complete,
\* across flushes, compactions and crashes, and whatever fails but the save of
\* AddFile (LostTable shows that this one breaks it).
THEOREM NamedTablesStay ==
    ASSUME "addFile" \notin Faults
    PROVE  Spec => []ManifestComplete
  <1>1. Init => TypeInv /\ FilesInv /\ NamedInv
    BY TypeInit, FilesInit
  <1>2. TypeInv /\ FilesInv /\ NamedInv /\ [Next]_vars => (TypeInv /\ FilesInv /\ NamedInv)'
    BY TypeNext, FilesNext DEF Preserved
  <1>3. NamedInv => ManifestComplete
    BY DEF NamedInv, ManifestComplete
  <1> QED
    BY <1>1, <1>2, <1>3, PTL DEF Spec
-----------------------------------------------------------------------------
(* A read-only session never gets to a step that writes.                     *)

ReadOnlyInv == readOnly => pc \in {"replay", "idle", "closing"}

\* The step that ReadOnlySession allows.
ReadsOnly == readOnly => UNCHANGED <<mfDisk, files>> /\ (pc' # "down" => UNCHANGED frames)

LEMMA ReadOnlyStep ==
    ASSUME ReadOnlyInv, [Next]_vars, readOnly
    PROVE  ReadOnlyInv' /\ ReadsOnly
  <1>1. pc \in {"replay", "idle", "closing"}
    BY DEF ReadOnlyInv
  <1>2. CASE ReplayFrame \/ ReplayDone \/ ReplayCancelled \/ Sync \/ Close
    BY <1>1, <1>2 DEF ReplayFrame, ReplayDone, ReplayCancelled, Sync, Close, StartClose, walVars,
       mfVars, dbVars, volatile, ReadOnlyInv, ReadsOnly
  <1>3. CASE FinishClose \/ Kill \/ PowerLoss
    BY <1>3 DEF FinishClose, Kill, PowerLoss, Forget, ReadOnlyInv, ReadsOnly
  <1>4. CASE UNCHANGED vars
    BY <1>1, <1>4 DEF vars, walVars, mfVars, dbVars, volatile, ReadOnlyInv, ReadsOnly
  <1>5. ~\/ \E ro \in BOOLEAN : Open(ro)
         \/ OpenFails \/ Flush \/ Compact
    BY <1>1 DEF Open, OpenFails, Flush, Compact
  <1>6. ~\/ \E k \in Keys, v \in Vals : Put(k, v)
         \/ \E k \in Keys : Delete(k)
         \/ \E b \in Batches : WriteBatch(b)
         \/ \E b \in Batches : WriteFails(b)
         \/ \E k \in Keys, v \in Contents : WriteFails(<<[key |-> k, val |-> v]>>)
    BY DEF Put, Delete, WriteBatch, BeginWrite, WriteFails, CanWrite
  <1>7. ~(FinishWrite \/ SyncFails)
    BY <1>1 DEF FinishWrite, SyncFails
  <1>8. ~(FlushAlloc \/ FlushCreate \/ FlushFinish \/ FlushAdd \/ FlushOpen \/ FlushReset)
    BY <1>1 DEF FlushAlloc, FlushCreate, FlushFinish, FlushAdd, FlushOpen, FlushReset
  <1>9. ~(MergeAlloc \/ MergeCreate \/ MergeFinish \/ MergeOpen \/ MergeReplace \/ MergeRemove)
    BY <1>1 DEF MergeAlloc, MergeCreate, MergeFinish, MergeOpen, MergeReplace, MergeRemove
  <1> QED
    BY <1>2, <1>3, <1>4, <1>5, <1>6, <1>7, <1>8, <1>9 DEF Next, StartOp, Continue, Crash

\* A session becomes read-only in Open and nowhere else.
LEMMA ReadOnlyOpens ==
    ASSUME TypeInv, [Next]_vars, ~readOnly
    PROVE  ReadOnlyInv'
  <1>1. CASE \E ro \in BOOLEAN : Open(ro)
    BY <1>1 DEF Open, ReadOnlyInv
  <1>2. CASE ~\E ro \in BOOLEAN : Open(ro)
    <2>1. readOnly' = readOnly \/ readOnly' = FALSE
      <3>1. CASE UNCHANGED vars
        BY <3>1 DEF vars, dbVars, volatile
      <3>2. CASE \/ \E k \in Keys, v \in Vals : Put(k, v)
                 \/ \E k \in Keys : Delete(k)
                 \/ \E b \in Batches : WriteBatch(b)
                 \/ \E b \in Batches : WriteFails(b)
                 \/ \E k \in Keys, v \in Contents : WriteFails(<<[key |-> k, val |-> v]>>)
        BY <3>2 DEF Put, Delete, WriteBatch, BeginWrite, WriteFails, dbVars, volatile
      <3>3. CASE OpenFails \/ Sync \/ Flush \/ Compact \/ Close
        BY <3>3 DEF OpenFails, Sync, Flush, Compact, Close, dbVars, volatile
      <3>4. CASE ReplayFrame \/ ReplayDone \/ ReplayCancelled \/ FinishWrite \/ SyncFails
        BY <3>4 DEF ReplayFrame, ReplayDone, ReplayCancelled, FinishWrite, SyncFails
      <3>5. CASE FlushAlloc \/ FlushCreate \/ FlushFinish \/ FlushAdd \/ FlushOpen \/ FlushReset
        BY <3>5 DEF FlushAlloc, FlushCreate, FlushFinish, FlushAdd, FlushOpen, FlushReset, volatile
      <3>6. CASE \/ MergeAlloc \/ MergeCreate \/ MergeFinish \/ MergeOpen \/ MergeReplace
                 \/ MergeRemove
        BY <3>6 DEF MergeAlloc, MergeCreate, MergeFinish, MergeOpen, MergeReplace, MergeRemove
      <3>7. CASE FinishClose \/ Kill \/ PowerLoss
        BY <3>7 DEF FinishClose, Kill, PowerLoss, Forget
      <3> QED
        BY <1>2, <3>1, <3>2, <3>3, <3>4, <3>5, <3>6, <3>7 DEF Next, StartOp, Continue, Crash
    <2> QED
      BY <2>1, Zenon DEF ReadOnlyInv
  <1> QED
    BY <1>1, <1>2

\* A read-only session leaves the tables, MANIFEST and the log as they are, in
\* its Close and in an Open that is cancelled too.
THEOREM ReadOnlyWritesNothing == Spec => ReadOnlySession
  <1>1. Init => TypeInv /\ ReadOnlyInv
    BY TypeInit DEF Init, ReadOnlyInv
  <1>2. TypeInv /\ ReadOnlyInv /\ [Next]_vars => (TypeInv /\ ReadOnlyInv)'
    BY TypeNext, ReadOnlyStep, ReadOnlyOpens
  <1>3. TypeInv /\ ReadOnlyInv /\ [Next]_vars
          => [readOnly => UNCHANGED <<mfDisk, files>> /\ (pc' # "down" => UNCHANGED frames)]_vars
    BY ReadOnlyStep DEF ReadsOnly
  <1> QED
    BY <1>1, <1>2, <1>3, PTL DEF Spec, ReadOnlySession

-----------------------------------------------------------------------------
(***************************************************************************)
(* Sequence numbers order the writes and identify the versions, for every  *)
(* set of keys, values and batches, every sync policy and every bound.     *)
(***************************************************************************)

-----------------------------------------------------------------------------
(* The frames of a log are numbered up to b.                                 *)

Below(fs, b) == \A s \in SeqsIn(fs) : s =< b

\* The numbers in a log, frame by frame.
LEMMA SeqsInFrames ==
    ASSUME NEW fs \in Seq(Frame)
    PROVE  SeqsIn(fs) = {r.seq : r \in UNION {ToSet(fs[i]) : i \in DOMAIN fs}}
  <1>1. ToSet(fs) = {fs[i] : i \in DOMAIN fs}
    BY DEF ToSet
  <1>2. FrameRecords(ToSet(fs)) = UNION {ToSet(fs[i]) : i \in DOMAIN fs}
    BY <1>1 DEF FrameRecords
  <1> QED
    BY <1>2 DEF SeqsIn

LEMMA SeqsInElements ==
    ASSUME NEW fs \in Seq(Frame), NEW i \in DOMAIN fs, NEW r \in ToSet(fs[i])
    PROVE  r.seq \in SeqsIn(fs)
  BY SeqsInFrames

LEMMA BelowIntro ==
    ASSUME NEW fs \in Seq(Frame), NEW b \in Nat,
           \A i \in DOMAIN fs : \A r \in ToSet(fs[i]) : r.seq =< b
    PROVE  Below(fs, b)
  <1>1. ASSUME NEW r \in UNION {ToSet(fs[i]) : i \in DOMAIN fs} PROVE r.seq =< b
    <2>1. PICK i \in DOMAIN fs : r \in ToSet(fs[i])
      BY <1>1
    <2> QED
      BY <2>1
  <1>2. SeqsIn(fs) = {r.seq : r \in UNION {ToSet(fs[i]) : i \in DOMAIN fs}}
    BY SeqsInFrames
  <1>3. \A s \in SeqsIn(fs) : \E r \in UNION {ToSet(fs[i]) : i \in DOMAIN fs} : s = r.seq
    BY <1>2
  <1> QED
    BY <1>1, <1>3 DEF Below

LEMMA LastSeqIn ==
    ASSUME NEW f \in Frame
    PROVE  f[Len(f)] \in ToSet(f) /\ f[1] \in ToSet(f)
  <1>1. Len(f) \in DOMAIN f /\ 1 \in DOMAIN f
    BY DEF Frame
  <1> QED
    BY <1>1 DEF ToSet

LEMMA BelowAppend ==
    ASSUME NEW fs \in Seq(Frame), NEW f \in Frame, NEW b \in Nat,
           Below(fs, b), \A r \in ToSet(f) : r.seq =< b
    PROVE  Below(Append(fs, f), b)
  <1>1. Append(fs, f) \in Seq(Frame)
    OBVIOUS
  <1>2. ASSUME NEW i \in DOMAIN Append(fs, f), NEW r \in ToSet(Append(fs, f)[i])
        PROVE  r.seq =< b
    <2>1. CASE i = Len(fs) + 1
      <3>1. Append(fs, f)[i] = f
        BY <2>1
      <3> QED
        BY <1>2, <3>1
    <2>2. CASE i # Len(fs) + 1
      <3>1. i \in DOMAIN fs /\ Append(fs, f)[i] = fs[i]
        BY <1>2, <2>2
      <3> QED
        BY <1>2, <3>1, SeqsInElements DEF Below
    <2> QED
      BY <2>1, <2>2
  <1> QED
    BY <1>1, <1>2, BelowIntro

LEMMA BelowPrefix ==
    ASSUME NEW fs \in Seq(Frame), NEW n \in 0 .. Len(fs), NEW b \in Nat, Below(fs, b)
    PROVE  Below(SubSeq(fs, 1, n), b)
  <1> DEFINE gs == SubSeq(fs, 1, n)
  <1>1. gs \in Seq(Frame) /\ DOMAIN gs = 1 .. n /\ \A i \in 1 .. n : gs[i] = fs[i]
    OBVIOUS
  <1>2. ASSUME NEW i \in DOMAIN gs, NEW r \in ToSet(gs[i]) PROVE r.seq =< b
    <2>1. i \in DOMAIN fs /\ gs[i] = fs[i]
      BY <1>1
    <2> QED
      BY <1>2, <2>1, SeqsInElements DEF Below
  <1> QED
    BY <1>1, <1>2, BelowIntro

LEMMA BelowEmpty == \A b \in Nat : Below(<<>>, b)
  <1>1. <<>> \in Seq(Frame) /\ DOMAIN <<>> = {}
    OBVIOUS
  <1> QED
    BY <1>1, SeqsInFrames DEF Below

LEMMA BelowMore ==
    ASSUME NEW fs \in Seq(Frame), NEW b \in Nat, NEW c \in Nat, Below(fs, b), b =< c
    PROVE  Below(fs, c)
  BY SeqsInType DEF Below

-----------------------------------------------------------------------------
(* The order of commits.  Three facts make it inductive: the numbers in the  *)
(* log are bounded, so that an Open finds the highest; a running session has *)
(* given out every number in the history; and the frame on its way to the    *)
(* memtable is numbered above them.  For an Open they need MetaInv: MANIFEST *)
(* notes a number that is not below those in its tables.                     *)

LogBounded == \E b \in Nat : Below(frames, b) /\ Below(durable, b)

OrderInv ==
    /\ LogBounded
    /\ pc # "down" => \A g \in hist : LastSeq(g) =< nextSeq
    /\ pc = "sync" => /\ \A g \in hist : LastSeq(g) < pending[1].seq
                      /\ LastSeq(pending) =< nextSeq

LEMMA OrderInit == Init => OrderInv
  <1> SUFFICES ASSUME Init PROVE OrderInv
    OBVIOUS
  <1>1. frames = <<>> /\ durable = <<>> /\ pc = "down"
    BY Zenon DEF Init, WALInit
  <1>2. Below(<<>>, 0)
    BY BelowEmpty
  <1>3. LogBounded
    BY <1>1, <1>2 DEF LogBounded
  <1> QED
    BY <1>1, <1>3 DEF OrderInv

\* Most steps leave the history alone and shorten the log at most.
LEMMA OrderKept ==
    ASSUME TypeInv, OrderInv, nextSeq' \in Nat,
           frames' \in {frames, <<>>}, durable' \in {durable, frames, <<>>},
           hist' = hist, pc' # "sync",
           pc' # "down" => pc # "down" /\ nextSeq =< nextSeq'
    PROVE  OrderInv'
  <1>1. PICK b \in Nat : Below(frames, b) /\ Below(durable, b)
    BY DEF OrderInv, LogBounded
  <1>2. Below(<<>>, b)
    BY BelowEmpty
  <1>3. Below(frames', b) /\ Below(durable', b)
    <2>1. frames' = frames \/ frames' = <<>>
      OBVIOUS
    <2>2. durable' = durable \/ durable' = frames \/ durable' = <<>>
      OBVIOUS
    <2> QED
      BY <1>1, <1>2, <2>1, <2>2, Zenon DEF Below, SeqsIn
  <1>4. LogBounded'
    BY <1>3 DEF LogBounded, Below, SeqsIn
  <1>5. ASSUME pc' # "down", NEW g \in hist PROVE LastSeq(g) =< nextSeq'
    <2>1. LastSeq(g) =< nextSeq /\ nextSeq =< nextSeq'
      BY <1>5 DEF OrderInv
    <2>2. LastSeq(g) \in Nat /\ nextSeq \in Nat
      BY LastSeqType DEF TypeInv, TypeOK, GhostTypeOK, WALTypeOK
    <2> QED
      BY <2>1, <2>2
  <1> QED
    BY <1>4, <1>5 DEF OrderInv, LastSeq

\* What the tables of MANIFEST hold is numbered up to what MANIFEST says.
LEMMA TableSeqsBound ==
    ASSUME TypeInv, MetaInv, \A n \in FileNos(mfDisk) : Readable(n)
    PROVE  TableSeqs \subseteq Nat /\ \A s \in TableSeqs : s =< SeqFloor(mfDisk)
  <1>1. ASSUME NEW n \in FileNos(mfDisk), NEW k \in Keys
        PROVE  /\ files[n].data[k].seq \in Nat
               /\ files[n].data[k].seq =< SeqFloor(mfDisk)
    <2>1. PICK f \in mfDisk.files : f.no = n
      BY DEF FileNos
    <2>2. n \in DOMAIN files
      BY DEF Readable
    <2>3. files[n].data[k].seq \in Nat
      BY <2>2 DEF TypeInv, TypeOK, FilesTypeOK, SSTFile, Table, Version
    <2>4. files[n].data[k].seq =< f.maxSeq /\ f.maxSeq =< mfDisk.logSeq
      BY <2>1, <2>2 DEF MetaInv, Describes
    <2>5. f.maxSeq \in Nat /\ mfDisk.logSeq \in Nat
      BY MfTypes DEF MfState, FileMeta
    <2>6. mfDisk.logSeq =< SeqFloor(mfDisk) /\ SeqFloor(mfDisk) \in Nat
      <3>1. {g.maxSeq : g \in mfDisk.files} \in SUBSET Nat
        BY MfTypes DEF MfState, FileMeta
      <3> QED
        BY <2>5, <3>1, HighestSeqType, LargerType DEF SeqFloor
    <2> QED
      BY <2>3, <2>4, <2>5, <2>6
  <1>2. ASSUME NEW s \in TableSeqs
        PROVE  \E n \in FileNos(mfDisk), k \in Keys : s = files[n].data[k].seq
    BY DEF TableSeqs, DataOf
  <1> QED
    BY <1>1, <1>2

\* An Open resumes the numbering above whatever is in the log and in the tables,
\* and so above the history it takes over.
LEMMA OrderOpen ==
    ASSUME TypeInv, MetaInv, OrderInv, NEW ro \in BOOLEAN, Open(ro)
    PROVE  OrderInv'
  <1>1. PICK b \in Nat : Below(frames, b) /\ Below(durable, b)
    BY DEF OrderInv, LogBounded
  <1>2. /\ frames' = frames /\ durable' = durable /\ pc' = "replay"
        /\ nextSeq' = Larger(HighestSeq(SeqsIn(frames)), SeqFloor(mfDisk))
        /\ hist' = RecoveredHist(frames)
        /\ \A n \in FileNos(mfDisk) : Readable(n)
    BY DEF Open, RecoverLog
  <1>3. frames \in Seq(Frame) /\ mfDisk \in MfState /\ hist \subseteq Frame
    BY DEF TypeInv, TypeOK, WALTypeOK, ManifestTypeOK, GhostTypeOK
  <1>4. SeqsIn(frames) \in SUBSET Nat
    BY <1>3, SeqsInType
  <1>5. TableSeqs \subseteq Nat /\ \A s \in TableSeqs : s =< SeqFloor(mfDisk)
    BY <1>2, TableSeqsBound
  <1>6. /\ HighestSeq(SeqsIn(frames)) \in Nat /\ SeqFloor(mfDisk) \in Nat /\ nextSeq' \in Nat
        /\ HighestSeq(SeqsIn(frames)) =< nextSeq' /\ SeqFloor(mfDisk) =< nextSeq'
    BY <1>2, <1>3, <1>4, HighestSeqType, SeqFloorType, LargerType
  <1>7. ASSUME NEW s \in SeqsIn(frames) \cup TableSeqs PROVE s \in Nat /\ s =< nextSeq'
    <2>1. \A t \in SeqsIn(frames) : t =< HighestSeq(SeqsIn(frames))
      BY <1>1, <1>4, HighestSeqBound DEF Below
    <2>2. CASE s \in SeqsIn(frames)
      <3>1. s \in Nat /\ s =< HighestSeq(SeqsIn(frames))
        BY <1>4, <2>1, <2>2
      <3> QED
        BY <1>6, <3>1
    <2>3. CASE s \in TableSeqs
      <3>1. s \in Nat /\ s =< SeqFloor(mfDisk)
        BY <1>5, <2>3
      <3> QED
        BY <1>6, <3>1
    <2> QED
      BY <2>2, <2>3
  <1>8. RecoverableSeq(frames) \in Nat /\ RecoverableSeq(frames) =< nextSeq'
    <2>1. SeqsIn(frames) \cup TableSeqs \in SUBSET Nat
      BY <1>4, <1>5
    <2> QED
      BY <1>6, <1>7, <2>1, HighestSeqType, HighestSeqLeast DEF RecoverableSeq
  <1>9. ASSUME NEW f \in ToSet(frames) PROVE LastSeq(f) =< nextSeq'
    <2>1. PICK i \in DOMAIN frames : f = frames[i]
      BY DEF ToSet
    <2>2. f \in Frame
      BY <1>3, <2>1
    <2>3. f[Len(f)] \in ToSet(frames[i])
      BY <2>1, <2>2, LastSeqIn
    <2>4. f[Len(f)].seq \in SeqsIn(frames)
      BY <1>3, <2>3, SeqsInElements
    <2> QED
      BY <1>7, <2>4 DEF LastSeq
  <1>10. ASSUME NEW f \in hist, LastSeq(f) =< RecoverableSeq(frames) PROVE LastSeq(f) =< nextSeq'
    <2>1. LastSeq(f) \in Nat
      BY <1>3, LastSeqType
    <2> QED
      BY <1>6, <1>8, <1>10, <2>1
  <1>11. \A g \in hist' : LastSeq(g) =< nextSeq'
    BY <1>2, <1>9, <1>10 DEF RecoveredHist
  <1>12. LogBounded'
    BY <1>1, <1>2 DEF LogBounded, Below, SeqsIn
  <1> QED
    BY <1>2, <1>11, <1>12 DEF OrderInv, LastSeq

\* An append numbers its records from nextSeq up.
LEMMA OrderBeginWrite ==
    ASSUME TypeInv, OrderInv, NEW ops \in Seq(Op), ops # <<>>, BeginWrite(ops)
    PROVE  OrderInv'
  <1> DEFINE f == NewFrame(ops)
  <1>1. frames \in Seq(Frame) /\ durable \in Seq(Frame) /\ nextSeq \in Nat /\ hist \subseteq Frame
    BY DEF TypeInv, TypeOK, WALTypeOK, GhostTypeOK
  <1>2. f \in Frame
    BY <1>1, NewFrameType
  <1>3. Len(ops) \in Nat /\ Len(ops) > 0 /\ DOMAIN ops = 1 .. Len(ops)
    OBVIOUS
  <1>4. DOMAIN f = 1 .. Len(ops) /\ \A i \in 1 .. Len(ops) : f[i].seq = nextSeq + i
    BY <1>3 DEF NewFrame
  <1>5. Len(f) = Len(ops)
    <2>1. Len(f) \in Nat /\ DOMAIN f = 1 .. Len(f)
      BY <1>2 DEF Frame
    <2> QED
      BY <1>3, <1>4, <2>1
  <1>6. f[1].seq = nextSeq + 1 /\ LastSeq(f) = nextSeq + Len(ops)
    BY <1>3, <1>4, <1>5 DEF LastSeq
  <1>7. /\ pc = "idle" /\ pc' = "sync" /\ pending' = f /\ hist' = hist
        /\ nextSeq' = nextSeq + Len(ops) /\ durable' = durable
        /\ frames' = IF torn THEN frames ELSE Append(frames, f)
    BY DEF BeginWrite, CanWrite, AppendFrame, ghosts
  <1>8. \A g \in hist : LastSeq(g) \in Nat /\ LastSeq(g) =< nextSeq
    BY <1>1, <1>7, LastSeqType DEF OrderInv
  <1>9. LogBounded'
    <2>1. PICK b \in Nat : Below(frames, b) /\ Below(durable, b)
      BY DEF OrderInv, LogBounded
    <2> DEFINE c == b + nextSeq + Len(ops)
    <2>2. c \in Nat /\ b =< c
      BY <1>1, <1>3
    <2>3. Below(frames, c) /\ Below(durable, c)
      BY <1>1, <2>1, <2>2, BelowMore
    <2>4. ASSUME NEW r \in ToSet(f) PROVE r.seq =< c
      <3>1. PICK i \in DOMAIN f : r = f[i]
        BY DEF ToSet
      <3>2. r.seq = nextSeq + i /\ i \in Nat /\ i =< Len(ops)
        BY <1>3, <1>4, <3>1
      <3> QED
        BY <1>1, <1>3, <2>1, <3>2
    <2>5. Below(Append(frames, f), c)
      BY <1>1, <1>2, <2>2, <2>3, <2>4, BelowAppend
    <2>6. Below(frames', c)
      <3>1. CASE torn
        BY <1>7, <2>3, <3>1, Zenon DEF Below, SeqsIn
      <3>2. CASE ~torn
        BY <1>7, <2>5, <3>2, Zenon DEF Below, SeqsIn
      <3> QED
        BY <3>1, <3>2
    <2>7. Below(durable', c)
      BY <1>7, <2>3
    <2> QED
      BY <2>2, <2>6, <2>7 DEF LogBounded, Below, SeqsIn
  <1>10. \A g \in hist' : LastSeq(g) =< nextSeq'
    BY <1>1, <1>3, <1>7, <1>8
  <1>11. \A g \in hist' : LastSeq(g) < pending'[1].seq
    BY <1>1, <1>6, <1>7, <1>8
  <1>12. LastSeq(pending') =< nextSeq'
    BY <1>1, <1>3, <1>6, <1>7
  <1> QED
    BY <1>9, <1>10, <1>11, <1>12 DEF OrderInv, LastSeq

\* The frame that takes effect joins the history.
LEMMA OrderFinishWrite ==
    ASSUME TypeInv, OrderInv, FinishWrite
    PROVE  OrderInv'
  <1>1. /\ pc = "sync" /\ pc' # "sync" /\ hist' = hist \cup {pending}
        /\ frames' = frames /\ nextSeq' = nextSeq
    BY DEF FinishWrite
  <1>2. durable' = durable \/ durable' = frames
    BY DEF FinishWrite, Fsync
  <1>3. PICK b \in Nat : Below(frames, b) /\ Below(durable, b)
    BY DEF OrderInv, LogBounded
  <1>4. LogBounded'
    BY <1>1, <1>2, <1>3 DEF LogBounded, Below, SeqsIn
  <1>5. \A g \in hist' : LastSeq(g) =< nextSeq'
    BY <1>1 DEF OrderInv
  <1> QED
    BY <1>1, <1>4, <1>5 DEF OrderInv, LastSeq

\* What a power failure leaves is a part of what was there.
LEMMA OrderPowerLoss ==
    ASSUME TypeInv, OrderInv, PowerLoss
    PROVE  OrderInv'
  <1>1. frames \in Seq(Frame) /\ durable \in Seq(Frame)
    BY DEF TypeInv, TypeOK, WALTypeOK
  <1>2. PICK b \in Nat : Below(frames, b) /\ Below(durable, b)
    BY DEF OrderInv, LogBounded
  <1>3. PICK s \in Survivors : frames' = s /\ durable' = s
    BY DEF PowerLoss, LosePower
  <1>4. Below(s, b)
    <2>1. CASE s = durable
      BY <1>2, <2>1
    <2>2. CASE s # durable
      <3>1. PICK n \in 0 .. Len(frames) : s = SubSeq(frames, 1, n)
        BY <1>1, <2>2 DEF Survivors
      <3> QED
        BY <1>1, <1>2, <3>1, BelowPrefix
    <2> QED
      BY <2>1, <2>2
  <1>5. LogBounded'
    BY <1>3, <1>4 DEF LogBounded, Below, SeqsIn
  <1>6. pc' = "down"
    BY DEF PowerLoss, Forget
  <1> QED
    BY <1>5, <1>6 DEF OrderInv
\* Opening without success, replaying, and the writes that come to nothing.
LEMMA OrderReplay ==
    ASSUME TypeInv, TypeInv', OrderInv,
           \/ OpenFails \/ ReplayFrame \/ ReplayDone \/ ReplayCancelled \/ Sync \/ SyncFails
           \/ \E ops \in Seq(Op) : WriteFails(ops)
    PROVE  OrderInv'
  <1>1. nextSeq \in Nat /\ nextSeq' \in Nat
    BY DEF TypeInv, TypeOK, WALTypeOK
  <1>2. CASE OpenFails
    BY <1>1, <1>2, OrderKept DEF OpenFails, RecoverLog, Fsync, dbVars, ghosts
  <1>3. CASE ReplayFrame
    BY <1>1, <1>3, OrderKept DEF ReplayFrame, walVars, ghosts
  <1>4. CASE ReplayDone
    BY <1>1, <1>4, OrderKept DEF ReplayDone, walVars, ghosts
  <1>5. CASE ReplayCancelled
    BY <1>1, <1>5, OrderKept DEF ReplayCancelled, StartClose, walVars, ghosts
  <1>6. CASE Sync
    BY <1>1, <1>6, OrderKept DEF Sync, Fsync, dbVars
  <1>7. CASE SyncFails
    BY <1>1, <1>7, OrderKept DEF SyncFails, walVars, ghosts
  <1>8. ASSUME NEW ops \in Seq(Op), WriteFails(ops) PROVE OrderInv'
    <2>1. Len(ops) \in Nat
      OBVIOUS
    <2>2. /\ pc = "idle" /\ pc' = pc /\ hist' = hist /\ nextSeq' = nextSeq + Len(ops)
          /\ frames' = frames /\ durable' = durable
      BY <1>8 DEF WriteFails, CanWrite, AppendNothing, AppendTorn, dbVars, ghosts
    <2> QED
      BY <1>1, <2>1, <2>2, OrderKept
  <1> QED
    BY <1>2, <1>3, <1>4, <1>5, <1>6, <1>7, <1>8

\* Flushing, compacting, closing and the death of the process.
LEMMA OrderRest ==
    ASSUME TypeInv, TypeInv', OrderInv,
           \/ Flush \/ FlushAlloc \/ FlushCreate \/ FlushFinish \/ FlushAdd \/ FlushOpen
           \/ FlushReset
           \/ Compact \/ MergeAlloc \/ MergeCreate \/ MergeFinish \/ MergeOpen \/ MergeReplace
           \/ MergeRemove
           \/ Close \/ FinishClose \/ Kill
    PROVE  OrderInv'
  <1>1. nextSeq \in Nat /\ nextSeq' \in Nat
    BY DEF TypeInv, TypeOK, WALTypeOK
  <1>2. CASE FlushReset
    <2>1. files[LastAllocated].data \in Table
      BY <1>2 DEF TypeInv, TypeOK, FilesTypeOK, PcInv, HasOutput, FlushReset, SSTFile
    <2>2. nextSeq =< Larger(nextSeq, MaxSeqOf(files[LastAllocated].data))
      BY <1>1, <2>1, MaxSeqOfType, LargerType
    <2>3. nextSeq' = nextSeq \/ nextSeq' = Larger(nextSeq, MaxSeqOf(files[LastAllocated].data))
      BY <1>2 DEF FlushReset, walVars
    <2>4. nextSeq =< nextSeq'
      BY <1>1, <2>2, <2>3
    <2>5. frames' \in {frames, <<>>} /\ durable' \in {durable, frames, <<>>}
      BY <1>2 DEF FlushReset, ResetLog, ResetLogUnsynced, walVars
    <2>6. pc = "flushReset" /\ pc' \in {"idle", "closing"} /\ hist' = hist
      BY <1>2 DEF FlushReset, FlushFails
    <2> QED
      BY <1>1, <2>4, <2>5, <2>6, OrderKept
  <1>3. CASE FinishClose
    BY <1>1, <1>3, OrderKept DEF FinishClose, Fsync, Forget
  <1>4. CASE Kill
    BY <1>1, <1>4, OrderKept DEF Kill, Forget, walVars, ghosts
  <1>5. CASE Close
    BY <1>1, <1>5, OrderKept DEF Close, StartClose, walVars, ghosts
  <1>6. CASE \/ Flush \/ FlushAlloc \/ FlushCreate \/ FlushFinish \/ FlushAdd \/ FlushOpen
    <2>1. pc \notin {"sync", "down"} /\ pc' \notin {"sync", "down"}
      BY <1>6 DEF Flush, FlushAlloc, FlushCreate, FlushFinish, FlushAdd, FlushOpen, FlushFails
    <2>2. UNCHANGED <<walVars, hist>>
      BY <1>6 DEF Flush, FlushAlloc, FlushCreate, FlushFinish, FlushAdd, FlushOpen, ghosts
    <2> QED
      BY <1>1, <2>1, <2>2, OrderKept DEF walVars
  <1>7. CASE \/ Compact \/ MergeAlloc \/ MergeCreate \/ MergeFinish \/ MergeOpen
             \/ MergeReplace \/ MergeRemove
    <2>1. pc \notin {"sync", "down"} /\ pc' \notin {"sync", "down"}
      BY <1>7 DEF Compact, MergeAlloc, MergeCreate, MergeFinish, MergeOpen, MergeReplace,
         MergeRemove, MergeFails
    <2>2. UNCHANGED <<walVars, hist>>
      BY <1>7 DEF Compact, MergeAlloc, MergeCreate, MergeFinish, MergeOpen, MergeReplace,
         MergeRemove, ghosts
    <2> QED
      BY <1>1, <2>1, <2>2, OrderKept DEF walVars
  <1> QED
    BY <1>2, <1>3, <1>4, <1>5, <1>6, <1>7

LEMMA OrderNext == TypeInv /\ TypeInv' /\ MetaInv /\ OrderInv /\ [Next]_vars => OrderInv'
  <1> SUFFICES ASSUME TypeInv, TypeInv', MetaInv, OrderInv, [Next]_vars PROVE OrderInv'
    OBVIOUS
  <1>1. CASE \E ro \in BOOLEAN : Open(ro)
    BY <1>1, OrderOpen
  <1>2. CASE \/ \E k \in Keys, v \in Vals : Put(k, v)
             \/ \E k \in Keys : Delete(k)
             \/ \E b \in Batches : WriteBatch(b) \/ WriteFails(b)
             \/ \E k \in Keys, v \in Contents : WriteFails(<<[key |-> k, val |-> v]>>)
    BY <1>2, AppendsAreOps, OrderBeginWrite, OrderReplay
  <1>3. CASE OpenFails \/ ReplayFrame \/ ReplayDone \/ ReplayCancelled \/ Sync \/ SyncFails
    BY <1>3, OrderReplay
  <1>4. CASE FinishWrite
    BY <1>4, OrderFinishWrite
  <1>5. CASE PowerLoss
    BY <1>5, OrderPowerLoss
  <1>6. CASE \/ Flush \/ FlushAlloc \/ FlushCreate \/ FlushFinish \/ FlushAdd \/ FlushOpen
             \/ FlushReset
             \/ Compact \/ MergeAlloc \/ MergeCreate \/ MergeFinish \/ MergeOpen \/ MergeReplace
             \/ MergeRemove
             \/ Close \/ FinishClose \/ Kill
    BY <1>6, OrderRest
  <1>7. CASE UNCHANGED vars
    BY <1>7 DEF vars, walVars, dbVars, volatile, ghosts, OrderInv, LogBounded, Below, SeqsIn, LastSeq
  <1> QED
    BY <1>1, <1>2, <1>3, <1>4, <1>5, <1>6, <1>7 DEF Next, StartOp, Continue, Crash

\* With an append in progress, only its own frame can join the history.
LEMMA HistStep ==
    ASSUME TypeInv, [Next]_vars, pc = "sync"
    PROVE  hist' = hist \/ hist' = hist \cup {pending}
  <1>1. CASE Kill \/ PowerLoss
    BY <1>1 DEF Kill, PowerLoss, ghosts
  <1>2. CASE FinishWrite
    BY <1>2 DEF FinishWrite
  <1>3. CASE SyncFails
    BY <1>3 DEF SyncFails, ghosts
  <1>4. CASE UNCHANGED vars
    BY <1>4 DEF vars, ghosts
  <1>5. ~(StartOp \/ ReplayFrame \/ ReplayDone \/ ReplayCancelled)
    BY DEF StartOp, Open, OpenFails, Put, Delete, WriteBatch, BeginWrite, WriteFails, CanWrite,
       Sync, Flush, Compact, Close, ReplayFrame, ReplayDone, ReplayCancelled
  <1>6. ~(FlushAlloc \/ FlushCreate \/ FlushFinish \/ FlushAdd \/ FlushOpen \/ FlushReset)
    BY DEF FlushAlloc, FlushCreate, FlushFinish, FlushAdd, FlushOpen, FlushReset
  <1>7. ~(MergeAlloc \/ MergeCreate \/ MergeFinish \/ MergeOpen \/ MergeReplace \/ MergeRemove)
    BY DEF MergeAlloc, MergeCreate, MergeFinish, MergeOpen, MergeReplace, MergeRemove
  <1>8. ~FinishClose
    BY DEF FinishClose
  <1> QED
    BY <1>1, <1>2, <1>3, <1>4, <1>5, <1>6, <1>7, <1>8 DEF Next, Continue, Crash

LEMMA OrderStep ==
    ASSUME TypeInv, OrderInv, [Next]_vars
    PROVE  \A f \in hist' \ hist : pc = "sync" => \A g \in hist : LastSeq(g) < f[1].seq
  BY HistStep DEF OrderInv

\* The order of commits is the order of the numbers, across flushes, crashes of
\* either kind, recoveries and every failure of a file operation: Put, Delete
\* and Write never number a version below one that already took effect.
THEOREM CommitsInOrder == Spec => CommitOrder
  <1> DEFINE Inv == TypeInv /\ FilesInv /\ MetaInv /\ OrderInv
  <1>1. Init => Inv
    BY TypeInit, FilesInit, OrderInit
  <1>2. Inv /\ [Next]_vars => Inv'
    BY TypeNext, FilesNext, OrderNext DEF Preserved
  <1>3. Inv /\ [Next]_vars
          => [\A f \in hist' \ hist : pc = "sync" => \A g \in hist : LastSeq(g) < f[1].seq]_vars
    BY OrderStep
  <1> HIDE DEF Inv
  <1> QED
    BY <1>1, <1>2, <1>3, PTL DEF Spec, CommitOrder

-----------------------------------------------------------------------------
(* Prefixes of the log.                                                      *)

LEMMA PrefixIs ==
    ASSUME NEW s \in Seq(Frame), NEW t \in Seq(Frame)
    PROVE  IsPrefix(s, t) <=> Len(s) =< Len(t) /\ \A i \in 1 .. Len(s) : s[i] = t[i]
  <1>1. CASE Len(s) =< Len(t)
    <2> DEFINE a == SubSeq(s, 1, Len(s))
               b == SubSeq(t, 1, Len(s))
    <2>1. /\ a \in Seq(Frame) /\ Len(a) = Len(s) /\ \A i \in 1 .. Len(s) : a[i] = s[i]
          /\ b \in Seq(Frame) /\ Len(b) = Len(s) /\ \A i \in 1 .. Len(s) : b[i] = t[i]
      BY <1>1
    <2>2. a = b <=> \A i \in 1 .. Len(s) : a[i] = b[i]
      BY <2>1, SeqEqual
    <2> QED
      BY <1>1, <2>1, <2>2 DEF IsPrefix
  <1>2. CASE ~(Len(s) =< Len(t))
    BY <1>2 DEF IsPrefix
  <1> QED
    BY <1>1, <1>2

LEMMA PrefixSelf ==
    ASSUME NEW s \in Seq(Frame)
    PROVE  IsPrefix(s, s)
  <1>1. Len(s) =< Len(s)
    OBVIOUS
  <1> QED
    BY <1>1, PrefixIs

LEMMA PrefixAppend ==
    ASSUME NEW s \in Seq(Frame), NEW t \in Seq(Frame), NEW f \in Frame, IsPrefix(s, t)
    PROVE  IsPrefix(s, Append(t, f))
  <1>1. Len(s) =< Len(t) /\ \A i \in 1 .. Len(s) : s[i] = t[i]
    BY PrefixIs
  <1>2. /\ Append(t, f) \in Seq(Frame) /\ Len(Append(t, f)) = Len(t) + 1
        /\ \A i \in 1 .. Len(t) : Append(t, f)[i] = t[i]
    OBVIOUS
  <1>3. Len(s) =< Len(Append(t, f)) /\ \A i \in 1 .. Len(s) : s[i] = Append(t, f)[i]
    BY <1>1, <1>2
  <1> QED
    BY <1>2, <1>3, PrefixIs

LEMMA PrefixSeqs ==
    ASSUME NEW s \in Seq(Frame), NEW t \in Seq(Frame), IsPrefix(s, t)
    PROVE  SeqsIn(s) \subseteq SeqsIn(t) /\ ToSet(s) \subseteq ToSet(t)
  <1>1. Len(s) =< Len(t) /\ \A i \in 1 .. Len(s) : s[i] = t[i]
    BY PrefixIs
  <1>2. \A i \in DOMAIN s : i \in DOMAIN t /\ s[i] = t[i]
    BY <1>1
  <1>3. ToSet(s) \subseteq ToSet(t)
    BY <1>2 DEF ToSet
  <1> QED
    BY <1>3 DEF SeqsIn, FrameRecords

\* A survivor of a power failure consists of frames that were there.
LEMMA SurvivorFrames ==
    ASSUME WALTypeOK, NEW s \in Survivors
    PROVE  /\ s \in Seq(Frame)
           /\ s = durable \/ \E n \in 0 .. Len(frames) : s = SubSeq(frames, 1, n)
           /\ ToSet(s) \subseteq ToSet(frames) \cup ToSet(durable)
  <1>1. s \in Seq(Frame)
    BY SurvivorsType
  <1>2. ASSUME s # durable PROVE \E n \in 0 .. Len(frames) : s = SubSeq(frames, 1, n)
    BY <1>2 DEF Survivors, WALTypeOK
  <1>3. ASSUME NEW n \in 0 .. Len(frames) PROVE ToSet(SubSeq(frames, 1, n)) \subseteq ToSet(frames)
    <2>1. /\ DOMAIN SubSeq(frames, 1, n) = 1 .. n
          /\ \A i \in 1 .. n : i \in DOMAIN frames /\ SubSeq(frames, 1, n)[i] = frames[i]
      BY DEF WALTypeOK
    <2> QED
      BY <2>1 DEF ToSet
  <1> QED
    BY <1>1, <1>2, <1>3

-----------------------------------------------------------------------------
(* What the engine holds: the memtable, the tables that anything names and   *)
(* the one it has written last, and the frames.                              *)

HeldIn(t) == {[key |-> k, seq |-> t[k].seq, val |-> t[k].val] : k \in KeysIn(t)}

Named ==
    FileNos(mf) \cup FileNos(mfDisk) \cup tables
        \cup (IF pc \in Written THEN {LastAllocated} ELSE {})

HeldInAll(m, fs, ns) == UNION {HeldIn(t) : t \in {m} \cup {fs[n].data : n \in ns}}

Carried == ToSet(frames) \cup ToSet(durable) \cup hist \cup {pending}

Everything == HeldInAll(mem, files, Named \cap DOMAIN files) \cup FrameRecords(Carried)

\* A frame numbers its records one after the other, from 1 at the least.
Consecutive(f) == \A i \in DOMAIN f : f[i].seq = f[1].seq + (i - 1) /\ f[1].seq > 0

Unique    == \A r, s \in Everything : r.seq = s.seq => r = s
GivenOut  == pc # "down" => \A r \in Everything : r.seq =< nextSeq
FramesInv == \A f \in Carried : Consecutive(f)

LEMMA HeldInAllIs ==
    ASSUME NEW m, NEW fs, NEW ns
    PROVE  /\ HeldIn(m) \subseteq HeldInAll(m, fs, ns)
           /\ \A n \in ns : HeldIn(fs[n].data) \subseteq HeldInAll(m, fs, ns)
           /\ \A S : HeldIn(m) \subseteq S /\ (\A n \in ns : HeldIn(fs[n].data) \subseteq S)
                        => HeldInAll(m, fs, ns) \subseteq S
  BY DEF HeldInAll

LEMMA EverythingHas ==
    /\ HeldIn(mem) \subseteq Everything
    /\ \A n \in Named \cap DOMAIN files : HeldIn(files[n].data) \subseteq Everything
    /\ \A f \in Carried : ToSet(f) \subseteq Everything
  BY HeldInAllIs DEF Everything, FrameRecords

\* A step after which there is nothing that was not there before it.
LEMMA NothingNew ==
    ASSUME HeldIn(mem') \subseteq Everything,
           \A n \in Named' \cap DOMAIN files' : HeldIn(files'[n].data) \subseteq Everything,
           \A f \in Carried' : ToSet(f) \subseteq Everything
    PROVE  Everything' \subseteq Everything
  <1>1. HeldInAll(mem', files', Named' \cap DOMAIN files') \subseteq Everything
    BY HeldInAllIs
  <1>2. FrameRecords(Carried') \subseteq Everything
    BY DEF FrameRecords
  <1>3. Everything' = HeldInAll(mem', files', Named' \cap DOMAIN files') \cup FrameRecords(Carried')
    BY DEF Everything, HeldInAll, HeldIn, KeysIn, Holds, FrameRecords
  <1> QED
    BY <1>1, <1>2, <1>3

\* The records of the versions a table holds, one by one.
RecordAt(t, k) == [key |-> k, seq |-> t[k].seq, val |-> t[k].val]

LEMMA HeldInIs ==
    ASSUME NEW t \in Table
    PROVE  \A S : HeldIn(t) \subseteq S <=> \A k \in Keys : t[k].seq > 0 => RecordAt(t, k) \in S
  BY DEF HeldIn, KeysIn, Holds, RecordAt

LEMMA EmptyHolds == \A S : HeldIn(EmptyTable) \subseteq S
  BY DEF HeldIn, KeysIn, Holds, EmptyTable, NoVersion

\* A merge, a table cut short and a frame applied bring nothing new.
LEMMA MergeBrings ==
    ASSUME NEW T \in SUBSET Table, NEW S, \A t \in T : HeldIn(t) \subseteq S
    PROVE  HeldIn(MergeTables(T)) \subseteq S
  <1>1. MergeTables(T) \in Table
    BY MergeTablesType
  <1>2. ASSUME NEW k \in Keys, MergeTables(T)[k].seq > 0
        PROVE  RecordAt(MergeTables(T), k) \in S
    <2>1. PICK t \in T : MergeTables(T)[k] = t[k]
      BY <1>2, MergeHolds DEF NoVersion
    <2>2. RecordAt(t, k) \in S
      BY <1>2, <2>1, HeldInIs
    <2> QED
      BY <2>1, <2>2 DEF RecordAt
  <1> QED
    BY <1>1, <1>2, HeldInIs

LEMMA CutBrings ==
    ASSUME NEW t \in Table, NEW lost, NEW S, HeldIn(t) \subseteq S
    PROVE  HeldIn(CutShort(t, lost)) \subseteq S
  <1>1. CutShort(t, lost) \in Table
    BY CutShortType
  <1>2. ASSUME NEW k \in Keys, CutShort(t, lost)[k].seq > 0
        PROVE  RecordAt(CutShort(t, lost), k) \in S
    <2>1. CutShort(t, lost)[k] = t[k]
      BY <1>2 DEF CutShort, NoVersion
    <2>2. RecordAt(t, k) \in S
      BY <1>2, <2>1, HeldInIs
    <2> QED
      BY <2>1, <2>2 DEF RecordAt
  <1> QED
    BY <1>1, <1>2, HeldInIs

LEMMA ApplyBrings ==
    ASSUME NEW t \in Table, NEW f \in Frame, NEW S, HeldIn(t) \subseteq S, ToSet(f) \subseteq S
    PROVE  HeldIn(MemApply(t, f)) \subseteq S
  <1>1. MemApply(t, f) \in Table /\ f \in Seq(Record)
    BY MemApplyType DEF Frame
  <1>2. ASSUME NEW k \in Keys, MemApply(t, f)[k].seq > 0
        PROVE  RecordAt(MemApply(t, f), k) \in S
    <2>1. CASE MemApply(t, f)[k] = t[k]
      <3>1. RecordAt(t, k) \in S
        BY <1>2, <2>1, HeldInIs
      <3> QED
        BY <2>1, <3>1 DEF RecordAt
    <2>2. ASSUME NEW r \in ToSet(f), r.key = k, MemApply(t, f)[k] = VersionOf(r)
          PROVE  RecordAt(MemApply(t, f), k) \in S
      <3>1. r \in Record /\ r \in S
        BY <1>1, <2>2 DEF ToSet
      <3>2. RecordAt(MemApply(t, f), k) = r
        BY <2>2, <3>1 DEF RecordAt, VersionOf, Record
      <3> QED
        BY <3>1, <3>2
    <2>3. MemApply(t, f)[k] # NoVersion
      BY <1>2 DEF NoVersion
    <2> QED
      BY <1>1, <2>1, <2>2, <2>3, ApplyHolds
  <1> QED
    BY <1>1, <1>2, HeldInIs

-----------------------------------------------------------------------------
(* Only an append brings a frame.                                            *)

LEMMA CarriedKept ==
    ASSUME ToSet(frames') \subseteq Carried, ToSet(durable') \subseteq Carried,
           hist' \subseteq Carried, pending' \in {pending, <<>>}
    PROVE  Carried' \subseteq Carried \cup {<<>>}
  BY DEF Carried

LEMMA ToSetEmpty == ToSet(<<>>) = {}
  BY DEF ToSet

LEMMA FramesStep ==
    ASSUME TypeInv, [Next]_vars, ~\E ops \in Seq(Op) : ops # <<>> /\ BeginWrite(ops)
    PROVE  Carried' \subseteq Carried \cup {<<>>}
  <1>0. WALTypeOK
    BY DEF TypeInv, TypeOK
  <1>1. CASE \/ \E k \in Keys, v \in Vals : Put(k, v)
             \/ \E k \in Keys : Delete(k)
             \/ \E b \in Batches : WriteBatch(b) \/ WriteFails(b)
             \/ \E k \in Keys, v \in Contents : WriteFails(<<[key |-> k, val |-> v]>>)
    <2>1. PICK ops \in Seq(Op) : WriteFails(ops)
      BY <1>1, AppendsAreOps
    <2> QED
      BY <2>1 DEF WriteFails, AppendNothing, AppendTorn, dbVars, volatile, ghosts, Carried
  <1>2. CASE \E ro \in BOOLEAN : Open(ro)
    <2>1. PICK ro \in BOOLEAN : Open(ro)
      BY <1>2
    <2>2. hist' \subseteq hist \cup ToSet(frames)
      BY <2>1 DEF Open, RecoveredHist
    <2> QED
      BY <2>1, <2>2, CarriedKept DEF Open, RecoverLog, Carried
  <1>3. CASE OpenFails \/ Sync
    BY <1>3 DEF OpenFails, RecoverLog, Sync, Fsync, dbVars, volatile, ghosts, Carried
  <1>4. CASE FinishWrite
    BY <1>4, CarriedKept DEF FinishWrite, Fsync, Carried
  <1>5. CASE SyncFails \/ ReplayFrame \/ ReplayDone \/ ReplayCancelled
    BY <1>5, CarriedKept DEF SyncFails, ReplayFrame, ReplayDone, ReplayCancelled, walVars, ghosts,
       Carried
  <1>6. CASE FlushReset
    BY <1>6, CarriedKept, ToSetEmpty DEF FlushReset, ResetLog, ResetLogUnsynced, walVars, Carried
  <1>7. CASE Flush \/ FlushAlloc \/ FlushCreate \/ FlushFinish \/ FlushAdd \/ FlushOpen
    BY <1>7 DEF Flush, FlushAlloc, FlushCreate, FlushFinish, FlushAdd, FlushOpen, volatile, walVars,
       ghosts, Carried
  <1>8. CASE \/ Compact \/ MergeAlloc \/ MergeCreate \/ MergeFinish \/ MergeOpen
             \/ MergeReplace \/ MergeRemove \/ Close
    BY <1>8 DEF Compact, MergeAlloc, MergeCreate, MergeFinish, MergeOpen, MergeReplace,
       MergeRemove, Close, walVars, ghosts, Carried
  <1>9. CASE FinishClose \/ Kill
    BY <1>9, CarriedKept DEF FinishClose, Kill, Fsync, Forget, walVars, ghosts, Carried
  <1>10. CASE PowerLoss
    <2>1. PICK s \in Survivors : frames' = s /\ durable' = s
      BY <1>10 DEF PowerLoss, LosePower
    <2>2. ToSet(s) \subseteq Carried
      BY <1>0, SurvivorFrames DEF Carried
    <2> QED
      BY <1>10, <2>1, <2>2, CarriedKept DEF PowerLoss, Forget, ghosts, Carried
  <1>11. CASE UNCHANGED vars
    BY <1>11 DEF vars, walVars, dbVars, volatile, ghosts, Carried
  <1> QED
    BY <1>1, <1>2, <1>3, <1>4, <1>5, <1>6, <1>7, <1>8, <1>9, <1>10, <1>11
       DEF Next, StartOp, Continue, Crash

LEMMA NewFrameConsecutive ==
    ASSUME TypeInv, NEW ops \in Seq(Op), ops # <<>>, BeginWrite(ops)
    PROVE  /\ pending' \in Frame /\ Consecutive(pending')
           /\ \A r \in ToSet(pending') : nextSeq < r.seq /\ r.seq =< nextSeq'
           /\ \A r, s \in ToSet(pending') : r.seq = s.seq => r = s
           /\ Carried' \subseteq Carried \cup {pending'}
  <1> DEFINE f == NewFrame(ops)
  <1>1. nextSeq \in Nat /\ frames \in Seq(Frame)
    BY DEF TypeInv, TypeOK, WALTypeOK
  <1>2. f \in Frame
    BY <1>1, NewFrameType
  <1>3. Len(ops) \in Nat /\ Len(ops) > 0 /\ DOMAIN ops = 1 .. Len(ops)
    OBVIOUS
  <1>4. DOMAIN f = 1 .. Len(ops) /\ \A i \in 1 .. Len(ops) : f[i].seq = nextSeq + i
    BY <1>3 DEF NewFrame
  <1>5. /\ pending' = f /\ nextSeq' = nextSeq + Len(ops) /\ durable' = durable /\ hist' = hist
        /\ frames' = frames \/ frames' = Append(frames, f)
    BY DEF BeginWrite, AppendFrame, ghosts
  <1>6. Consecutive(f)
    BY <1>1, <1>3, <1>4 DEF Consecutive
  <1>7. ASSUME NEW r \in ToSet(f) PROVE nextSeq < r.seq /\ r.seq =< nextSeq'
    BY <1>1, <1>3, <1>4, <1>5 DEF ToSet
  <1>8. ASSUME NEW r \in ToSet(f), NEW s \in ToSet(f), r.seq = s.seq PROVE r = s
    <2>1. PICK i \in 1 .. Len(ops), j \in 1 .. Len(ops) : r = f[i] /\ s = f[j]
      BY <1>4 DEF ToSet
    <2>2. nextSeq + i = nextSeq + j
      BY <1>4, <1>8, <2>1
    <2>3. i = j
      BY <1>1, <2>2
    <2> QED
      BY <2>1, <2>3
  <1>9. ToSet(frames') \subseteq ToSet(frames) \cup {f}
    <2>1. ToSet(Append(frames, f)) \subseteq ToSet(frames) \cup {f}
      BY <1>1 DEF ToSet
    <2> QED
      BY <1>5, <2>1
  <1>10. Carried' \subseteq Carried \cup {f}
    BY <1>5, <1>9 DEF Carried
  <1> QED
    BY <1>2, <1>5, <1>6, <1>7, <1>8, <1>10

LEMMA FramesInit == Init => FramesInv
  <1>1. Init => frames = <<>> /\ durable = <<>> /\ hist = {} /\ pending = <<>>
    BY Zenon DEF Init, WALInit
  <1> QED
    BY <1>1, ToSetEmpty DEF FramesInv, Carried, Consecutive

LEMMA FramesNext == TypeInv /\ FramesInv /\ [Next]_vars => FramesInv'
  <1> SUFFICES ASSUME TypeInv, FramesInv, [Next]_vars PROVE FramesInv'
    OBVIOUS
  <1>1. Consecutive(<<>>)
    BY DEF Consecutive
  <1>2. CASE \E ops \in Seq(Op) : ops # <<>> /\ BeginWrite(ops)
    BY <1>2, NewFrameConsecutive DEF FramesInv
  <1>3. CASE ~\E ops \in Seq(Op) : ops # <<>> /\ BeginWrite(ops)
    BY <1>1, <1>3, FramesStep DEF FramesInv
  <1> QED
    BY <1>2, <1>3

-----------------------------------------------------------------------------
(* Nothing but an append brings a version.                                   *)

\* What TablesStep shows of each step.
NoNewTables ==
    /\ HeldIn(mem') \subseteq Everything
    /\ \A n \in Named' \cap DOMAIN files' : HeldIn(files'[n].data) \subseteq Everything

\* Steps that write no table to a named file.
LEMMA TablesKept ==
    ASSUME HeldIn(mem') \subseteq Everything,
           \A n \in Named' \cap DOMAIN files' :
                n \in Named \cap DOMAIN files /\ files'[n] = files[n]
    PROVE  NoNewTables
  BY EverythingHas DEF NoNewTables

LEMMA TablesForget ==
    ASSUME TypeInv, FilesInv, Forget, UNCHANGED <<files, mfDisk>>
    PROVE  NoNewTables
  <1>1. Named' = FileNos(mfDisk)
    BY DEF Forget, Named, FileNos, Written
  <1> QED
    BY <1>1, EmptyHolds, TablesKept DEF Forget, Named

LEMMA TablesQuiet ==
    ASSUME TypeInv, FilesInv,
           \/ \E ro \in BOOLEAN : Open(ro)
           \/ \E ops \in Seq(Op) : BeginWrite(ops) \/ WriteFails(ops)
           \/ OpenFails \/ ReplayFrame \/ ReplayDone \/ ReplayCancelled
           \/ Sync \/ FinishWrite \/ SyncFails \/ Flush \/ FlushReset
           \/ Close \/ FinishClose \/ Kill \/ PowerLoss
    PROVE  NoNewTables
  <1>1. CASE FinishClose \/ Kill \/ PowerLoss
    BY <1>1, TablesForget DEF FinishClose, Kill, PowerLoss
  <1>2. ASSUME UNCHANGED <<files, mfVars, tables>>, pc' \notin Written,
               HeldIn(mem') \subseteq Everything
        PROVE  NoNewTables
    <2>1. Named' \subseteq Named
      BY <1>2 DEF Named, mfVars, FileNos
    <2> QED
      BY <1>2, <2>1, TablesKept
  <1>3. HeldIn(mem) \subseteq Everything
    BY EverythingHas
  <1>4. CASE OpenFails \/ ReplayDone \/ ReplayCancelled
    BY <1>2, <1>3, <1>4 DEF OpenFails, ReplayDone, ReplayCancelled, StartClose, dbVars, volatile, Written
  <1>5. CASE Sync \/ SyncFails \/ Flush \/ FlushReset \/ Close
    BY <1>2, <1>3, <1>5 DEF Sync, SyncFails, Flush, FlushReset, FlushFails, Close, StartClose, dbVars,
       volatile, Written
  <1>6. CASE \E ops \in Seq(Op) : BeginWrite(ops) \/ WriteFails(ops)
    BY <1>2, <1>3, <1>6 DEF BeginWrite, WriteFails, CanWrite, dbVars, volatile, Written
  <1>7. CASE ReplayFrame
    <2>1. /\ frames[replayed + 1] \in Frame /\ frames[replayed + 1] \in Carried
          /\ mem' = MemApply(mem, frames[replayed + 1]) /\ mem \in Table
      BY <1>7 DEF ReplayFrame, TypeInv, TypeOK, WALTypeOK, SessionTypeOK, Carried, ToSet
    <2>2. HeldIn(mem') \subseteq Everything
      BY <1>3, <2>1, EverythingHas, ApplyBrings
    <2> QED
      BY <1>2, <1>7, <2>2 DEF ReplayFrame, Written
  <1>8. CASE FinishWrite
    <2>1. /\ pending \in Frame /\ pending \in Carried
          /\ mem' = MemApply(mem, pending) /\ mem \in Table
      BY <1>8 DEF FinishWrite, TypeInv, TypeOK, PcInv, SessionTypeOK, Carried
    <2>2. HeldIn(mem') \subseteq Everything
      BY <1>3, <2>1, EverythingHas, ApplyBrings
    <2> QED
      BY <1>2, <1>8, <2>2 DEF FinishWrite, Written
  <1>9. CASE \E ro \in BOOLEAN : Open(ro)
    <2>1. Named' = FileNos(mfDisk) /\ files' = files /\ mem' = mem
      BY <1>9 DEF Open, Named, Written, FileNos
    <2> QED
      BY <1>3, <2>1, TablesKept DEF Named
  <1> QED
    BY <1>1, <1>4, <1>5, <1>6, <1>7, <1>8, <1>9

LEMMA TablesFlush ==
    ASSUME TypeInv, FilesInv,
           FlushAlloc \/ FlushCreate \/ FlushFinish \/ FlushAdd \/ FlushOpen
    PROVE  NoNewTables
  <1>0. HeldIn(mem) \subseteq Everything
    BY EverythingHas
  <1>1. CASE FlushAlloc
    <2>1. /\ mem' = mem /\ files' = files /\ tables' = tables /\ pc' \notin Written
          /\ mf' = Alloc(mf) /\ mfDisk' \in {Alloc(mf), mfDisk}
      BY <1>1 DEF FlushAlloc, Update, UpdateUnsaved, FlushFails, Written
    <2>2. FileNos(Alloc(mf)) = FileNos(mf)
      BY MfTypes DEF FileNos, Alloc, MfState
    <2>3. Named' = FileNos(mf') \cup FileNos(mfDisk') \cup tables'
      BY <2>1 DEF Named, FileNos
    <2>4. Named' \subseteq Named
      BY <2>1, <2>2, <2>3 DEF Named
    <2> QED
      BY <1>0, <2>1, <2>4, TablesKept
  <1>2. CASE FlushCreate
    <2>1. /\ mem' = mem /\ tables' = tables /\ UNCHANGED mfVars /\ pc' = "flushFinish"
          /\ mf = mfDisk /\ \A n \in FileNos(mf) \cup tables : n < LastAllocated
          /\ \A m \in DOMAIN files \ {LastAllocated} : files'[m] = files[m]
          /\ DOMAIN files' = DOMAIN files \cup {LastAllocated}
      BY <1>2, WriteToEffect DEF FlushCreate, volatile, FilesInv, NewTableInv, Numbered
    <2>2. Named' \subseteq Named /\ LastAllocated \notin Named'
      BY <2>1, MfTypes DEF Named, mfVars, FileNos, Written
    <2> QED
      BY <1>0, <2>1, <2>2, TablesKept
  <1>3. CASE FlushFinish
    <2>1. /\ mem' = mem /\ tables' = tables /\ UNCHANGED mfVars /\ LastAllocated' = LastAllocated
          /\ mf = mfDisk /\ \A n \in FileNos(mf) \cup tables : n < LastAllocated
      BY <1>3 DEF FlushFinish, FilesInv, NewTableInv, Numbered, mfVars, LastAllocated
    <2>2. Named' \ {LastAllocated} \subseteq Named
      BY <2>1 DEF Named, mfVars, FileNos
    <2>3. LastAllocated \notin Named' \/ pc' \in Written
      BY <2>1, MfTypes DEF Named, mfVars, FileNos
    <2>4. CASE WriteTo(LastAllocated, TRUE, mem)
      BY <1>0, <2>1, <2>2, <2>4, EverythingHas DEF WriteTo, NoNewTables
    <2>5. CASE (files' = files \/ RemoveFiles({LastAllocated})) /\ pc' \notin Written
      <3>1. Named' \subseteq Named
        BY <2>2, <2>3, <2>5
      <3> QED
        BY <1>0, <2>1, <2>5, <3>1, TablesKept, RemoveFilesEffect
    <2> QED
      BY <1>3, <2>4, <2>5 DEF FlushFinish, FlushFails, Written
  <1>4. CASE FlushAdd
    <2> DEFINE meta == MetaOf(LastAllocated, 0, mem)
    <2>1. meta \in FileMeta /\ meta.no = LastAllocated
      BY MfTypes, MetaOfType DEF TypeInv, TypeOK, SessionTypeOK, MetaOf
    <2>2. FileNos(AddFile(mf, meta)) = FileNos(mf) \cup {LastAllocated}
      BY <2>1, MfTypes, FileNosOps
    <2>3. AddFile(mf, meta).nextFile = mf.nextFile
      BY <2>1, MfTypes, ManifestOps
    <2>4. /\ mem' = mem /\ tables' = tables /\ pc = "flushAdd"
          /\ mf' = AddFile(mf, meta) /\ mfDisk' \in {AddFile(mf, meta), mfDisk}
          /\ files' = files \/ RemoveFiles({LastAllocated})
      BY <1>4 DEF FlushAdd, Update, UpdateUnsaved
    <2>5. LastAllocated' = LastAllocated
      BY <2>3, <2>4 DEF LastAllocated
    <2>6. FileNos(mf)' = FileNos(mf') /\ FileNos(mfDisk)' = FileNos(mfDisk')
      BY DEF FileNos
    <2>7. Named' \subseteq Named
      BY <2>2, <2>4, <2>5, <2>6 DEF Named, Written
    <2> QED
      BY <1>0, <2>4, <2>7, TablesKept, RemoveFilesEffect
  <1>5. CASE FlushOpen
    <2>1. /\ mem' \in {mem, EmptyTable} /\ tables' \subseteq tables \cup {LastAllocated}
          /\ files' = files /\ UNCHANGED mfVars /\ pc = "flushOpen" /\ pc' \notin Written
      BY <1>5 DEF FlushOpen, FlushFails, Written
    <2>2. Named' \subseteq Named
      BY <2>1 DEF Named, mfVars, FileNos, Written
    <2>3. HeldIn(mem') \subseteq Everything
      BY <1>0, <2>1, EmptyHolds
    <2> QED
      BY <2>1, <2>2, <2>3, TablesKept
  <1> QED
    BY <1>1, <1>2, <1>3, <1>4, <1>5

LEMMA TablesCompact ==
    ASSUME TypeInv, FilesInv,
           \/ Compact \/ MergeAlloc \/ MergeCreate \/ MergeFinish \/ MergeOpen
           \/ MergeReplace \/ MergeRemove
    PROVE  NoNewTables
  <1>0. HeldIn(mem) \subseteq Everything
    BY EverythingHas
  <1>1. CASE MergeAlloc
    <2>1. /\ mem' = mem /\ files' = files /\ tables' = tables /\ pc' \notin Written
          /\ mf' = Alloc(mf) /\ mfDisk' \in {Alloc(mf), mfDisk}
      BY <1>1 DEF MergeAlloc, Update, UpdateUnsaved, MergeFails, Written
    <2>2. FileNos(Alloc(mf)) = FileNos(mf)
      BY MfTypes DEF FileNos, Alloc, MfState
    <2>3. Named' = FileNos(mf') \cup FileNos(mfDisk') \cup tables'
      BY <2>1 DEF Named, FileNos
    <2>4. Named' \subseteq Named
      BY <2>1, <2>2, <2>3 DEF Named
    <2> QED
      BY <1>0, <2>1, <2>4, TablesKept
  <1>2. CASE MergeCreate
    <2>1. /\ mem' = mem /\ tables' = tables /\ UNCHANGED mfVars /\ pc' \notin Written
          /\ mf = mfDisk /\ \A n \in FileNos(mf) \cup tables : n < LastAllocated
          /\ files' = files \/ WriteTo(LastAllocated, FALSE, EmptyTable)
      BY <1>2 DEF MergeCreate, MergeFails, FilesInv, NewTableInv, Numbered, Written
    <2>2. Named' \subseteq Named /\ LastAllocated \notin Named'
      BY <2>1, MfTypes DEF Named, mfVars, FileNos
    <2>3. ASSUME NEW n \in DOMAIN files', n # LastAllocated
          PROVE  n \in DOMAIN files /\ files'[n] = files[n]
      BY <2>1, <2>3 DEF WriteTo
    <2> QED
      BY <1>0, <2>1, <2>2, <2>3, TablesKept
  <1>3. CASE MergeFinish
    <2>1. /\ mem' = mem /\ tables' = tables /\ UNCHANGED mfVars /\ LastAllocated' = LastAllocated
          /\ mf = mfDisk /\ \A n \in FileNos(mf) \cup tables : n < LastAllocated
          /\ inputs \subseteq tables /\ inputs \subseteq DOMAIN files
      BY <1>3 DEF MergeFinish, FilesInv, NewTableInv, NumbersInv, Numbered, mfVars, LastAllocated,
         TypeInv, PcInv
    <2>2. Named' \ {LastAllocated} \subseteq Named
      BY <2>1 DEF Named, mfVars, FileNos
    <2>3. LastAllocated \notin Named' \/ pc' \in Written
      BY <2>1, MfTypes DEF Named, mfVars, FileNos
    <2>4. \A n \in inputs : files[n].data \in Table /\ HeldIn(files[n].data) \subseteq Everything
      BY <2>1, EverythingHas DEF TypeInv, TypeOK, FilesTypeOK, SSTFile, Named
    <2>5. DataOf(inputs) \in SUBSET Table /\ \A t \in DataOf(inputs) : HeldIn(t) \subseteq Everything
      BY <2>4 DEF DataOf
    <2>6. ASSUME NEW t, HeldIn(t) \subseteq Everything, WriteTo(LastAllocated, TRUE, t)
          PROVE  NoNewTables
      BY <1>0, <2>1, <2>2, <2>6, EverythingHas DEF WriteTo, NoNewTables
    <2>7. CASE WriteTo(LastAllocated, TRUE, MergeTables(DataOf(inputs)))
      BY <2>5, <2>6, <2>7, MergeBrings
    <2>8. ASSUME NEW n \in inputs, NEW lost,
                 WriteTo(LastAllocated, TRUE,
                         MergeTables(DataOf(inputs \ {n}) \cup {CutShort(files[n].data, lost)}))
          PROVE  NoNewTables
      <3> DEFINE T == DataOf(inputs \ {n}) \cup {CutShort(files[n].data, lost)}
      <3>1. DataOf(inputs \ {n}) \subseteq DataOf(inputs)
        BY DEF DataOf
      <3>2. CutShort(files[n].data, lost) \in Table
            /\ HeldIn(CutShort(files[n].data, lost)) \subseteq Everything
        BY <2>4, CutShortType, CutBrings
      <3>3. T \in SUBSET Table /\ \A t \in T : HeldIn(t) \subseteq Everything
        BY <2>5, <3>1, <3>2
      <3>4. HeldIn(MergeTables(T)) \subseteq Everything
        BY <3>3, MergeBrings
      <3> QED
        BY <2>6, <2>8, <3>4
    <2>9. CASE RemoveFiles({LastAllocated}) /\ pc' \notin Written
      <3>1. Named' \subseteq Named
        BY <2>2, <2>3, <2>9
      <3> QED
        BY <1>0, <2>1, <2>9, <3>1, TablesKept, RemoveFilesEffect
    <2> QED
      BY <1>3, <2>7, <2>8, <2>9 DEF MergeFinish, MergeFails, Written
  <1>4. CASE Compact \/ MergeOpen
    <2>1. /\ mem' = mem /\ tables' = tables /\ UNCHANGED mfVars /\ files' = files
          /\ pc' \in Written => pc \in Written
      BY <1>4 DEF Compact, MergeOpen, MergeFails, Written
    <2>2. Named' \subseteq Named
      BY <2>1 DEF Named, mfVars, FileNos, LastAllocated
    <2> QED
      BY <1>0, <2>1, <2>2, TablesKept
  <1>5. CASE MergeReplace
    <2> DEFINE meta == MetaOf(LastAllocated, 1, files[LastAllocated].data)
               replaced == Replace(mf, inputs, meta)
    <2>1. pc = "mergeReplace" /\ LastAllocated \in DOMAIN files
      BY <1>5 DEF MergeReplace, TypeInv, PcInv, HasOutput
    <2>2. meta \in FileMeta /\ meta.no = LastAllocated
      BY <2>1, MfTypes, MetaOfType DEF TypeInv, TypeOK, FilesTypeOK, SSTFile, MetaOf
    <2>3. FileNos(replaced) = (FileNos(mf) \ inputs) \cup {LastAllocated}
      BY <2>2, MfTypes, FileNosOps
    <2>4. replaced.nextFile = mf.nextFile
      BY <2>2, MfTypes, ManifestOps
    <2>5. /\ mem' = mem /\ tables' = tables /\ files' = files
          /\ mf' = replaced /\ mfDisk' \in {replaced, mfDisk}
      BY <1>5 DEF MergeReplace, Update, UpdateUnsaved
    <2>6. LastAllocated' = LastAllocated
      BY <2>4, <2>5 DEF LastAllocated
    <2>7. FileNos(mf)' = FileNos(mf') /\ FileNos(mfDisk)' = FileNos(mfDisk')
      BY DEF FileNos
    <2>8. Named' \subseteq Named
      BY <2>1, <2>3, <2>5, <2>6, <2>7 DEF Named, Written
    <2> QED
      BY <1>0, <2>5, <2>8, TablesKept
  <1>6. CASE MergeRemove
    <2>1. /\ mem' = mem /\ tables' \subseteq tables \cup {LastAllocated} /\ UNCHANGED mfVars
          /\ pc = "mergeRemove" /\ pc' \notin Written /\ RemoveFiles(inputs)
      BY <1>6 DEF MergeRemove, Written
    <2>2. Named' \subseteq Named
      BY <2>1 DEF Named, mfVars, FileNos, Written
    <2> QED
      BY <1>0, <2>1, <2>2, TablesKept, RemoveFilesEffect
  <1> QED
    BY <1>1, <1>2, <1>3, <1>4, <1>5, <1>6

LEMMA TablesStep == TypeInv /\ FilesInv /\ [Next]_vars => NoNewTables
  <1> SUFFICES ASSUME TypeInv, FilesInv, [Next]_vars PROVE NoNewTables
    OBVIOUS
  <1>1. CASE \/ \E k \in Keys, v \in Vals : Put(k, v)
             \/ \E k \in Keys : Delete(k)
             \/ \E b \in Batches : WriteBatch(b) \/ WriteFails(b)
             \/ \E k \in Keys, v \in Contents : WriteFails(<<[key |-> k, val |-> v]>>)
    BY <1>1, AppendsAreOps, TablesQuiet
  <1>2. CASE \/ \E ro \in BOOLEAN : Open(ro)
             \/ OpenFails \/ ReplayFrame \/ ReplayDone \/ ReplayCancelled
             \/ Sync \/ FinishWrite \/ SyncFails \/ Flush \/ FlushReset
             \/ Close \/ FinishClose \/ Kill \/ PowerLoss
    BY <1>2, TablesQuiet
  <1>3. CASE FlushAlloc \/ FlushCreate \/ FlushFinish \/ FlushAdd \/ FlushOpen
    BY <1>3, TablesFlush
  <1>4. CASE \/ Compact \/ MergeAlloc \/ MergeCreate \/ MergeFinish
             \/ MergeOpen \/ MergeReplace \/ MergeRemove
    BY <1>4, TablesCompact
  <1>5. CASE UNCHANGED vars
    <2>1. mem' = mem /\ files' = files /\ Named' = Named
      BY <1>5 DEF vars, mfVars, dbVars, volatile, Named, FileNos, LastAllocated
    <2> QED
      BY <2>1, TablesKept, EverythingHas
  <1> QED
    BY <1>1, <1>2, <1>3, <1>4, <1>5 DEF Next, StartOp, Continue, Crash

\* What there is after a step was there before it, or is in the frame appended.
LEMMA NothingNewNext ==
    ASSUME TypeInv, FilesInv, [Next]_vars, ~\E ops \in Seq(Op) : ops # <<>> /\ BeginWrite(ops)
    PROVE  Everything' \subseteq Everything
  <1>1. \A f \in Carried' : ToSet(f) \subseteq Everything
    BY FramesStep, ToSetEmpty, EverythingHas
  <1> QED
    BY <1>1, TablesStep, NothingNew DEF NoNewTables

-----------------------------------------------------------------------------
(* What MANIFEST notes of the log.  The number it notes only grows; what is  *)
(* durable starts the log or is noted; and if the fsync of a Reset may fail, *)
(* everything in the log is noted or in the memtable when it is cut, which   *)
(* is what makes the second of them survive that failure.                    *)

\* Either the fsync of a Reset does not fail or no other fsync and no Open does:
\* with both, the log may hold a frame that Reset cuts off and no table holds,
\* and its number is given out again.
ResetSafe == "walResetSync" \notin Faults \/ Faults \cap {"walSync", "cancel"} = {}

NotedOrHeld(f) ==
    \A r \in ToSet(f) : r.seq =< mfDisk.logSeq \/ \E k \in Keys : r.seq =< mem[k].seq

DurableNoted == IsPrefix(durable, frames) \/ \A s \in SeqsIn(durable) : s =< mfDisk.logSeq

LogNoted ==
    "walResetSync" \in Faults /\ pc # "down" =>
        \A i \in DOMAIN frames : \/ pc = "replay" /\ replayed < i
                                 \/ pc = "sync" /\ frames[i] = pending
                                 \/ NotedOrHeld(frames[i])

MemNoted == pc \in {"flushOpen", "flushReset"} => \A k \in Keys : mem[k].seq =< mfDisk.logSeq

NotedInv == mfDisk.logSeq =< mf.logSeq /\ DurableNoted /\ LogNoted /\ MemNoted

\* What is not in use is at rest.
RestInv ==
    /\ pc = "down" => mem = EmptyTable
    /\ pc # "sync" => pending = <<>>
    /\ pc # "replay" => replayed = 0

LEMMA LogSeqType ==
    ASSUME TypeInv
    PROVE  mf.logSeq \in Nat /\ mfDisk.logSeq \in Nat
  BY MfTypes DEF MfState

LEMMA LogSeqStep ==
    ASSUME TypeInv, mfDisk.logSeq =< mf.logSeq, [Next]_vars
    PROVE  mfDisk.logSeq =< mfDisk'.logSeq /\ mfDisk'.logSeq =< mf'.logSeq
  <1>0. mf.logSeq \in Nat /\ mfDisk.logSeq \in Nat
    BY LogSeqType
  <1>1. CASE UNCHANGED mfVars
    BY <1>0, <1>1 DEF mfVars
  <1>2. CASE mf' = mfDisk /\ mfDisk' = mfDisk
    BY <1>0, <1>2
  <1>3. ASSUME NEW m \in MfState, mf.logSeq =< m.logSeq, Update(m) \/ UpdateUnsaved(m)
        PROVE  mfDisk.logSeq =< mfDisk'.logSeq /\ mfDisk'.logSeq =< mf'.logSeq
    <2>1. m.logSeq \in Nat
      BY <1>3 DEF MfState
    <2> QED
      BY <1>0, <1>3, <2>1 DEF Update, UpdateUnsaved
  <1>4. Alloc(mf) \in MfState /\ mf.logSeq =< Alloc(mf).logSeq
    BY <1>0, MfTypes DEF Alloc, MfState
  <1>5. ASSUME NEW n \in Nat, NEW level \in {0, 1}, NEW t \in Table
        PROVE  /\ AddFile(mf, MetaOf(n, level, t)) \in MfState
               /\ mf.logSeq =< AddFile(mf, MetaOf(n, level, t)).logSeq
               /\ Replace(mf, inputs, MetaOf(n, level, t)) \in MfState
               /\ mf.logSeq =< Replace(mf, inputs, MetaOf(n, level, t)).logSeq
    <2>1. MetaOf(n, level, t) \in FileMeta
      BY MetaOfType
    <2>2. MetaOf(n, level, t).maxSeq \in Nat
      BY <2>1 DEF FileMeta
    <2> DEFINE meta == MetaOf(n, level, t)
    <2>3. AddFile(mf, meta) \in MfState /\ Replace(mf, inputs, meta) \in MfState
      BY <2>1, MfTypes, ManifestOps
    <2>4. /\ AddFile(mf, meta).logSeq = Larger(mf.logSeq, meta.maxSeq)
          /\ Replace(mf, inputs, meta).logSeq = Larger(mf.logSeq, meta.maxSeq)
      BY <2>1, MfTypes, ManifestFiles
    <2>5. mf.logSeq =< Larger(mf.logSeq, meta.maxSeq)
      BY <1>0, <2>2, LargerType
    <2> QED
      BY <2>3, <2>4, <2>5
  <1>6. CASE FlushAlloc \/ MergeAlloc
    BY <1>3, <1>4, <1>6 DEF FlushAlloc, MergeAlloc
  <1>7. CASE FlushAdd
    <2>1. mem \in Table
      BY DEF TypeInv, TypeOK, SessionTypeOK
    <2> QED
      BY <1>3, <1>5, <1>7, <2>1, MfTypes DEF FlushAdd
  <1>8. CASE MergeReplace
    <2>1. files[LastAllocated].data \in Table
      BY <1>8 DEF MergeReplace, TypeInv, TypeOK, FilesTypeOK, PcInv, HasOutput, SSTFile
    <2> QED
      BY <1>3, <1>5, <1>8, <2>1, MfTypes DEF MergeReplace
  <1>9. CASE \/ \E k \in Keys, v \in Vals : Put(k, v)
             \/ \E k \in Keys : Delete(k)
             \/ \E b \in Batches : WriteBatch(b) \/ WriteFails(b)
             \/ \E k \in Keys, v \in Contents : WriteFails(<<[key |-> k, val |-> v]>>)
    BY <1>1, <1>9, AppendsAreOps DEF BeginWrite, WriteFails
  <1>10. CASE \/ OpenFails \/ ReplayFrame \/ ReplayDone \/ ReplayCancelled
              \/ Sync \/ FinishWrite \/ SyncFails \/ Flush \/ FlushReset \/ Close
    BY <1>1, <1>10 DEF OpenFails, ReplayFrame, ReplayDone, ReplayCancelled, Sync, FinishWrite,
       SyncFails, Flush, FlushReset, Close
  <1>11. CASE \/ FlushCreate \/ FlushFinish \/ FlushOpen
              \/ Compact \/ MergeCreate \/ MergeFinish \/ MergeOpen \/ MergeRemove
    BY <1>1, <1>11 DEF FlushCreate, FlushFinish, FlushOpen, Compact, MergeCreate, MergeFinish,
       MergeOpen, MergeRemove
  <1>12. CASE (\E ro \in BOOLEAN : Open(ro)) \/ FinishClose \/ Kill \/ PowerLoss
    BY <1>2, <1>12 DEF Open, FinishClose, Kill, PowerLoss, Forget
  <1>13. CASE UNCHANGED vars
    BY <1>1, <1>13 DEF vars
  <1> QED
    BY <1>6, <1>7, <1>8, <1>9, <1>10, <1>11, <1>12, <1>13 DEF Next, StartOp, Continue, Crash

LEMMA RestStep ==
    ASSUME RestInv, [Next]_vars
    PROVE  RestInv'
  <1>1. CASE \/ \E k \in Keys, v \in Vals : Put(k, v)
             \/ \E k \in Keys : Delete(k)
             \/ \E b \in Batches : WriteBatch(b) \/ WriteFails(b)
             \/ \E k \in Keys, v \in Contents : WriteFails(<<[key |-> k, val |-> v]>>)
    BY <1>1, AppendsAreOps DEF BeginWrite, WriteFails, CanWrite, dbVars, volatile, RestInv
  <1>2. CASE (\E ro \in BOOLEAN : Open(ro)) \/ OpenFails \/ ReplayFrame \/ ReplayDone
    BY <1>2 DEF Open, OpenFails, ReplayFrame, ReplayDone, dbVars, volatile, RestInv
  <1>3. CASE ReplayCancelled \/ Close
    BY <1>3 DEF ReplayCancelled, Close, StartClose, RestInv
  <1>4. CASE Sync \/ FinishWrite \/ SyncFails \/ Flush \/ FlushReset
    BY <1>4 DEF Sync, FinishWrite, SyncFails, Flush, FlushReset, FlushFails, dbVars, volatile, RestInv
  <1>5. CASE FlushAlloc \/ FlushCreate \/ FlushFinish \/ FlushAdd \/ FlushOpen
    BY <1>5 DEF FlushAlloc, FlushCreate, FlushFinish, FlushAdd, FlushOpen, FlushFails, volatile, RestInv
  <1>6. CASE \/ Compact \/ MergeAlloc \/ MergeCreate \/ MergeFinish
             \/ MergeOpen \/ MergeReplace \/ MergeRemove
    BY <1>6 DEF Compact, MergeAlloc, MergeCreate, MergeFinish, MergeOpen, MergeReplace, MergeRemove,
       MergeFails, RestInv
  <1>7. CASE FinishClose \/ Kill \/ PowerLoss
    BY <1>7 DEF FinishClose, Kill, PowerLoss, Forget, RestInv
  <1>8. CASE UNCHANGED vars
    BY <1>8 DEF vars, dbVars, volatile, RestInv
  <1> QED
    BY <1>1, <1>2, <1>3, <1>4, <1>5, <1>6, <1>7, <1>8 DEF Next, StartOp, Continue, Crash

\* The numbers durable frames bear are noted, or in the log.
LEMMA DurableSeqs ==
    ASSUME TypeInv, DurableNoted
    PROVE  \A s \in SeqsIn(durable) : s \in SeqsIn(frames) \/ s =< mfDisk.logSeq
  <1>1. frames \in Seq(Frame) /\ durable \in Seq(Frame)
    BY DEF TypeInv, TypeOK, WALTypeOK
  <1> QED
    BY <1>1, PrefixSeqs DEF DurableNoted

LEMMA DurableKept ==
    ASSUME TypeInv, DurableNoted, mfDisk.logSeq =< mfDisk'.logSeq, mfDisk'.logSeq \in Nat,
           durable' = durable, frames' = frames
    PROVE  DurableNoted'
  <1>1. mfDisk.logSeq \in Nat /\ SeqsIn(durable) \subseteq Nat
    BY LogSeqType, SeqsInType DEF TypeInv, TypeOK, WALTypeOK
  <1>2. SeqsIn(durable)' = SeqsIn(durable)
    BY DEF SeqsIn
  <1>3. ASSUME \A s \in SeqsIn(durable) : s =< mfDisk.logSeq
        PROVE  \A s \in SeqsIn(durable) : s =< mfDisk'.logSeq
    <2>1. \A s \in SeqsIn(durable) : s \in Nat /\ s =< mfDisk.logSeq
      BY <1>1, <1>3
    <2> QED
      BY <1>1, <2>1
  <1> QED
    BY <1>2, <1>3 DEF DurableNoted

LEMMA DurableSynced ==
    ASSUME TypeInv', durable' = frames'
    PROVE  DurableNoted'
  <1>1. frames' \in Seq(Frame)
    BY DEF TypeInv, TypeOK, WALTypeOK
  <1>2. IsPrefix(frames', frames')
    BY <1>1, PrefixSelf
  <1> QED
    BY <1>2 DEF DurableNoted

LEMMA DurableReset ==
    ASSUME TypeInv, NotedInv, FlushReset, ResetLogUnsynced, "walResetSync" \in Faults,
           mfDisk' = mfDisk
    PROVE  DurableNoted'
  <1>1. frames \in Seq(Frame) /\ durable \in Seq(Frame) /\ mem \in Table
    BY DEF TypeInv, TypeOK, WALTypeOK, SessionTypeOK
  <1>2. mfDisk.logSeq \in Nat
    BY LogSeqType
  <1>3. pc = "flushReset" /\ durable' = durable
    BY DEF FlushReset, ResetLogUnsynced
  <1>4. ASSUME NEW i \in DOMAIN frames, NEW r \in ToSet(frames[i]) PROVE r.seq =< mfDisk.logSeq
    <2>1. NotedOrHeld(frames[i])
      BY <1>3 DEF NotedInv, LogNoted
    <2>2. r.seq =< mfDisk.logSeq \/ \E k \in Keys : r.seq =< mem[k].seq
      BY <1>4, <2>1 DEF NotedOrHeld
    <2>3. ASSUME NEW k \in Keys, r.seq =< mem[k].seq PROVE r.seq =< mfDisk.logSeq
      <3>1. mem[k].seq =< mfDisk.logSeq
        BY <1>3 DEF NotedInv, MemNoted
      <3>2. mem[k].seq \in Nat
        BY <1>1 DEF Table, Version
      <3>3. r.seq \in Nat
        <4>1. frames[i] \in Seq(Record)
          BY <1>1 DEF Frame
        <4>2. r \in Record
          BY <1>4, <4>1 DEF ToSet
        <4> QED
          BY <4>2 DEF Record
      <3> QED
        BY <1>2, <2>3, <3>1, <3>2, <3>3
    <2> QED
      BY <2>2, <2>3
  <1>5. Below(frames, mfDisk.logSeq)
    BY <1>1, <1>2, <1>4, BelowIntro
  <1>6. \A s \in SeqsIn(durable) : s =< mfDisk.logSeq
    BY <1>5, DurableSeqs DEF NotedInv, Below
  <1> QED
    BY <1>3, <1>6 DEF DurableNoted, SeqsIn

LEMMA DurableStep ==
    ASSUME TypeInv, TypeInv', NotedInv, [Next]_vars
    PROVE  DurableNoted'
  <1>1. mfDisk.logSeq =< mfDisk'.logSeq /\ mfDisk'.logSeq \in Nat
    BY LogSeqStep, MfTypes DEF NotedInv, MfState, TypeInv, TypeOK, ManifestTypeOK
  <1>2. CASE durable' = durable /\ frames' = frames
    BY <1>1, <1>2, DurableKept DEF NotedInv
  <1>3. CASE durable' = frames'
    BY <1>3, DurableSynced
  <1>4. CASE \/ \E k \in Keys, v \in Vals : Put(k, v)
             \/ \E k \in Keys : Delete(k)
             \/ \E b \in Batches : WriteBatch(b) \/ WriteFails(b)
             \/ \E k \in Keys, v \in Contents : WriteFails(<<[key |-> k, val |-> v]>>)
    <2>1. PICK ops \in Seq(Op) : ops # <<>> /\ (BeginWrite(ops) \/ WriteFails(ops))
      BY <1>4, AppendsAreOps
    <2>2. CASE WriteFails(ops)
      BY <1>2, <2>2 DEF WriteFails, AppendNothing, AppendTorn
    <2>3. CASE BeginWrite(ops)
      <3>1. frames \in Seq(Frame) /\ durable \in Seq(Frame) /\ NewFrame(ops) \in Frame
        BY <2>1, NewFrameType DEF TypeInv, TypeOK, WALTypeOK
      <3>2. /\ durable' = durable /\ mfDisk' = mfDisk
            /\ frames' = frames \/ frames' = Append(frames, NewFrame(ops))
        BY <2>3 DEF BeginWrite, AppendFrame, mfVars
      <3>3. IsPrefix(durable, frames) => IsPrefix(durable, frames')
        BY <3>1, <3>2, PrefixAppend
      <3> QED
        BY <3>2, <3>3 DEF NotedInv, DurableNoted, SeqsIn
    <2> QED
      BY <2>1, <2>2, <2>3
  <1>5. CASE FlushReset
    <2>1. CASE ResetLogUnsynced /\ "walResetSync" \in Faults
      BY <1>5, <2>1, DurableReset DEF FlushReset, mfVars
    <2>2. CASE ResetLog \/ UNCHANGED walVars
      BY <1>2, <1>3, <2>2 DEF ResetLog, walVars
    <2> QED
      BY <1>5, <2>1, <2>2 DEF FlushReset, Fault
  <1>6. CASE (\E ro \in BOOLEAN : Open(ro)) \/ OpenFails \/ ReplayFrame \/ ReplayDone \/ ReplayCancelled
    BY <1>2, <1>3, <1>6 DEF Open, OpenFails, RecoverLog, Fsync, ReplayFrame, ReplayDone,
       ReplayCancelled, walVars
  <1>7. CASE Sync \/ FinishWrite \/ SyncFails \/ Flush \/ Close
    BY <1>2, <1>3, <1>7 DEF Sync, Fsync, FinishWrite, SyncFails, Flush, Close, walVars
  <1>8. CASE FlushAlloc \/ FlushCreate \/ FlushFinish \/ FlushAdd \/ FlushOpen
    BY <1>2, <1>8 DEF FlushAlloc, FlushCreate, FlushFinish, FlushAdd, FlushOpen, walVars
  <1>9. CASE \/ Compact \/ MergeAlloc \/ MergeCreate \/ MergeFinish
             \/ MergeOpen \/ MergeReplace \/ MergeRemove
    BY <1>2, <1>9 DEF Compact, MergeAlloc, MergeCreate, MergeFinish, MergeOpen, MergeReplace,
       MergeRemove, walVars
  <1>10. CASE FinishClose \/ Kill \/ PowerLoss
    BY <1>2, <1>3, <1>10 DEF FinishClose, Fsync, Kill, PowerLoss, LosePower, walVars
  <1>11. CASE UNCHANGED vars
    BY <1>2, <1>11 DEF vars, walVars
  <1> QED
    BY <1>4, <1>5, <1>6, <1>7, <1>8, <1>9, <1>10, <1>11 DEF Next, StartOp, Continue, Crash

\* What a running session holds is numbered up to nextSeq.
LEMMA BoundedBy ==
    ASSUME TypeInv, GivenOut, pc # "down"
    PROVE  /\ nextSeq \in Nat
           /\ \A k \in Keys : mem[k].seq \in Nat /\ mem[k].seq =< nextSeq
           /\ \A f \in Carried : \A r \in ToSet(f) : r.seq =< nextSeq
           /\ \A n \in Named \cap DOMAIN files : \A k \in Keys : files[n].data[k].seq =< nextSeq
  <1>1. nextSeq \in Nat /\ mem \in Table
    BY DEF TypeInv, TypeOK, WALTypeOK, SessionTypeOK
  <1>2. ASSUME NEW t \in Table, HeldIn(t) \subseteq Everything, NEW k \in Keys
        PROVE  t[k].seq \in Nat /\ t[k].seq =< nextSeq
    <2>1. t[k].seq \in Nat
      BY DEF Table, Version
    <2>2. CASE t[k].seq > 0
      <3>1. RecordAt(t, k) \in Everything
        BY <1>2, <2>2, HeldInIs
      <3>2. RecordAt(t, k).seq = t[k].seq
        BY DEF RecordAt
      <3> QED
        BY <2>1, <3>1, <3>2 DEF GivenOut
    <2> QED
      BY <1>1, <2>1, <2>2
  <1>3. \A n \in DOMAIN files : files[n].data \in Table
    BY DEF TypeInv, TypeOK, FilesTypeOK, SSTFile
  <1> QED
    BY <1>1, <1>2, <1>3, EverythingHas DEF GivenOut

\* Applying a frame of the log keeps what was noted, and notes that frame.
LEMMA NotedApply ==
    ASSUME TypeInv, GivenOut, pc # "down", NEW f \in Carried, f \in Frame,
           mem' = MemApply(mem, f), mfDisk' = mfDisk
    PROVE  /\ NotedOrHeld(f)'
           /\ \A g \in Carried : g \in Frame /\ NotedOrHeld(g) => NotedOrHeld(g)'
  <1>1. mem \in Table /\ f \in Seq(Record) /\ mem' \in Table
    BY MemApplyType DEF TypeInv, TypeOK, SessionTypeOK, Frame
  <1>2. ASSUME NEW k \in Keys
        PROVE  /\ mem[k].seq =< mem'[k].seq
               /\ \A r \in ToSet(f) : r.key = k => r.seq =< mem'[k].seq
    BY <1>1, BoundedBy, ApplyAbove
  <1>3. ASSUME NEW g \in Frame, NEW r \in ToSet(g) PROVE r \in Record
    <2>1. g \in Seq(Record)
      BY DEF Frame
    <2> QED
      BY <1>3, <2>1 DEF ToSet
  <1>4. NotedOrHeld(f)'
    <2>1. ASSUME NEW r \in ToSet(f) PROVE \E k \in Keys : r.seq =< mem'[k].seq
      <3>1. r.key \in Keys
        BY <1>3 DEF Record
      <3> QED
        BY <1>2, <3>1
    <2> QED
      BY <2>1 DEF NotedOrHeld
  <1>5. ASSUME NEW g \in Frame, NotedOrHeld(g) PROVE NotedOrHeld(g)'
    <2>1. ASSUME NEW r \in ToSet(g), NEW k \in Keys, r.seq =< mem[k].seq
          PROVE  r.seq =< mem'[k].seq
      <3>1. r.seq \in Nat
        BY <1>3 DEF Record
      <3>2. mem[k].seq \in Nat /\ mem'[k].seq \in Nat
        BY <1>1 DEF Table, Version
      <3> QED
        BY <1>2, <2>1, <3>1, <3>2
    <2>2. ASSUME NEW r \in ToSet(g)
          PROVE  r.seq =< mfDisk'.logSeq \/ \E k \in Keys : r.seq =< mem'[k].seq
      BY <1>5, <2>1, <2>2 DEF NotedOrHeld
    <2> QED
      BY <2>2 DEF NotedOrHeld
  <1> QED
    BY <1>4, <1>5

\* Steps that leave the log and the memtable alone, or empty the memtable when
\* it is noted.
LEMMA NotedKept ==
    ASSUME TypeInv, TypeInv', NotedInv, frames' = frames, mfDisk.logSeq =< mfDisk'.logSeq,
           mem' = mem \/ pc = "flushOpen", pc \notin {"down", "replay", "sync"}
    PROVE  LogNoted'
  <1> SUFFICES ASSUME "walResetSync" \in Faults, NEW i \in DOMAIN frames
               PROVE  NotedOrHeld(frames[i])'
    BY DEF LogNoted, NotedOrHeld
  <1>1. NotedOrHeld(frames[i])
    BY DEF NotedInv, LogNoted
  <1>2. mfDisk.logSeq \in Nat /\ mfDisk'.logSeq \in Nat /\ mem \in Table
    BY MfTypes DEF MfState, TypeInv, TypeOK, ManifestTypeOK, SessionTypeOK
  <1>3. frames[i] \in Seq(Record)
    BY DEF TypeInv, TypeOK, WALTypeOK, Frame
  <1>4. ASSUME NEW r \in ToSet(frames[i])
        PROVE  r.seq =< mfDisk'.logSeq \/ \E k \in Keys : r.seq =< mem'[k].seq
    <2>1. r.seq \in Nat
      <3>1. r \in Record
        BY <1>3 DEF ToSet
      <3> QED
        BY <3>1 DEF Record
    <2>2. r.seq =< mfDisk.logSeq \/ \E k \in Keys : r.seq =< mem[k].seq
      BY <1>1 DEF NotedOrHeld
    <2>3. CASE r.seq =< mfDisk.logSeq
      BY <1>2, <2>1, <2>3
    <2>4. ASSUME NEW k \in Keys, r.seq =< mem[k].seq, pc = "flushOpen"
          PROVE  r.seq =< mfDisk'.logSeq
      <3>1. mem[k].seq =< mfDisk.logSeq
        BY <2>4 DEF NotedInv, MemNoted
      <3>2. mem[k].seq \in Nat
        BY <1>2 DEF Table, Version
      <3> QED
        BY <1>2, <2>1, <2>4, <3>1, <3>2
    <2> QED
      BY <2>2, <2>3, <2>4
  <1> QED
    BY <1>4 DEF NotedOrHeld

LEMMA LogNotedStep ==
    ASSUME ResetSafe, TypeInv, TypeInv', RestInv, GivenOut, NotedInv, [Next]_vars
    PROVE  LogNoted'
  <1> SUFFICES ASSUME "walResetSync" \in Faults, pc' # "down" PROVE LogNoted'
    BY DEF LogNoted
  <1>0. "walSync" \notin Faults /\ "cancel" \notin Faults
    BY DEF ResetSafe
  <1>1. mfDisk.logSeq =< mfDisk'.logSeq
    BY LogSeqStep DEF NotedInv
  <1>2. frames \in Seq(Frame)
    BY DEF TypeInv, TypeOK, WALTypeOK
  <1>3. CASE \/ \E k \in Keys, v \in Vals : Put(k, v)
             \/ \E k \in Keys : Delete(k)
             \/ \E b \in Batches : WriteBatch(b) \/ WriteFails(b)
             \/ \E k \in Keys, v \in Contents : WriteFails(<<[key |-> k, val |-> v]>>)
    <2>1. PICK ops \in Seq(Op) : ops # <<>> /\ (BeginWrite(ops) \/ WriteFails(ops))
      BY <1>3, AppendsAreOps
    <2>2. CASE WriteFails(ops)
      BY <1>1, <2>2, NotedKept DEF WriteFails, CanWrite, AppendNothing, AppendTorn, dbVars, volatile
    <2>3. CASE BeginWrite(ops)
      <3>1. /\ pc = "idle" /\ pc' = "sync" /\ pending' = NewFrame(ops)
            /\ mfDisk' = mfDisk /\ mem' = mem
            /\ frames' = frames \/ frames' = Append(frames, NewFrame(ops))
        BY <2>3 DEF BeginWrite, CanWrite, AppendFrame, mfVars
      <3>2. NewFrame(ops) \in Frame
        BY <2>1, NewFrameType DEF TypeInv, TypeOK, WALTypeOK
      <3>3. ASSUME NEW i \in DOMAIN frames'
            PROVE  frames'[i] = pending' \/ (i \in DOMAIN frames /\ frames'[i] = frames[i])
        <4>1. CASE frames' = frames
          BY <4>1
        <4>2. CASE frames' = Append(frames, NewFrame(ops))
          <5>1. /\ DOMAIN frames = 1 .. Len(frames) /\ Len(frames) \in Nat
                /\ DOMAIN frames' = 1 .. Len(frames) + 1
                /\ frames'[Len(frames) + 1] = NewFrame(ops)
                /\ \A j \in 1 .. Len(frames) : frames'[j] = frames[j]
            BY <1>2, <3>2, <4>2
          <5>2. i = Len(frames) + 1 \/ i \in 1 .. Len(frames)
            BY <3>3, <5>1
          <5>3. CASE i = Len(frames) + 1
            BY <3>1, <5>1, <5>3
          <5>4. CASE i \in 1 .. Len(frames)
            BY <5>1, <5>4
          <5> QED
            BY <5>2, <5>3, <5>4
        <4> QED
          BY <3>1, <4>1, <4>2
      <3>4. \A i \in DOMAIN frames : NotedOrHeld(frames[i])
        BY <3>1 DEF NotedInv, LogNoted
      <3>5. ASSUME NEW i \in DOMAIN frames', i \in DOMAIN frames, frames'[i] = frames[i]
            PROVE  NotedOrHeld(frames[i])'
        BY <3>1, <3>4, <3>5 DEF NotedOrHeld
      <3> QED
        BY <3>1, <3>3, <3>5 DEF LogNoted
    <2> QED
      BY <2>1, <2>2, <2>3
  <1>4. CASE \E ro \in BOOLEAN : Open(ro)
    <2>1. pc' = "replay" /\ replayed' = 0 /\ frames' = frames
      BY <1>4 DEF Open, RecoverLog, RestInv
    <2>2. \A i \in DOMAIN frames : 0 < i
      BY <1>2
    <2> QED
      BY <2>1, <2>2 DEF LogNoted
  <1>5. CASE OpenFails \/ ReplayCancelled \/ SyncFails
    BY <1>0, <1>5 DEF OpenFails, dbVars, ReplayCancelled, SyncFails, Fault
  <1>6. CASE ReplayFrame
    <2>1. /\ pc = "replay" /\ replayed \in Nat /\ replayed < Len(frames) /\ replayed' = replayed + 1
          /\ mem' = MemApply(mem, frames[replayed + 1]) /\ frames' = frames /\ mfDisk' = mfDisk
          /\ pc' = "replay"
      BY <1>6 DEF ReplayFrame, walVars, mfVars, TypeInv, TypeOK, SessionTypeOK
    <2>2. \A i \in DOMAIN frames : frames[i] \in Frame /\ frames[i] \in Carried /\ i \in Nat
      BY <1>2 DEF Carried, ToSet
    <2>3. replayed + 1 \in DOMAIN frames
      BY <1>2, <2>1
    <2>4. PICK f : f = frames[replayed + 1]
      OBVIOUS
    <2>5. /\ NotedOrHeld(f)'
          /\ \A g \in Carried : g \in Frame /\ NotedOrHeld(g) => NotedOrHeld(g)'
      BY <2>1, <2>2, <2>3, <2>4, NotedApply
    <2>6. ASSUME NEW i \in DOMAIN frames, ~(replayed' < i), NEW g, g = frames[i]
          PROVE  NotedOrHeld(g)'
      <3>1. CASE i = replayed + 1
        BY <2>4, <2>5, <2>6, <3>1
      <3>2. CASE ~(replayed < i)
        <4>1. NotedOrHeld(g)
          BY <2>1, <2>6, <3>2 DEF NotedInv, LogNoted
        <4> QED
          BY <2>2, <2>5, <2>6, <4>1
      <3> QED
        BY <2>1, <2>2, <2>6, <3>1, <3>2
    <2> QED
      BY <2>1, <2>6 DEF LogNoted, NotedOrHeld
  <1>7. CASE ReplayDone
    <2>1. /\ pc = "replay" /\ replayed = Len(frames) /\ pc' = "idle"
          /\ frames' = frames /\ mem' = mem /\ mfDisk' = mfDisk
      BY <1>7 DEF ReplayDone, walVars, mfVars
    <2>2. \A i \in DOMAIN frames : ~(replayed < i)
      BY <1>2, <2>1
    <2>3. \A i \in DOMAIN frames : NotedOrHeld(frames[i])
      BY <2>1, <2>2 DEF NotedInv, LogNoted
    <2> QED
      BY <2>1, <2>3 DEF LogNoted, NotedOrHeld
  <1>8. CASE FinishWrite
    <2>1. /\ pc = "sync" /\ pc' \in {"flushAlloc", "idle"} /\ frames' = frames /\ mfDisk' = mfDisk
          /\ mem' = MemApply(mem, pending) /\ pending \in Frame /\ pending \in Carried
      BY <1>8 DEF FinishWrite, mfVars, TypeInv, TypeOK, PcInv, SessionTypeOK, Carried
    <2>2. \A i \in DOMAIN frames : frames[i] \in Frame /\ frames[i] \in Carried
      BY <1>2 DEF Carried, ToSet
    <2>3. \A i \in DOMAIN frames : frames[i] = pending \/ NotedOrHeld(frames[i])
      BY <2>1 DEF NotedInv, LogNoted
    <2>4. \A i \in DOMAIN frames : NotedOrHeld(frames[i])'
      BY <2>1, <2>2, <2>3, NotedApply
    <2> QED
      BY <2>1, <2>4 DEF LogNoted, NotedOrHeld
  <1>9. CASE FlushReset
    <2>1. CASE frames' = <<>>
      BY <2>1 DEF LogNoted
    <2>2. CASE UNCHANGED walVars
      BY <1>1, <1>9, <2>2, NotedKept DEF FlushReset, walVars
    <2> QED
      BY <1>9, <2>1, <2>2 DEF FlushReset, ResetLog, ResetLogUnsynced
  <1>10. CASE Sync \/ Flush \/ FlushAlloc \/ FlushCreate \/ FlushFinish \/ FlushAdd \/ FlushOpen
    BY <1>1, <1>10, NotedKept DEF Sync, Flush, FlushAlloc, FlushCreate, FlushFinish, FlushAdd,
       FlushOpen, dbVars, volatile, walVars
  <1>11. CASE \/ Compact \/ MergeAlloc \/ MergeCreate \/ MergeFinish
              \/ MergeOpen \/ MergeReplace \/ MergeRemove \/ Close
    BY <1>1, <1>11, NotedKept DEF Compact, MergeAlloc, MergeCreate, MergeFinish, MergeOpen,
       MergeReplace, MergeRemove, Close, walVars
  <1>12. CASE FinishClose \/ Kill \/ PowerLoss
    BY <1>12 DEF FinishClose, Kill, PowerLoss, Forget
  <1>13. CASE UNCHANGED vars
    BY <1>13 DEF vars, walVars, mfVars, dbVars, volatile, NotedInv, LogNoted, NotedOrHeld
  <1> QED
    BY <1>3, <1>4, <1>5, <1>6, <1>7, <1>8, <1>9, <1>10, <1>11, <1>12, <1>13
       DEF Next, StartOp, Continue, Crash

LEMMA MemNotedStep ==
    ASSUME TypeInv, TypeInv', NotedInv, [Next]_vars
    PROVE  MemNoted'
  <1>1. CASE FlushAdd
    <2>1. mem \in Table /\ mem' = mem /\ MaxSeqOf(mem) \in Nat
      BY <1>1, MaxSeqOfType DEF FlushAdd, TypeInv, TypeOK, SessionTypeOK
    <2> DEFINE meta == MetaOf(LastAllocated, 0, mem)
    <2>2. meta \in FileMeta /\ meta.maxSeq = MaxSeqOf(mem)
      BY <2>1, MfTypes, MetaOfType DEF MetaOf
    <2>3. AddFile(mf, meta).logSeq = Larger(mf.logSeq, MaxSeqOf(mem))
      BY <2>2, MfTypes, ManifestFiles
    <2>4. pc' \in {"flushOpen", "flushReset"} => mfDisk' = AddFile(mf, meta)
      BY <1>1 DEF FlushAdd, Update, FlushFails
    <2>5. MaxSeqOf(mem) =< Larger(mf.logSeq, MaxSeqOf(mem)) /\ Larger(mf.logSeq, MaxSeqOf(mem)) \in Nat
      BY <2>1, LogSeqType, LargerType
    <2>6. ASSUME NEW k \in Keys PROVE mem[k].seq =< Larger(mf.logSeq, MaxSeqOf(mem))
      <3>1. mem[k].seq \in Nat /\ mem[k].seq =< MaxSeqOf(mem)
        BY <2>1, MaxSeqOfBound DEF Table, Version
      <3> QED
        BY <2>1, <2>5, <3>1
    <2> QED
      BY <2>1, <2>3, <2>4, <2>6 DEF MemNoted
  <1>2. CASE FlushOpen
    <2>1. pc' \in {"flushOpen", "flushReset"} => mem' = EmptyTable
      BY <1>2 DEF FlushOpen, FlushFails
    <2>2. mfDisk'.logSeq \in Nat
      BY MfTypes DEF MfState, TypeInv, TypeOK, ManifestTypeOK
    <2> QED
      BY <2>1, <2>2 DEF MemNoted, EmptyTable, NoVersion
  <1>3. CASE UNCHANGED vars
    BY <1>3 DEF vars, dbVars, volatile, mfVars, NotedInv, MemNoted
  <1>4. CASE pc' \notin {"flushOpen", "flushReset"}
    BY <1>4 DEF MemNoted
  <1>5. CASE \/ \E k \in Keys, v \in Vals : Put(k, v)
             \/ \E k \in Keys : Delete(k)
             \/ \E b \in Batches : WriteBatch(b) \/ WriteFails(b)
             \/ \E k \in Keys, v \in Contents : WriteFails(<<[key |-> k, val |-> v]>>)
    BY <1>4, <1>5, AppendsAreOps DEF BeginWrite, WriteFails, CanWrite, dbVars
  <1>6. CASE \/ \E ro \in BOOLEAN : Open(ro)
             \/ OpenFails \/ ReplayFrame \/ ReplayDone \/ ReplayCancelled \/ Close
    BY <1>4, <1>6 DEF Open, OpenFails, ReplayFrame, ReplayDone, ReplayCancelled, Close, StartClose, dbVars
  <1>7. CASE Sync \/ FinishWrite \/ SyncFails \/ Flush \/ FlushReset
    BY <1>4, <1>7 DEF Sync, FinishWrite, SyncFails, Flush, FlushReset, FlushFails, dbVars
  <1>8. CASE FlushAlloc \/ FlushCreate \/ FlushFinish
    BY <1>4, <1>8 DEF FlushAlloc, FlushCreate, FlushFinish, FlushFails
  <1>9. CASE \/ Compact \/ MergeAlloc \/ MergeCreate \/ MergeFinish
             \/ MergeOpen \/ MergeReplace \/ MergeRemove
    BY <1>4, <1>9 DEF Compact, MergeAlloc, MergeCreate, MergeFinish, MergeOpen, MergeReplace,
       MergeRemove, MergeFails
  <1>10. CASE FinishClose \/ Kill \/ PowerLoss
    BY <1>4, <1>10 DEF FinishClose, Kill, PowerLoss, Forget
  <1> QED
    BY <1>1, <1>2, <1>3, <1>5, <1>6, <1>7, <1>8, <1>9, <1>10 DEF Next, StartOp, Continue, Crash

-----------------------------------------------------------------------------
(* Numbers are given out once.                                               *)

\* Within a session the numbering goes up.
LEMMA NumberingStep ==
    ASSUME TypeInv, [Next]_vars, pc # "down", pc' # "down"
    PROVE  nextSeq =< nextSeq'
  <1>0. nextSeq \in Nat
    BY DEF TypeInv, TypeOK, WALTypeOK
  <1>1. CASE \/ \E k \in Keys, v \in Vals : Put(k, v)
             \/ \E k \in Keys : Delete(k)
             \/ \E b \in Batches : WriteBatch(b) \/ WriteFails(b)
             \/ \E k \in Keys, v \in Contents : WriteFails(<<[key |-> k, val |-> v]>>)
    <2>1. PICK ops \in Seq(Op) : ops # <<>> /\ (BeginWrite(ops) \/ WriteFails(ops))
      BY <1>1, AppendsAreOps
    <2>2. nextSeq' = nextSeq + Len(ops) /\ Len(ops) \in Nat
      BY <2>1 DEF BeginWrite, WriteFails, AppendFrame, AppendNothing, AppendTorn
    <2> QED
      BY <1>0, <2>2
  <1>2. CASE FlushReset
    <2>1. files[LastAllocated].data \in Table
      BY <1>2 DEF TypeInv, TypeOK, FilesTypeOK, PcInv, HasOutput, FlushReset, SSTFile
    <2>2. nextSeq =< Larger(nextSeq, MaxSeqOf(files[LastAllocated].data))
      BY <1>0, <2>1, MaxSeqOfType, LargerType
    <2> QED
      BY <1>0, <1>2, <2>2 DEF FlushReset, walVars
  <1>9. CASE UNCHANGED walVars
    BY <1>0, <1>9 DEF walVars
  <1>3. CASE (\E ro \in BOOLEAN : Open(ro)) \/ OpenFails \/ FinishClose \/ Kill \/ PowerLoss
    BY <1>3 DEF Open, OpenFails, FinishClose, Kill, PowerLoss, Forget
  <1>4. CASE ReplayFrame \/ ReplayDone \/ ReplayCancelled \/ Close
    BY <1>9, <1>4 DEF ReplayFrame, ReplayDone, ReplayCancelled, Close
  <1>5. CASE Sync \/ FinishWrite \/ SyncFails \/ Flush
    BY <1>0, <1>5 DEF Sync, FinishWrite, SyncFails, Flush, walVars
  <1>6. CASE FlushAlloc \/ FlushCreate \/ FlushFinish \/ FlushAdd \/ FlushOpen
    BY <1>9, <1>6 DEF FlushAlloc, FlushCreate, FlushFinish, FlushAdd, FlushOpen
  <1>7. CASE \/ Compact \/ MergeAlloc \/ MergeCreate \/ MergeFinish
             \/ MergeOpen \/ MergeReplace \/ MergeRemove
    BY <1>9, <1>7 DEF Compact, MergeAlloc, MergeCreate, MergeFinish, MergeOpen, MergeReplace,
       MergeRemove
  <1>8. CASE UNCHANGED vars
    BY <1>9, <1>8 DEF vars
  <1> QED
    BY <1>1, <1>2, <1>3, <1>4, <1>5, <1>6, <1>7, <1>8 DEF Next, StartOp, Continue, Crash

\* Its last number is the highest of a frame.
LEMMA LastIsHighest ==
    ASSUME NEW f \in Frame, Consecutive(f), NEW r \in ToSet(f)
    PROVE  r.seq \in Nat /\ r.seq > 0 /\ f[1].seq =< r.seq /\ r.seq =< LastSeq(f)
  <1>1. f \in Seq(Record) /\ Len(f) \in Nat /\ Len(f) > 0 /\ DOMAIN f = 1 .. Len(f)
    BY DEF Frame
  <1>2. PICK i \in 1 .. Len(f) : r = f[i]
    BY <1>1 DEF ToSet
  <1>3. f[1].seq \in Nat /\ f[1].seq > 0
    <2>1. f[1] \in Record
      BY <1>1
    <2> QED
      BY <1>1, <2>1 DEF Consecutive, Record
  <1>4. f[i].seq = f[1].seq + (i - 1) /\ f[Len(f)].seq = f[1].seq + (Len(f) - 1)
    BY <1>1 DEF Consecutive
  <1> QED
    BY <1>1, <1>2, <1>3, <1>4 DEF LastSeq

\* An Open resumes the numbering above everything it finds.
LEMMA GivenOutOpen ==
    ASSUME TypeInv, TypeInv', MetaInv, OrderInv, OrderInv', FramesInv', RestInv, NotedInv,
           NEW ro \in BOOLEAN, Open(ro)
    PROVE  GivenOut'
  <1>1. /\ frames' = frames /\ durable' = durable /\ pc = "down" /\ pc' = "replay"
        /\ nextSeq' = Larger(HighestSeq(SeqsIn(frames)), SeqFloor(mfDisk))
        /\ \A n \in FileNos(mfDisk) : Readable(n)
        /\ mem' = mem /\ files' = files /\ pending' = pending
        /\ mf' = mfDisk /\ mfDisk' = mfDisk /\ tables' = FileNos(mfDisk)
    BY DEF Open, RecoverLog
  <1>2. /\ frames \in Seq(Frame) /\ durable \in Seq(Frame) /\ mfDisk \in MfState
        /\ nextSeq' \in Nat /\ hist' \subseteq Frame
    BY DEF TypeInv, TypeOK, WALTypeOK, ManifestTypeOK, GhostTypeOK
  <1>3. SeqsIn(frames) \in SUBSET Nat /\ SeqsIn(durable) \in SUBSET Nat
    BY <1>2, SeqsInType
  <1>4. /\ HighestSeq(SeqsIn(frames)) \in Nat /\ SeqFloor(mfDisk) \in Nat
        /\ HighestSeq(SeqsIn(frames)) =< nextSeq' /\ SeqFloor(mfDisk) =< nextSeq'
    BY <1>1, <1>2, <1>3, HighestSeqType, SeqFloorType, LargerType
  <1>5. PICK b \in Nat : Below(frames, b)
    BY DEF OrderInv, LogBounded
  <1>6. ASSUME NEW s \in SeqsIn(frames) PROVE s =< nextSeq'
    <2>1. s =< HighestSeq(SeqsIn(frames)) /\ s \in Nat
      BY <1>3, <1>5, HighestSeqBound DEF Below
    <2> QED
      BY <1>2, <1>4, <2>1
  <1>7. mfDisk.logSeq \in Nat /\ mfDisk.logSeq =< nextSeq'
    <2>1. mfDisk.logSeq \in Nat /\ {f.maxSeq : f \in mfDisk.files} \in SUBSET Nat
      BY <1>2 DEF MfState, FileMeta
    <2>2. mfDisk.logSeq =< SeqFloor(mfDisk)
      BY <2>1, HighestSeqType, LargerType DEF SeqFloor
    <2> QED
      BY <1>2, <1>4, <2>1, <2>2
  <1>8. ASSUME NEW s \in SeqsIn(durable) PROVE s =< nextSeq'
    <2>1. s \in SeqsIn(frames) \/ s =< mfDisk.logSeq
      BY DurableSeqs DEF NotedInv
    <2>2. s \in Nat
      BY <1>3
    <2> QED
      BY <1>2, <1>6, <1>7, <2>1, <2>2
  <1>9. ASSUME NEW f \in Carried', NEW r \in ToSet(f) PROVE r.seq =< nextSeq'
    <2>1. CASE f \in ToSet(frames)
      <3>1. r.seq \in SeqsIn(frames)
        BY <1>9, <2>1 DEF SeqsIn, FrameRecords
      <3> QED
        BY <1>6, <3>1
    <2>2. CASE f \in ToSet(durable)
      <3>1. r.seq \in SeqsIn(durable)
        BY <1>9, <2>2 DEF SeqsIn, FrameRecords
      <3> QED
        BY <1>8, <3>1
    <2>3. CASE f \in hist'
      <3>1. f \in Frame /\ Consecutive(f)
        BY <1>2, <2>3 DEF FramesInv, Consecutive, Carried
      <3>2. LastSeq(f) =< nextSeq' /\ LastSeq(f) \in Nat
        BY <1>1, <2>3, <3>1, LastSeqType DEF OrderInv, LastSeq
      <3> QED
        BY <1>2, <1>9, <3>1, <3>2, LastIsHighest
    <2>4. CASE f = <<>>
      BY <1>9, <2>4, ToSetEmpty
    <2> QED
      BY <1>1, <2>1, <2>2, <2>3, <2>4 DEF Carried, RestInv
  <1>10. ASSUME NEW n \in FileNos(mfDisk), NEW r \in HeldIn(files[n].data) PROVE r.seq =< nextSeq'
    <2>1. PICK k \in Keys : r.seq = files[n].data[k].seq
      BY <1>10 DEF HeldIn, KeysIn
    <2>2. r.seq \in TableSeqs
      BY <2>1 DEF TableSeqs, DataOf
    <2>3. r.seq \in Nat /\ r.seq =< SeqFloor(mfDisk)
      BY <1>1, <2>2, TableSeqsBound
    <2> QED
      BY <1>2, <1>4, <2>3
  <1>11. Named' = FileNos(mfDisk)
    BY <1>1 DEF Named, FileNos, Written
  <1>12. \A r \in Everything' : r.seq =< nextSeq'
    <2>1. mem' = EmptyTable
      BY <1>1 DEF RestInv
    <2>2. Everything' = HeldInAll(EmptyTable, files, FileNos(mfDisk) \cap DOMAIN files)
                            \cup FrameRecords(Carried')
      BY <1>1, <1>11, <2>1 DEF Everything, HeldInAll, HeldIn, KeysIn, Holds, FrameRecords
    <2> DEFINE H == HeldInAll(EmptyTable, files, FileNos(mfDisk) \cap DOMAIN files)
               S == {r \in H : r.seq =< nextSeq'}
    <2>3. \A r \in H : r.seq =< nextSeq'
      <3>1. HeldIn(EmptyTable) \subseteq S
        BY EmptyHolds
      <3>2. \A n \in FileNos(mfDisk) \cap DOMAIN files : HeldIn(files[n].data) \subseteq H
        BY HeldInAllIs
      <3>3. \A n \in FileNos(mfDisk) \cap DOMAIN files : HeldIn(files[n].data) \subseteq S
        BY <1>10, <3>2
      <3>4. H \subseteq S
        <4> HIDE DEF S
        <4> QED
          BY <3>1, <3>3, HeldInAllIs
      <3> QED
        BY <3>4
    <2>4. \A r \in FrameRecords(Carried') : r.seq =< nextSeq'
      BY <1>9 DEF FrameRecords
    <2> QED
      BY <2>2, <2>3, <2>4
  <1> QED
    BY <1>12 DEF GivenOut

\* The frame of an append is all that is new, and numbered above the rest.
LEMMA AppendAdds ==
    ASSUME TypeInv, FilesInv, [Next]_vars, NEW ops \in Seq(Op), ops # <<>>, BeginWrite(ops)
    PROVE  Everything' \subseteq Everything \cup ToSet(pending')
  <1> DEFINE S == Everything \cup ToSet(pending')
  <1>1. NoNewTables
    BY TablesStep
  <1>2. HeldInAll(mem', files', Named' \cap DOMAIN files') \subseteq S
    BY <1>1, HeldInAllIs DEF NoNewTables
  <1>3. \A f \in Carried' : ToSet(f) \subseteq S
    BY NewFrameConsecutive, EverythingHas
  <1>4. FrameRecords(Carried') \subseteq S
    BY <1>3 DEF FrameRecords
  <1>5. Everything' = HeldInAll(mem', files', Named' \cap DOMAIN files') \cup FrameRecords(Carried')
    BY DEF Everything, HeldInAll, HeldIn, KeysIn, Holds, FrameRecords
  <1> QED
    BY <1>2, <1>4, <1>5

AgreeInv == Unique /\ GivenOut /\ FramesInv /\ RestInv /\ NotedInv

LEMMA AgreeInit == Init => AgreeInv
  <1> SUFFICES ASSUME Init PROVE AgreeInv
    OBVIOUS
  <1>1. frames = <<>> /\ durable = <<>> /\ hist = {} /\ pending = <<>> /\ pc = "down"
    BY Zenon DEF Init, WALInit
  <1>2. mem = EmptyTable /\ replayed = 0 /\ DOMAIN files = {}
    BY DEF Init
  <1>3. mf.logSeq = 0 /\ mfDisk.logSeq = 0
    BY DEF Init, ManifestInit, NewManifest
  <1>4. Everything = {}
    <2>1. HeldInAll(mem, files, Named \cap DOMAIN files) \subseteq {}
      BY <1>2, EmptyHolds, HeldInAllIs
    <2>2. FrameRecords(Carried) = {}
      BY <1>1, ToSetEmpty DEF FrameRecords, Carried
    <2> QED
      BY <2>1, <2>2 DEF Everything
  <1>5. Unique /\ GivenOut
    BY <1>4 DEF Unique, GivenOut
  <1>6. FramesInv /\ RestInv
    BY <1>1, <1>2, FramesInit DEF RestInv
  <1>7. SeqsIn(durable) = {}
    BY <1>1, ToSetEmpty DEF SeqsIn, FrameRecords
  <1>8. NotedInv
    BY <1>1, <1>3, <1>7 DEF NotedInv, DurableNoted, LogNoted, MemNoted
  <1> QED
    BY <1>5, <1>6, <1>8 DEF AgreeInv

LEMMA EverythingNumbers ==
    ASSUME TypeInv
    PROVE  \A r \in Everything : r.seq \in Nat
  <1> DEFINE N == {r \in Everything : r.seq \in Nat}
  <1>1. ASSUME NEW t \in Table, HeldIn(t) \subseteq Everything PROVE HeldIn(t) \subseteq N
    BY <1>1 DEF HeldIn, KeysIn, Table, Version
  <1>2. mem \in Table /\ \A n \in DOMAIN files : files[n].data \in Table
    BY DEF TypeInv, TypeOK, SessionTypeOK, FilesTypeOK, SSTFile
  <1>3. HeldInAll(mem, files, Named \cap DOMAIN files) \subseteq N
    <2>1. HeldIn(mem) \subseteq N /\ \A n \in Named \cap DOMAIN files : HeldIn(files[n].data) \subseteq N
      BY <1>1, <1>2, EverythingHas
    <2> HIDE DEF N
    <2> QED
      BY <2>1, HeldInAllIs
  <1>4. ASSUME NEW f \in Carried, NEW r \in ToSet(f) PROVE r.seq \in Nat
    <2>1. f \in Frame \/ f = <<>>
      BY DEF Carried, TypeInv, TypeOK, WALTypeOK, SessionTypeOK, GhostTypeOK, ToSet
    <2>2. f \in Seq(Record)
      <3>1. <<>> \in Seq(Record)
        OBVIOUS
      <3> QED
        BY <2>1, <3>1 DEF Frame
    <2>3. r \in Record
      BY <1>4, <2>2 DEF ToSet
    <2> QED
      BY <2>3 DEF Record
  <1>5. \A r \in FrameRecords(Carried) : r.seq \in Nat
    BY <1>4 DEF FrameRecords
  <1> QED
    BY <1>3, <1>5 DEF Everything

\* The only way out of "down" is an Open that succeeds.
LEMMA DownStep ==
    ASSUME [Next]_vars, pc = "down"
    PROVE  pc' = "down" \/ \E ro \in BOOLEAN : Open(ro)
  <1>1. CASE \/ \E k \in Keys, v \in Vals : Put(k, v)
             \/ \E k \in Keys : Delete(k)
             \/ \E b \in Batches : WriteBatch(b) \/ WriteFails(b)
             \/ \E k \in Keys, v \in Contents : WriteFails(<<[key |-> k, val |-> v]>>)
    BY <1>1, AppendsAreOps DEF BeginWrite, WriteFails, CanWrite
  <1>2. CASE OpenFails \/ ReplayFrame \/ ReplayDone \/ ReplayCancelled \/ Sync \/ FinishWrite
    BY <1>2 DEF OpenFails, dbVars, ReplayFrame, ReplayDone, ReplayCancelled, Sync, FinishWrite
  <1>3. CASE SyncFails \/ Flush \/ Compact \/ Close \/ FinishClose \/ Kill \/ PowerLoss
    BY <1>3 DEF SyncFails, Flush, Compact, Close, FinishClose, Kill, PowerLoss, Forget
  <1>4. CASE FlushAlloc \/ FlushCreate \/ FlushFinish \/ FlushAdd \/ FlushOpen \/ FlushReset
    BY <1>4 DEF FlushAlloc, FlushCreate, FlushFinish, FlushAdd, FlushOpen, FlushReset
  <1>5. CASE \/ MergeAlloc \/ MergeCreate \/ MergeFinish \/ MergeOpen \/ MergeReplace
             \/ MergeRemove
    BY <1>5 DEF MergeAlloc, MergeCreate, MergeFinish, MergeOpen, MergeReplace, MergeRemove
  <1>6. CASE UNCHANGED vars
    BY <1>6 DEF vars, dbVars
  <1> QED
    BY <1>1, <1>2, <1>3, <1>4, <1>5, <1>6 DEF Next, StartOp, Continue, Crash

LEMMA AgreeNext ==
    ASSUME ResetSafe, TypeInv, TypeInv', FilesInv, MetaInv, OrderInv, OrderInv', AgreeInv,
           [Next]_vars
    PROVE  AgreeInv'
  <1> USE DEF AgreeInv
  <1>1. FramesInv' /\ RestInv'
    BY FramesNext, RestStep
  <1>2. NotedInv'
    <2>1. mfDisk'.logSeq =< mf'.logSeq
      BY LogSeqStep DEF NotedInv
    <2> QED
      BY <2>1, DurableStep, LogNotedStep, MemNotedStep DEF NotedInv
  <1>3. CASE \E ops \in Seq(Op) : ops # <<>> /\ BeginWrite(ops)
    <2>1. PICK ops \in Seq(Op) : ops # <<>> /\ BeginWrite(ops)
      BY <1>3
    <2>2. pc = "idle" /\ nextSeq \in Nat /\ nextSeq' \in Nat
      BY <2>1 DEF BeginWrite, CanWrite, TypeInv, TypeOK, WALTypeOK
    <2>3. Everything' \subseteq Everything \cup ToSet(pending')
      BY <2>1, AppendAdds
    <2>4. /\ \A r \in ToSet(pending') : nextSeq < r.seq /\ r.seq =< nextSeq' /\ r.seq \in Nat
          /\ \A r, s \in ToSet(pending') : r.seq = s.seq => r = s
      BY <2>1, NewFrameConsecutive, LastIsHighest
    <2>5. nextSeq =< nextSeq'
      BY <2>1, <2>2 DEF BeginWrite, AppendFrame
    <2>6. \A r \in Everything : r.seq =< nextSeq /\ ~(nextSeq < r.seq)
      BY <2>2, EverythingNumbers DEF GivenOut
    <2>7. Unique'
      <3> SUFFICES ASSUME NEW r \in Everything', NEW s \in Everything', r.seq = s.seq
                   PROVE  r = s
        BY DEF Unique
      <3>1. r \in Everything /\ s \in Everything => r = s
        BY DEF Unique
      <3>2. r \in ToSet(pending') /\ s \in ToSet(pending') => r = s
        BY <2>4
      <3> QED
        BY <2>3, <2>4, <2>6, <3>1, <3>2
    <2>8. GivenOut'
      BY <2>2, <2>3, <2>4, <2>5, <2>6, EverythingNumbers DEF GivenOut
    <2> QED
      BY <1>1, <1>2, <2>7, <2>8
  <1>4. CASE ~\E ops \in Seq(Op) : ops # <<>> /\ BeginWrite(ops)
    <2>1. Everything' \subseteq Everything
      BY <1>4, NothingNewNext
    <2>2. Unique'
      BY <2>1 DEF Unique
    <2>3. CASE pc # "down" /\ pc' # "down"
      <3>1. nextSeq =< nextSeq' /\ nextSeq \in Nat /\ nextSeq' \in Nat
        BY <2>3, NumberingStep DEF TypeInv, TypeOK, WALTypeOK
      <3> QED
        BY <1>1, <1>2, <2>1, <2>2, <2>3, <3>1, EverythingNumbers DEF GivenOut
    <2>4. CASE pc' = "down"
      BY <1>1, <1>2, <2>2, <2>4 DEF GivenOut
    <2>5. CASE \E ro \in BOOLEAN : Open(ro)
      BY <1>1, <1>2, <2>2, <2>5, GivenOutOpen
    <2>6. pc = "down" => pc' = "down" \/ \E ro \in BOOLEAN : Open(ro)
      BY DownStep
    <2> QED
      BY <2>3, <2>4, <2>5, <2>6
  <1> QED
    BY <1>3, <1>4

\* Wherever the engine holds two versions with one number they are the same
\* version of the same key, through flushes, compactions, crashes of either kind,
\* torn and failed writes and recoveries: a number that may have reached the disk
\* is never given to a second write.
THEOREM NumbersIdentify ==
    ASSUME ResetSafe
    PROVE  Spec => []VersionsAgree
  <1> DEFINE Inv == TypeInv /\ FilesInv /\ MetaInv /\ OrderInv /\ AgreeInv
  <1>1. Init => Inv
    BY TypeInit, FilesInit, OrderInit, AgreeInit
  <1>2. Inv /\ [Next]_vars => Inv'
    <2> SUFFICES ASSUME Inv, [Next]_vars PROVE Inv'
      OBVIOUS
    <2>1. TypeInv' /\ FilesInv' /\ MetaInv'
      BY TypeNext, FilesNext DEF Preserved
    <2>2. OrderInv'
      BY <2>1, OrderNext
    <2> QED
      BY <2>1, <2>2, AgreeNext
  <1>3. Inv => VersionsAgree
    <2> SUFFICES ASSUME AgreeInv PROVE Stored \subseteq Everything
      BY DEF AgreeInv, Unique, VersionsAgree
    <2> DEFINE T == {mem} \cup DataOf((FileNos(mfDisk) \cup tables) \cap DOMAIN files)
    <2>1. Stored = (UNION {HeldIn(t) : t \in T})
                      \cup FrameRecords(ToSet(frames) \cup ToSet(durable) \cup hist)
      BY Zenon DEF Stored, HeldIn
    <2>2. \A t \in T : HeldIn(t) \subseteq Everything
      BY EverythingHas DEF DataOf, Named
    <2>3. FrameRecords(ToSet(frames) \cup ToSet(durable) \cup hist) \subseteq Everything
      BY EverythingHas DEF FrameRecords, Carried
    <2> HIDE DEF T
    <2>4. (UNION {HeldIn(t) : t \in T}) \subseteq Everything
      BY <2>2
    <2>5. ASSUME NEW X, NEW Y, X \subseteq Everything, Y \subseteq Everything
          PROVE  X \cup Y \subseteq Everything
      BY <2>5
    <2> QED
      BY <2>1, <2>3, <2>4, <2>5
  <1> HIDE DEF Inv
  <1> QED
    BY <1>1, <1>2, <1>3, PTL DEF Spec
=============================================================================
