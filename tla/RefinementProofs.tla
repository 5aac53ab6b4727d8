-------------------------- MODULE RefinementProofs --------------------------
(***************************************************************************)
(* lsmkv.DB implements DurableKV: every step of the engine is a step of    *)
(* the abstract map or leaves it as it is.                                 *)
(*                                                                         *)
(* What a reader sees is, at every moment, what the writes of the mapped   *)
(* log leave behind (RecoveryProofs).  What is left to show is how that    *)
(* log changes: by the write that is finished, and by a restart, after     *)
(* which it is the writes up to some number and some that failed.          *)
(***************************************************************************)
EXTENDS RecoveryProofs, LSMKVRefinement

\* A frame of the log whose write did not take effect is on the disk, or ends
\* after all that did: the next write that succeeds brings it to the disk.
LogTaken ==
    \A i \in DOMAIN frames :
        \/ frames[i] \in hist
        \/ /\ Synced(i) \/ \A g \in hist : LastSeq(g) < LastSeq(frames[i])
           /\ pc = "down" \/ "walSync" \in Faults \/ (pc = "sync" /\ frames[i] = pending)

Apart(f, g) == f = g \/ LastSeq(f) < g[1].seq \/ LastSeq(g) < f[1].seq

\* No two writes share a number.
FramesApart == \A f, g \in Carried \ {<<>>} : Apart(f, g)

ImplInv == LogTaken /\ FramesApart /\ closing # "abort"


-----------------------------------------------------------------------------
(* The invariant.                                                            *)

LEMMA ApartNext ==
    ASSUME Base, FramesApart, [Next]_vars
    PROVE  FramesApart'
  <1>1. CASE ~\E ops \in Seq(Op) : ops # <<>> /\ BeginWrite(ops)
    <2>1. Carried' \subseteq Carried \cup {<<>>}
      BY <1>1, FramesStep DEF Base
    <2> QED
      BY <2>1 DEF FramesApart
  <1>2. ASSUME NEW ops \in Seq(Op), ops # <<>>, BeginWrite(ops)
        PROVE  FramesApart'
    <2>1. /\ pending' \in Frame /\ Carried' \subseteq Carried \cup {pending'}
          /\ \A r \in ToSet(pending') : nextSeq < r.seq
      BY <1>2, NewFrameConsecutive DEF Base
    <2>2. pending'[1] \in ToSet(pending') /\ pending'[1].seq \in Nat
      BY <2>1, LastSeqIn, FrameSeqsAre DEF Frame
    <2>3. pc = "idle"
      BY <1>2 DEF BeginWrite, CanWrite
    <2>4. nextSeq \in Nat /\ \A g \in Carried : \A r \in ToSet(g) : r.seq =< nextSeq
      BY <2>3, BoundedBy DEF Base, AgreeInv
    <2>5. ASSUME NEW g \in Carried, g # <<>> PROVE LastSeq(g) < pending'[1].seq
      <3>1. g[Len(g)] \in ToSet(g) /\ LastSeq(g) \in Nat
        BY <2>5, FramesAre
      <3>2. LastSeq(g) =< nextSeq /\ nextSeq < pending'[1].seq
        BY <2>1, <2>2, <2>4, <3>1 DEF LastSeq
      <3> QED
        BY <2>2, <2>4, <3>1, <3>2
    <2> QED
      BY <2>1, <2>5 DEF FramesApart, Apart
  <1> QED
    BY <1>1, <1>2

\* The log and the writes that took effect are what they were.
LEMMA TakenStays ==
    ASSUME LogTaken, UNCHANGED <<frames, durable, hist>>,
           pc = "down" => pc' = "down", pc = "sync" => pc' = "down" \/ "walSync" \in Faults
    PROVE  LogTaken'
  BY DEF LogTaken, Synced

LEMMA TakenSynced ==
    ASSUME Base, frames \in Seq(Frame), durable' = frames, frames' = frames, hist \subseteq hist',
           LogTaken, pending \in hist' \/ pc # "sync", pc = "down" => pc' = "down"
    PROVE  LogTaken'
  <1>1. \A i \in DOMAIN frames : i =< Len(frames)
    OBVIOUS
  <1>2. IsPrefix(frames, frames)
    BY PrefixSelf
  <1> QED
    BY <1>1, <1>2 DEF LogTaken, Synced

LEMMA TakenBeginWrite ==
    ASSUME Base, RecInv, LogTaken, NEW ops \in Seq(Op), ops # <<>>, BeginWrite(ops)
    PROVE  LogTaken'
  <1> DEFINE f == pending'
  <1>1. /\ pc = "idle" /\ pc' = "sync" /\ frames' = Append(frames, f)
        /\ UNCHANGED <<durable, hist>>
    BY DEF BeginWrite, CanWrite, AppendFrame, RecInv, LogInv, ghosts
  <1>2. f \in Frame /\ \A r \in ToSet(f) : nextSeq < r.seq
    BY NewFrameConsecutive DEF Base
  <1>3. f[Len(f)] \in ToSet(f) /\ LastSeq(f) \in Nat
    BY <1>2, LastSeqIn, FrameSeqsAre DEF Frame, LastSeq
  <1>4. nextSeq \in Nat /\ \A g \in hist : LastSeq(g) \in Nat /\ LastSeq(g) =< nextSeq
    BY <1>1, FramesAre DEF Base, OrderInv, Frame, TypeInv, TypeOK, WALTypeOK
  <1>5. \A g \in hist : LastSeq(g) < LastSeq(f)
    BY <1>2, <1>3, <1>4 DEF LastSeq
  <1>6. /\ frames \in Seq(Frame) /\ durable \in Seq(Frame)
        /\ DOMAIN frames' = DOMAIN frames \cup {Len(frames) + 1}
        /\ frames'[Len(frames) + 1] = f
        /\ \A i \in DOMAIN frames : frames'[i] = frames[i]
    BY <1>1, <1>2, FramesAre
  <1>7. \A i \in DOMAIN frames : Synced(i) => Synced(i)'
    BY <1>1, <1>2, <1>6, PrefixAppend DEF Synced
  <1> HIDE DEF f
  <1> SUFFICES ASSUME NEW i \in DOMAIN frames'
               PROVE  \/ frames'[i] \in hist
                      \/ /\ Synced(i)' \/ \A g \in hist : LastSeq(g) < LastSeq(frames'[i])
                         /\ "walSync" \in Faults \/ frames'[i] = f
    BY <1>1 DEF LogTaken, f
  <1>8. CASE i \in DOMAIN frames
    BY <1>1, <1>6, <1>7, <1>8 DEF LogTaken
  <1>9. CASE i = Len(frames) + 1
    BY <1>5, <1>6, <1>9
  <1> QED
    BY <1>6, <1>8, <1>9

LEMMA TakenFinishWrite ==
    ASSUME Harmless, Base, LogTaken, FinishWrite
    PROVE  LogTaken'
  <1>1. /\ pc = "sync" /\ frames' = frames /\ hist' = hist \cup {pending}
        /\ IF SyncDue(appends) THEN durable' = frames ELSE durable' = durable
    BY DEF FinishWrite, Fsync
  <1>2. CASE "walSync" \in Faults
    <2>1. SyncDue(appends)
      BY <1>2 DEF Harmless, SyncDue
    <2> QED
      BY <1>1, <2>1, TakenSynced, FramesAre
  <1>3. CASE "walSync" \notin Faults
    BY <1>1, <1>3 DEF LogTaken
  <1> QED
    BY <1>2, <1>3

LEMMA TakenNext ==
    ASSUME Harmless, Base, Base', RecInv, LogTaken, closing # "abort", [Next]_vars
    PROVE  LogTaken' /\ closing' # "abort"
  <1>1. ~ReplayCancelled /\ \A kind : Fault(kind) => kind \in Faults
    BY DEF Harmless, ReplayCancelled, Fault
  <1>2. CASE \E ops \in Seq(Op) : ops # <<>> /\ BeginWrite(ops)
    BY <1>2, TakenBeginWrite DEF BeginWrite
  <1>3. CASE FinishWrite
    BY <1>3, TakenFinishWrite DEF FinishWrite
  <1>4. CASE OpenFails \/ Sync
    <2>1. /\ durable' = frames /\ frames' = frames /\ UNCHANGED <<hist, pc, closing>>
          /\ pc # "sync"
      BY <1>4 DEF OpenFails, Sync, RecoverLog, Fsync, dbVars, volatile, ghosts
    <2> QED
      BY <2>1, TakenSynced, FramesAre
  <1>5. CASE \E ro \in BOOLEAN : Open(ro)
    <2>1. ToSet(frames) \subseteq hist' /\ frames' = frames /\ closing' = closing
      BY <1>5 DEF Open, RecoveredHist, RecoverLog
    <2> QED
      BY <2>1 DEF LogTaken, ToSet
  <1>6. CASE FlushReset
    <2>1. \/ frames' = <<>>
          \/ UNCHANGED <<frames, durable, hist>>
      BY <1>6 DEF FlushReset, ResetLog, ResetLogUnsynced, walVars
    <2>2. pc = "flushReset" /\ closing' # "abort"
      BY <1>6 DEF FlushReset, FlushFails
    <2> QED
      BY <2>1, <2>2, TakenStays DEF LogTaken
  <1>7. CASE FinishClose \/ Kill
    <2>1. /\ frames' = frames /\ hist' = hist /\ pc' = "down" /\ closing' = "no"
          /\ pc # "down" /\ (durable' = durable \/ (durable' = frames /\ pc = "closing"))
      <3>1. CASE FinishClose
        BY <3>1 DEF FinishClose, Forget, Fsync
      <3>2. CASE Kill
        BY <3>2 DEF Kill, Forget, walVars, ghosts, LogTaken
      <3> QED
        BY <1>7, <3>1, <3>2
    <2> QED
      BY <2>1, TakenStays, TakenSynced, FramesAre
  <1>8. CASE PowerLoss
    <2>1. frames' = durable' /\ closing' = "no" /\ pc' = "down"
      BY <1>8 DEF PowerLoss, LosePower, Forget
    <2>2. frames' \in Seq(Frame)
      BY DEF Base, TypeInv, TypeOK, WALTypeOK
    <2>3. IsPrefix(durable', frames') /\ \A i \in DOMAIN frames' : i =< Len(durable')
      BY <2>1, <2>2, PrefixSelf
    <2> QED
      BY <2>1, <2>3 DEF LogTaken, Synced
  <1>9. CASE \/ \E ops \in Seq(Op) : WriteFails(ops)
             \/ SyncFails \/ Flush \/ Compact \/ Close \/ ReplayFrame \/ ReplayDone
    <2>1. UNCHANGED <<frames, durable, hist>> /\ pc \in {"idle", "replay", "sync"}
      BY <1>9 DEF WriteFails, CanWrite, AppendNothing, AppendTorn, SyncFails, Flush, Compact, Close,
                  ReplayFrame, ReplayDone, walVars, dbVars, ghosts
    <2>2. closing' # "abort"
      BY <1>9 DEF WriteFails, SyncFails, Flush, Compact, Close, StartClose, ReplayFrame, ReplayDone,
                  dbVars, volatile
    <2>3. pc = "sync" => "walSync" \in Faults
      BY <1>1, <1>9 DEF WriteFails, CanWrite, SyncFails, Flush, Compact, Close, ReplayFrame, ReplayDone
    <2> QED
      BY <2>1, <2>2, <2>3, TakenStays
  <1>10. CASE \/ FlushAlloc \/ FlushCreate \/ FlushFinish \/ FlushAdd \/ FlushOpen
              \/ MergeAlloc \/ MergeCreate \/ MergeFinish \/ MergeOpen \/ MergeReplace \/ MergeRemove
    <2>1. UNCHANGED <<frames, durable, hist>> /\ pc \notin {"down", "sync"}
      BY <1>10 DEF FlushAlloc, FlushCreate, FlushFinish, FlushAdd, FlushOpen, MergeAlloc, MergeCreate,
                   MergeFinish, MergeOpen, MergeReplace, MergeRemove, walVars, ghosts
    <2>2. closing' # "abort"
      BY <1>10 DEF FlushAlloc, FlushCreate, FlushFinish, FlushAdd, FlushOpen, FlushFails, MergeAlloc,
                   MergeCreate, MergeFinish, MergeOpen, MergeReplace, MergeRemove, volatile
    <2> QED
      BY <2>1, <2>2, TakenStays
  <1>11. CASE UNCHANGED vars
    BY <1>11, TakenStays DEF LogTaken, Synced, vars, walVars, dbVars, volatile, ghosts
  <1>12. CASE StartOp
    BY <1>2, <1>4, <1>5, <1>9, <1>12, AppendsAreOps DEF StartOp
  <1> QED
    BY <1>1, <1>3, <1>6, <1>7, <1>8, <1>9, <1>10, <1>11, <1>12 DEF Next, Continue, Crash

LEMMA ImplInit == Init => ImplInv
  <1> SUFFICES ASSUME Init PROVE ImplInv
    OBVIOUS
  <1>1. frames = <<>> /\ durable = <<>> /\ hist = {} /\ pending = <<>> /\ closing = "no"
    BY DEF Init, WALInit
  <1>2. Carried \subseteq {<<>>}
    BY <1>1, ToSetEmpty DEF Carried
  <1> QED
    BY <1>1, <1>2 DEF ImplInv, LogTaken, FramesApart

LEMMA ImplNext ==
    ASSUME Harmless, Base, Base', RecInv, ImplInv, [Next]_vars
    PROVE  ImplInv'
  BY ApartNext, TakenNext DEF ImplInv

LEMMA Implements ==
    ASSUME Harmless
    PROVE  Spec => [](Base /\ RecInv /\ ImplInv)
  <1>1. Base /\ RecInv /\ Base' /\ ImplInv /\ [Next]_vars => ImplInv'
    BY ImplNext
  <1> QED
    BY <1>1, ImplInit, Recovers, PTL DEF Spec

-----------------------------------------------------------------------------
(* The mapping.  The writes that count are those of the session, or, with    *)
(* the process gone, those the next session is bound to find; what a reader  *)
(* sees is what they leave behind, and any other frame of the log is unsure. *)

Counted == IF pc = "down" THEN RecoveredHist(frames) ELSE hist
OnFile  == ToSet(frames) \cup ToSet(durable)

LEMMA HistBelow ==
    ASSUME Base, RecInv, pc # "down", NEW f \in hist
    PROVE  LastSeq(f) =< RecoverableSeq(frames)
  <1> DEFINE S == {LastSeq(g) : g \in hist}
  <1>1. nextSeq \in Nat /\ \A g \in hist : LastSeq(g) \in Nat /\ LastSeq(g) =< nextSeq
    BY FramesAre DEF Base, OrderInv, Frame, TypeInv, TypeOK, WALTypeOK
  <1>2. S \subseteq Nat /\ \A s \in S : s =< nextSeq
    BY <1>1
  <1>3. LastSeq(f) =< HistSeq
    BY <1>1, <1>2, HighestSeqBound DEF HistSeq
  <1>4. HistSeq \in Nat /\ HistSeq =< RecoverableSeq(frames)
    BY HistSeqIs, HistFound
  <1>5. RecoverableSeq(frames) \in Nat
    BY FramesSurvive, TopIs
  <1> QED
    BY <1>1, <1>3, <1>4, <1>5

LEMMA CountedFound ==
    ASSUME Base, RecInv, pc # "down"
    PROVE  /\ hist \subseteq RecoveredHist(frames)
           /\ pc = "replay" => RecoveredHist(frames) = hist
  BY HistBelow DEF RecoveredHist, RecInv, SessionInv, Replaying

LEMMA CountedAre ==
    ASSUME Base
    PROVE  Counted \subseteq Carried \ {<<>>} /\ OnFile \subseteq Carried \ {<<>>}
  <1>1. /\ ToSet(frames) \subseteq Carried /\ ToSet(durable) \subseteq Carried
        /\ hist \subseteq Carried
    BY DEF Carried
  <1>2. ToSet(frames) \subseteq Frame /\ ToSet(durable) \subseteq Frame /\ hist \subseteq Frame
    BY FramesAre DEF ToSet
  <1>3. <<>> \notin Frame
    BY DEF Frame
  <1> QED
    BY <1>1, <1>2, <1>3 DEF Counted, OnFile, RecoveredHist

Mapping ==
    /\ MappedLog = Counted
    /\ MappedUnsure = OnFile \ Counted
    /\ MappedView = HistView(Counted)

LEMMA MappingIs == Base /\ RecInv /\ ImplInv => Mapping
  <1> SUFFICES ASSUME Base, RecInv, ImplInv PROVE Mapping
    OBVIOUS
  <1>1. Recovering <=> pc \in {"down", "replay"}
    BY DEF Recovering, ImplInv
  <1>2. Recovering => Counted = RecoveredHist(frames)
    BY <1>1, CountedFound DEF Counted
  <1>3. ~Recovering => Counted = hist /\ Serving
    BY <1>1 DEF Counted, Serving
  <1>4. MappedLog = Counted
    BY <1>2, <1>3 DEF MappedLog
  <1>5. MappedView = HistView(Counted)
    BY <1>2, <1>3, FramesSurvive, RecoveredViewIs, ServedViewIs DEF MappedView
  <1>6. ToSet(frames \o durable) = OnFile
    <2>1. frames \in Seq(Frame) /\ durable \in Seq(Frame)
      BY FramesAre
    <2>2. \A i \in DOMAIN frames : (frames \o durable)[i] = frames[i]
      BY <2>1
    <2>3. \A i \in DOMAIN durable : (frames \o durable)[i + Len(frames)] = durable[i]
      BY <2>1
    <2>4. \A i \in DOMAIN (frames \o durable) :
             i \in DOMAIN frames \/ (i - Len(frames) \in DOMAIN durable
                                     /\ i = (i - Len(frames)) + Len(frames))
      BY <2>1
    <2>5. \A i \in DOMAIN frames : i \in DOMAIN (frames \o durable)
      BY <2>1
    <2>6. \A i \in DOMAIN durable : i + Len(frames) \in DOMAIN (frames \o durable)
      BY <2>1
    <2> QED
      BY <2>2, <2>3, <2>4, <2>5, <2>6 DEF ToSet, OnFile
  <1>7. pc = "sync" => pending \in OnFile
    BY FramesAre DEF RecInv, LogInv, ToSet, OnFile
  <1> QED
    BY <1>4, <1>5, <1>6, <1>7 DEF MappedUnsure, Mapping

LEMMA MappingIsNext == Base' /\ RecInv' /\ ImplInv' => Mapping'
  BY MappingIs, PTL

-----------------------------------------------------------------------------
(* A restart.  What a crash leaves of the log decides which writes the next  *)
(* session finds: those up to the highest number anywhere, and no other.     *)

\* A number in a table is the number of a write that took effect.
LEMMA TableNumbers ==
    ASSUME Base, RecInv, NEW q \in TableSeqs, q > 0
    PROVE  \E h \in hist : q =< LastSeq(h)
  <1>1. PICK t \in OnDisk, k \in Keys : q = t[k].seq
    BY DEF TableSeqs, OnDisk
  <1>2. Sound(hist, t, OnDisk)
    BY DEF RecInv, SoundInv
  <1>3. t[k] # NoVersion
    BY <1>1 DEF NoVersion
  <1>4. PICK h \in hist : RecordAt(t, k) \in ToSet(h)
    BY <1>2, <1>3 DEF Sound
  <1>5. RecordAt(t, k).seq = q
    BY <1>1 DEF RecordAt
  <1>6. h \in Carried /\ h # <<>>
    BY FramesAre DEF Frame
  <1> QED
    BY <1>4, <1>5, <1>6, FramesAre

\* A power failure takes nothing from the tables and brings nothing to the log.
LEMMA TopFalls ==
    ASSUME Base, RecInv, NEW s \in Survivors
    PROVE  RecoverableSeq(s) =< RecoverableSeq(frames)
  <1> DEFINE top == RecoverableSeq(s)
  <1>1. /\ top \in Nat /\ RecoverableSeq(frames) \in Nat
        /\ top = 0 \/ top \in SeqsIn(s) \cup TableSeqs
        /\ \A q \in SeqsIn(frames) \cup TableSeqs : q =< RecoverableSeq(frames)
    BY TopIs, FramesSurvive
  <1> HIDE DEF top
  <1>2. CASE top \in SeqsIn(s)
    <2>1. s \in Seq(Frame) /\ frames \in Seq(Frame)
      BY SurvivorShape, FramesAre
    <2>2. PICK i \in DOMAIN s : \E r \in ToSet(s[i]) : top = r.seq
      BY <1>2, <2>1, SeqsInIs
    <2>3. CASE s = durable /\ ~IsPrefix(durable, frames)
      <3>1. PICK t \in OnDisk, k \in Keys : top =< t[k].seq
        <4>1. PICK r \in ToSet(s[i]) : top = r.seq
          BY <2>2
        <4>2. s[i] \in Carried /\ s[i] # <<>>
          BY <2>1, <2>3, FramesAre DEF Frame
        <4>3. r.key \in Keys
          BY <4>1, <4>2, FramesAre DEF Record
        <4> QED
          BY <2>3, <4>1, <4>3 DEF RecInv, DiskInv, Redundant, Covers
      <3>2. t[k].seq \in TableSeqs
        BY <3>1 DEF TableSeqs, OnDisk
      <3>3. t[k].seq \in Nat
        BY TablesAre, TableSeqsAre DEF Tabled
      <3> QED
        BY <1>1, <3>1, <3>2, <3>3 DEF top
    <2>4. CASE \E n \in 0 .. Len(frames) : Len(s) = n /\ \A j \in 1 .. n : s[j] = frames[j]
      <3>1. i \in DOMAIN frames /\ s[i] = frames[i]
        BY <2>1, <2>4
      <3>2. top \in SeqsIn(frames)
        BY <2>1, <2>2, <3>1, SeqsInElements
      <3> QED
        BY <1>1, <3>2 DEF top
    <2> QED
      BY <2>3, <2>4, SurvivorShape
  <1> QED
    BY <1>1, <1>2 DEF top

\* Frames of a log are as old as their numbers.
LEMMA LogPlace ==
    ASSUME Base, Ordered(frames), NEW i \in DOMAIN frames, NEW j \in DOMAIN frames,
           LastSeq(frames[i]) =< LastSeq(frames[j])
    PROVE  i =< j
  <1>1. frames \in Seq(Frame)
    BY FramesAre
  <1>2. /\ frames[i] \in Carried /\ frames[i] # <<>>
        /\ frames[j] \in Carried /\ frames[j] # <<>>
    BY <1>1, FramesAre DEF Frame
  <1>3. /\ LastSeq(frames[i]) \in Nat /\ LastSeq(frames[j]) \in Nat
        /\ frames[i][1].seq \in Nat /\ frames[i][1].seq =< LastSeq(frames[i])
    BY <1>2, FramesAre
  <1>4. j < i => LastSeq(frames[j]) < frames[i][1].seq
    BY DEF Ordered
  <1> QED
    BY <1>1, <1>3, <1>4

LEMMA CountedKept ==
    ASSUME Base, RecInv, LogTaken, NEW s \in Survivors,
           NEW g \in Counted, LastSeq(g) =< RecoverableSeq(s)
    PROVE  g \in RecoveredHist(s)
  <1> DEFINE top == RecoverableSeq(s)
  <1>1. CASE g \in hist
    BY <1>1 DEF RecoveredHist
  <1>2. CASE g \notin hist
    <2>1. g \in ToSet(frames)
      BY <1>2 DEF Counted, RecoveredHist
    <2>2. PICK i \in DOMAIN frames : g = frames[i]
      BY <2>1 DEF ToSet
    <2>3. Synced(i) \/ \A h \in hist : LastSeq(h) < LastSeq(g)
      BY <1>2, <2>2 DEF LogTaken
    <2>4. s \in Seq(Frame) /\ frames \in Seq(Frame)
      BY SurvivorShape, FramesAre
    <2>5. g \in Carried /\ g # <<>> /\ LastSeq(g) \in Nat /\ LastSeq(g) > 0
      BY <2>2, <2>4, FramesAre DEF Frame
    <2>6. /\ top \in Nat /\ top \in SeqsIn(s) \cup TableSeqs
      BY <2>5, TopIs
    <2>7. ASSUME NEW q \in TableSeqs, q \in Nat, LastSeq(g) =< q PROVE Synced(i)
      <3>1. PICK h \in hist : q =< LastSeq(h)
        BY <2>5, <2>7, TableNumbers
      <3>2. LastSeq(h) \in Nat
        BY FramesAre DEF Frame
      <3> QED
        BY <2>3, <2>5, <2>7, <3>1, <3>2
    <2>8. CASE \E n \in 0 .. Len(frames) :
                  /\ Len(s) = n /\ \A j \in 1 .. n : s[j] = frames[j]
                  /\ \A j \in DOMAIN frames : Synced(j) => j =< n
      <3>1. PICK n \in 0 .. Len(frames) :
                  /\ Len(s) = n /\ \A j \in 1 .. n : s[j] = frames[j]
                  /\ \A j \in DOMAIN frames : Synced(j) => j =< n
        BY <2>8
      <3>2. ASSUME top \in SeqsIn(s) PROVE i =< n
        <4>1. PICK j \in DOMAIN s : \E r \in ToSet(s[j]) : top = r.seq
          BY <2>4, <3>2, SeqsInIs
        <4>2. j \in DOMAIN frames /\ s[j] = frames[j] /\ j =< n
          BY <2>4, <3>1, <4>1
        <4>3. frames[j] \in Carried /\ frames[j] # <<>>
          BY <2>4, <4>2, FramesAre DEF Frame
        <4>4. top =< LastSeq(frames[j]) /\ LastSeq(frames[j]) \in Nat
          BY <4>1, <4>2, <4>3, FramesAre
        <4>5. LastSeq(frames[i]) =< LastSeq(frames[j])
          BY <2>2, <2>5, <2>6, <4>4
        <4>6. i =< j
          BY <4>2, <4>5, LogPlace DEF RecInv, LogInv
        <4> QED
          BY <2>4, <4>2, <4>6
      <3>3. ASSUME top \in TableSeqs PROVE i =< n
        BY <2>6, <2>7, <3>1, <3>3
      <3>4. i \in 1 .. n
        BY <2>4, <2>6, <3>2, <3>3
      <3>5. g \in ToSet(s)
        BY <2>2, <2>4, <3>1, <3>4 DEF ToSet
      <3> QED
        BY <3>5 DEF RecoveredHist
    <2>9. CASE s = durable /\ ~IsPrefix(durable, frames)
      <3>1. ~Synced(i)
        BY <2>9 DEF Synced
      <3>2. PICK j \in DOMAIN s : \E r \in ToSet(s[j]) : top = r.seq
        BY <2>4, <2>6, <2>7, <3>1, SeqsInIs
      <3>3. PICK r \in ToSet(s[j]) : top = r.seq
        BY <3>2
      <3>4. s[j] \in Carried /\ s[j] # <<>>
        BY <2>4, <2>9, FramesAre DEF Frame
      <3>5. r.key \in Keys
        BY <3>3, <3>4, FramesAre DEF Record
      <3>6. PICK t \in OnDisk : top =< t[r.key].seq
        BY <2>9, <3>3, <3>5 DEF RecInv, DiskInv, Redundant, Covers
      <3>7. t[r.key].seq \in TableSeqs /\ t[r.key].seq \in Nat
        BY <3>5, <3>6, TablesAre, TableSeqsAre DEF TableSeqs, OnDisk, Tabled
      <3> QED
        BY <2>5, <2>6, <2>7, <3>1, <3>6, <3>7
    <2> QED
      BY <2>8, <2>9, SurvivorShape
  <1> QED
    BY <1>1, <1>2

LEMMA RecoveredBelow ==
    ASSUME Base, NEW s \in Survivors, NEW f \in RecoveredHist(s)
    PROVE  LastSeq(f) =< RecoverableSeq(s)
  <1>1. CASE f \in ToSet(s)
    <2>1. s \in Seq(Frame)
      BY SurvivorShape
    <2>2. PICK i \in DOMAIN s : f = s[i]
      BY <1>1 DEF ToSet
    <2>3. f \in Frame
      BY <2>1, <2>2
    <2>4. f[Len(f)] \in ToSet(f)
      BY <2>3, LastSeqIn
    <2>5. LastSeq(f) \in SeqsIn(s)
      BY <2>1, <2>2, <2>4, SeqsInElements DEF LastSeq
    <2> QED
      BY <2>5, TopIs
  <1> QED
    BY <1>1 DEF RecoveredHist

\* The writes that surface are those of the log that were unsure.
LEMMA SurfacedUnsure ==
    ASSUME Base, RecInv, NEW s \in Survivors
    PROVE  RecoveredHist(s) \ Counted \subseteq OnFile
  <1> SUFFICES ASSUME NEW f \in RecoveredHist(s), f \notin Counted, f \notin ToSet(s)
               PROVE  FALSE
    BY SurvivorFrames DEF OnFile, Base, TypeInv, TypeOK
  <1>1. f \in hist /\ LastSeq(f) =< RecoverableSeq(s) /\ LastSeq(f) \in Nat
    BY FramesAre DEF RecoveredHist, Frame
  <1>2. /\ RecoverableSeq(s) =< RecoverableSeq(frames)
        /\ RecoverableSeq(s) \in Nat /\ RecoverableSeq(frames) \in Nat
    BY TopFalls, TopIs, FramesSurvive
  <1> QED
    BY <1>1, <1>2 DEF Counted, RecoveredHist

-----------------------------------------------------------------------------
(* The steps, one by one.                                                    *)

KVStep == [KV!KVNext]_(KV!kvVars)

LEMMA KVOperators ==
    /\ \A f : KV!LastSeq(f) = LastSeq(f)
    /\ \A H : KV!Visible(KV!TableOf(KV!FrameRecords(H))) = HistView(H)
  BY DEF KV!LastSeq, LastSeq, KV!Visible, KV!TableOf, KV!FrameRecords, KV!VersionOf, KV!Newest,
         KV!NoVersion, KV!ToSet, ToSet, HistView, Visible, TableOf, FrameRecords, VersionOf, Newest, NoVersion

LEMMA MappingThen ==
    ASSUME Mapping'
    PROVE  /\ MappedLog' = Counted'
           /\ MappedUnsure' = OnFile' \ Counted'
           /\ MappedView' = HistView(Counted')
  BY DEF Mapping, HistView

LEMMA MappedNothing ==
    ASSUME Mapping, Mapping', Counted' = Counted, OnFile' = OnFile, stable' = stable
    PROVE  KVStep
  <1>1. UNCHANGED <<MappedView, MappedLog, MappedUnsure, stable>>
    BY MappingThen DEF Mapping
  <1> QED
    BY <1>1 DEF KVStep, KV!kvVars

\* What a promise of everything so far may do.
LEMMA PromiseIs ==
    ASSUME Base, pc # "down", stable' \in {stable, Larger(stable, HistSeq)}
    PROVE  \/ stable' = stable
           \/ /\ stable' \in {LastSeq(f) : f \in Counted}
              /\ \A f \in Counted : LastSeq(f) =< stable'
  <1> DEFINE S == {LastSeq(g) : g \in hist}
  <1>1. nextSeq \in Nat /\ stable \in Nat /\ \A g \in hist : LastSeq(g) \in Nat /\ LastSeq(g) =< nextSeq
    BY FramesAre DEF Base, OrderInv, Frame, TypeInv, TypeOK, WALTypeOK, GhostTypeOK
  <1>2. S \subseteq Nat /\ \A s \in S : s =< nextSeq
    BY <1>1
  <1>3. HistSeq \in Nat /\ (HistSeq = 0 \/ HistSeq \in S)
    BY HistSeqIs
  <1>4. \A f \in hist : LastSeq(f) =< HistSeq
    BY <1>1, <1>2, HighestSeqBound DEF HistSeq
  <1>5. Counted = hist
    BY DEF Counted
  <1>6. stable' = stable \/ (stable' = HistSeq /\ HistSeq # 0)
    BY <1>1, <1>3 DEF Larger
  <1> QED
    BY <1>3, <1>4, <1>5, <1>6

LEMMA PromiseMapped ==
    ASSUME Base, Mapping, pc # "down" \/ stable' = stable,
           stable' \in {stable, Larger(stable, HistSeq)}
    PROVE  KV!Promise
  BY PromiseIs, KVOperators DEF KV!Promise, Mapping

LEMMA MappedSettle ==
    ASSUME Base, Mapping, Mapping', Counted' = Counted, OnFile' \subseteq OnFile,
           pc # "down" \/ stable' = stable,
           stable' \in {stable, Larger(stable, HistSeq)}
    PROVE  KVStep
  <1>1. KV!Promise
    BY PromiseMapped
  <1>2. UNCHANGED <<MappedView, MappedLog>> /\ MappedUnsure' \in SUBSET MappedUnsure
    BY MappingThen DEF Mapping
  <1> QED
    BY <1>1, <1>2 DEF KVStep, KV!KVNext, KV!Settle

PromiseFound == stable =< RecoverableSeq(frames)
CountedOnce  == Counted \subseteq Carried \ {<<>>}

LEMMA FoundHere == Base /\ RecInv => PromiseFound /\ CountedOnce
  BY FramesSurvive, StableFound, CountedAre DEF PromiseFound, CountedOnce

LEMMA FoundNext == Base' /\ RecInv' => PromiseFound' /\ CountedOnce'
  BY FoundHere, PTL

LEMMA MappedRestart ==
    ASSUME Base, Base', RecInv, RecInv', ImplInv, ImplInv', Mapping, Mapping',
           FinishClose \/ Kill \/ PowerLoss
    PROVE  KVStep
  <1>1. /\ pc' = "down" /\ hist' = hist /\ UNCHANGED <<files, mfDisk>>
        /\ frames' \in Survivors
        /\ \/ durable' = frames'
           \/ durable' = durable /\ frames' = frames /\ pc # "down"
        /\ pc # "down" \/ stable' = stable
        /\ stable' \in {stable, Larger(stable, HistSeq)}
    <2>1. CASE FinishClose
      BY <2>1, FramesSurvive DEF FinishClose, Forget, Fsync
    <2>2. CASE Kill
      BY <2>2, FramesSurvive DEF Kill, Forget, walVars, ghosts
    <2>3. CASE PowerLoss
      BY <2>3 DEF PowerLoss, LosePower, Forget, ghosts
    <2> QED
      BY <2>1, <2>2, <2>3
  <1> DEFINE s == frames'
             next == RecoveredHist(s)
             kept == Counted \cap next
             surfaced == next \ Counted
  <1>2. Counted' = next /\ RecoverableSeq(frames)' = RecoverableSeq(s)
    BY <1>1, SameDisk DEF Counted, RecoveredHist, RecoverableSeq
  <1>3. surfaced \subseteq MappedUnsure
    BY <1>1, SurfacedUnsure DEF Mapping
  <1>4. KV!Promise
    BY <1>1, PromiseMapped
  <1>5. ASSUME NEW f \in kept, NEW g \in Counted, LastSeq(g) < LastSeq(f)
        PROVE  g \in kept
    <2>1. LastSeq(f) =< RecoverableSeq(s) /\ RecoverableSeq(s) \in Nat
      BY <1>1, RecoveredBelow, TopIs
    <2>2. LastSeq(f) \in Nat /\ LastSeq(g) \in Nat
      BY CountedAre, FramesAre
    <2>3. LastSeq(g) =< RecoverableSeq(s)
      BY <1>5, <2>1, <2>2
    <2> QED
      BY <1>1, <2>3, CountedKept DEF ImplInv
  <1>6. ASSUME NEW g \in Counted, LastSeq(g) =< stable'
        PROVE  g \in kept
    <2>1. stable' =< RecoverableSeq(s)
      BY <1>2, FoundNext DEF PromiseFound
    <2>2. LastSeq(g) \in Nat /\ stable' \in Nat /\ RecoverableSeq(s) \in Nat
      BY <1>1, CountedAre, FramesAre, TopIs DEF Base, TypeInv, TypeOK, GhostTypeOK
    <2>3. LastSeq(g) =< RecoverableSeq(s)
      BY <1>6, <2>1, <2>2
    <2> QED
      BY <1>1, <2>3, CountedKept DEF ImplInv
  <1>7. ASSUME NEW f \in kept \cup surfaced, NEW g \in kept \cup surfaced
        PROVE  Apart(f, g)
    <2>1. f \in Carried' \ {<<>>} /\ g \in Carried' \ {<<>>}
      BY <1>2, FoundNext DEF CountedOnce
    <2> QED
      BY <2>1 DEF ImplInv, FramesApart, Apart
  <1>8. MappedUnsure' \subseteq MappedUnsure \ surfaced
    <2>1. frames \in Seq(Frame) /\ s \in Seq(Frame)
      BY <1>1, SurvivorShape, FramesAre
    <2>2. ToSet(s) \subseteq next
      BY DEF RecoveredHist
    <2>3. CASE durable' = s
      <3>1. OnFile' \subseteq next
        BY <2>2, <2>3 DEF OnFile
      <3> QED
        BY <1>2, <3>1, MappingThen
    <2>4. CASE durable' = durable /\ frames' = frames /\ pc # "down"
      <3>1. OnFile' = OnFile /\ Counted \subseteq next
        BY <2>4, CountedFound DEF OnFile, Counted
      <3> QED
        BY <1>2, <3>1, MappingThen DEF Mapping
    <2> QED
      BY <1>1, <2>3, <2>4
  <1>9. /\ MappedLog' = kept \cup surfaced
        /\ MappedView' = KV!Visible(KV!TableOf(KV!FrameRecords(MappedLog')))
    BY <1>2, MappingThen, KVOperators
  <1>10. kept \in SUBSET MappedLog /\ surfaced \in SUBSET MappedUnsure
    BY <1>3 DEF Mapping
  <1>11. MappedLog = Counted
    BY DEF Mapping
  <1> HIDE DEF s, next, kept, surfaced
  <1>12. KV!Restart
    <2>1. \A f \in kept, g \in MappedLog : KV!LastSeq(g) < KV!LastSeq(f) => g \in kept
      BY <1>5, <1>11, KVOperators
    <2>2. \A g \in MappedLog : KV!LastSeq(g) =< stable' => g \in kept
      BY <1>6, <1>11, KVOperators
    <2>3. \A f, g \in kept \cup surfaced : f = g \/ KV!After(f, g) \/ KV!After(g, f)
      BY <1>7, KVOperators DEF KV!After, Apart
    <2> QED
      BY <1>4, <1>8, <1>9, <1>10, <2>1, <2>2, <2>3 DEF KV!Restart
  <1> QED
    BY <1>12 DEF KVStep, KV!KVNext

-----------------------------------------------------------------------------
(* A write.                                                                  *)

LEMMA LatestOf ==
    ASSUME NEW n \in Nat, NEW S \in SUBSET (1 .. n), S # {}
    PROVE  KV!Max(S) \in S /\ \A i \in S : i =< KV!Max(S)
  <1>1. S \subseteq Nat /\ \A i \in S : 1 =< i /\ i =< n
    OBVIOUS
  <1>2. HighestSeq(S) \in Nat /\ \A i \in S : i =< HighestSeq(S)
    BY <1>1, HighestSeqBound, HighestSeqType
  <1>3. HighestSeq(S) \in S
    <2>1. PICK i \in S : TRUE
      OBVIOUS
    <2>2. HighestSeq(S) # 0
      BY <1>1, <1>2, <2>1
    <2> QED
      BY <1>1, <2>2, HighestSeqIn
  <1>4. \E x \in S : \A y \in S : x >= y
    BY <1>1, <1>2, <1>3
  <1> QED
    BY <1>1, <1>4 DEF KV!Max

RecordsAt(H, k) == {VersionOf(r) : r \in {q \in FrameRecords(H) : q.key = k}}

LEMMA HistViewIs ==
    ASSUME NEW H, NEW k \in Keys
    PROVE  HistView(H)[k] = Newest(RecordsAt(H, k)).val
  BY DEF HistView, Visible, TableOf, RecordsAt

\* A write numbered after every other leaves its last value of each of its keys.
LEMMA EffectIs ==
    ASSUME Base, Mapping, Counted = hist, NEW f \in Carried, f # <<>>,
           \A g \in hist : LastSeq(g) < f[1].seq
    PROVE  HistView(hist \cup {f}) = KV!Effect(f)
  <1>1. /\ f \in Frame /\ f \in Seq(Record) /\ Consecutive(f)
        /\ LastSeq(f) \in Nat /\ f[1].seq \in Nat /\ f[1].seq > 0
    BY FramesAre DEF Base, AgreeInv, FramesInv, Frame, Record
  <1>2. \A r \in FrameRecords(hist) : /\ r \in Record /\ r.seq \in Nat
                                      /\ r.seq < f[1].seq
    <2> SUFFICES ASSUME NEW g \in hist, NEW r \in ToSet(g)
                 PROVE  r \in Record /\ r.seq \in Nat /\ r.seq < f[1].seq
      BY DEF FrameRecords
    <2>1. g \in Carried /\ g # <<>>
      BY FramesAre DEF Frame
    <2>2. r \in Record /\ r.seq \in Nat /\ r.seq =< LastSeq(g) /\ LastSeq(g) \in Nat
      BY <2>1, FramesAre
    <2> QED
      BY <1>1, <2>2
  <1>3. FrameRecords(hist \cup {f}) = FrameRecords(hist) \cup ToSet(f)
    BY DEF FrameRecords
  <1>4. ASSUME NEW k \in Keys
        PROVE  HistView(hist \cup {f})[k] =
                 IF {i \in DOMAIN f : f[i].key = k} = {}
                    THEN HistView(hist)[k]
                    ELSE f[KV!Max({i \in DOMAIN f : f[i].key = k})].val
    <2> DEFINE at == {i \in DOMAIN f : f[i].key = k}
               X  == RecordsAt(hist \cup {f}, k)
    <2>1. CASE at = {}
      <3>1. \A r \in ToSet(f) : r.key # k
        BY <2>1 DEF ToSet
      <3>2. X = RecordsAt(hist, k)
        BY <1>3, <3>1 DEF RecordsAt
      <3> QED
        BY <2>1, <3>2, HistViewIs
    <2>2. CASE at # {}
      <3> DEFINE last == KV!Max(at)
      <3>1. at \subseteq 1 .. Len(f) /\ Len(f) \in Nat /\ DOMAIN f = 1 .. Len(f)
        BY <1>1
      <3>2. last \in at /\ \A i \in at : i =< last
        BY <2>2, <3>1, LatestOf
      <3> HIDE DEF last
      <3>3. f[last] \in ToSet(f) /\ f[last].key = k /\ f[last] \in Record
        BY <1>1, <3>1, <3>2 DEF ToSet
      <3>4. VersionOf(f[last]) \in X
        BY <1>3, <3>3 DEF RecordsAt
      <3>5. X \in SUBSET Version
        <4>1. \A r \in ToSet(f) : r \in Record
          BY <1>1, FrameSeqsAre
        <4>2. \A r \in Record : VersionOf(r) \in Version
          BY DEF VersionOf, Version, Record
        <4> QED
          BY <1>2, <1>3, <4>1, <4>2 DEF RecordsAt
      <3>6. ASSUME NEW w \in X
            PROVE  /\ w.seq =< f[last].seq
                   /\ w.seq = f[last].seq => w = VersionOf(f[last])
        <4>1. PICK r \in FrameRecords(hist) \cup ToSet(f) : r.key = k /\ w = VersionOf(r)
          BY <1>3, <3>6 DEF RecordsAt
        <4>2. w.seq = r.seq
          BY <4>1 DEF VersionOf
        <4>3. f[last].seq \in Nat /\ f[last].seq = f[1].seq + (last - 1) /\ last \in Nat /\ 1 =< last
          BY <1>1, <3>1, <3>2, <3>3 DEF Consecutive, Record
        <4>4. CASE r \in FrameRecords(hist)
          BY <1>1, <1>2, <4>2, <4>3, <4>4
        <4>5. CASE r \in ToSet(f)
          <5>1. PICK i \in DOMAIN f : r = f[i]
            BY <4>5 DEF ToSet
          <5>2. i \in at /\ i \in Nat /\ i =< last
            BY <3>1, <3>2, <4>1, <5>1
          <5>3. r.seq = f[1].seq + (i - 1)
            BY <1>1, <5>1 DEF Consecutive
          <5>4. r.seq = f[last].seq => i = last
            BY <1>1, <4>3, <5>2, <5>3
          <5> QED
            BY <1>1, <4>1, <4>2, <4>3, <5>1, <5>2, <5>3, <5>4
        <4> QED
          BY <4>1, <4>4, <4>5
      <3>7. Newest(X) = VersionOf(f[last])
        BY <3>4, <3>5, <3>6, NewestIs DEF VersionOf
      <3>8. HistView(hist \cup {f})[k] = f[last].val
        BY <3>7, HistViewIs DEF VersionOf
      <3> QED
        BY <2>2, <3>8 DEF last
    <2> QED
      BY <2>1, <2>2
  <1>5. MappedView = HistView(hist)
    BY DEF Mapping
  <1>6. /\ HistView(hist \cup {f}) = [k \in Keys |-> HistView(hist \cup {f})[k]]
        /\ KV!Effect(f) = [k \in Keys |-> KV!Effect(f)[k]]
    BY DEF HistView, Visible, KV!Effect
  <1>7. \A k \in Keys : HistView(hist \cup {f})[k] = KV!Effect(f)[k]
    BY <1>4, <1>5 DEF KV!Effect
  <1> QED
    BY <1>6, <1>7

LEMMA WritesAreOps ==
    ASSUME \/ \E k \in Keys, v \in Vals : Put(k, v)
           \/ \E k \in Keys : Delete(k)
           \/ \E b \in Batches : WriteBatch(b)
    PROVE  \E ops \in Ops : ops \in Seq(Op) /\ ops # <<>> /\ BeginWrite(ops)
  <1>1. /\ \A k \in Keys, v \in Contents : <<[key |-> k, val |-> v]>> \in Ops
        /\ Batches \subseteq Ops
    BY DEF Ops
  <1> QED
    BY <1>1, OpsType DEF Put, Delete, WriteBatch

LEMMA FramesAreWrites ==
    ASSUME TypeInv, NEW ops \in Ops, ops \in Seq(Op), ops # <<>>, CanWrite(ops)
    PROVE  NewFrame(ops) \in AllWrites
  <1>1. /\ nextSeq \in Nat /\ MaxSeq \in Nat /\ Len(ops) \in Nat \ {0}
        /\ nextSeq + Len(ops) =< MaxSeq /\ DOMAIN ops = 1 .. Len(ops)
    BY LSMKVAssumption DEF TypeInv, TypeOK, WALTypeOK, CanWrite
  <1>2. nextSeq + 1 \in 1 .. MaxSeq
    BY <1>1
  <1>3. \A i \in DOMAIN ops : (nextSeq + 1) + i - 1 = nextSeq + i
    BY <1>1
  <1>4. NewFrame(ops) = NumberedFrom(ops, nextSeq + 1)
    BY <1>3 DEF NewFrame, NumberedFrom
  <1> QED
    BY <1>2, <1>4 DEF AllWrites

LEMMA MappedBegin ==
    ASSUME Base, Base', RecInv, Mapping, Mapping',
           NEW ops \in Ops, ops \in Seq(Op), ops # <<>>, BeginWrite(ops)
    PROVE  KVStep
  <1> DEFINE f == pending'
  <1>1. /\ pc = "idle" /\ pc' = "sync" /\ frames' = Append(frames, f)
        /\ UNCHANGED <<durable, hist, stable>>
    BY DEF BeginWrite, CanWrite, AppendFrame, RecInv, LogInv, ghosts
  <1>2. f \in AllWrites
    BY FramesAreWrites DEF BeginWrite, Base
  <1>3. f \in Frame /\ frames \in Seq(Frame)
    BY NewFrameConsecutive, FramesAre DEF Base
  <1>4. Counted' = hist /\ Counted = hist
    BY <1>1 DEF Counted
  <1>5. \A g \in hist : LastSeq(g) < f[1].seq
    BY <1>1 DEF Base, OrderInv
  <1>6. f \notin hist
    <2>1. pending' \in Carried' /\ pending' # <<>> /\ FramesInv'
      BY <1>3 DEF Carried, Base, AgreeInv, Frame
    <2>2. f[1] \in ToSet(f) /\ f[1].seq =< LastSeq(f) /\ LastSeq(f) \in Nat /\ f[1].seq \in Nat
      BY <1>3, <2>1, LastIsHighest, LastSeqIn, FrameSeqsAre DEF FramesInv, Frame, LastSeq
    <2> QED
      BY <1>5, <2>2
  <1> HIDE DEF f
  <1>7. ToSet(frames') = ToSet(frames) \cup {f}
    <2>1. /\ DOMAIN frames' = DOMAIN frames \cup {Len(frames) + 1}
          /\ frames'[Len(frames) + 1] = f
          /\ \A i \in DOMAIN frames : frames'[i] = frames[i]
      BY <1>1, <1>3
    <2> QED
      BY <2>1 DEF ToSet
  <1>8. OnFile' = OnFile \cup {f}
    BY <1>1, <1>7 DEF OnFile
  <1>9. /\ MappedUnsure' = MappedUnsure \cup {f}
        /\ UNCHANGED <<MappedView, MappedLog, stable>>
    BY <1>1, <1>4, <1>6, <1>8, MappingThen DEF Mapping
  <1>10. \A g \in MappedLog : KV!After(f, g)
    BY <1>4, <1>5, KVOperators DEF KV!After, Mapping
  <1> QED
    BY <1>2, <1>9, <1>10 DEF KVStep, KV!KVNext, KV!Begin

LEMMA MappedTake ==
    ASSUME Base, RecInv, Mapping, Mapping', FinishWrite
    PROVE  KVStep
  <1> DEFINE f == pending
  <1>1. /\ pc = "sync" /\ pc' # "down" /\ frames' = frames /\ hist' = hist \cup {f}
        /\ durable' \in {durable, frames} /\ stable' \in {stable, LastSeq(f)}
    BY DEF FinishWrite, Fsync, Larger
  <1>2. /\ f \in Carried /\ f # <<>> /\ f \in ToSet(frames)
        /\ \A g \in hist : LastSeq(g) < f[1].seq
    BY <1>1, FramesAre DEF Base, OrderInv, TypeInv, PcInv, Carried, RecInv, LogInv, ToSet
  <1>3. f[1].seq =< LastSeq(f) /\ f[1].seq \in Nat /\ LastSeq(f) \in Nat
    BY <1>2, FramesAre
  <1>4. f \notin hist
    BY <1>2, <1>3
  <1>5. Counted = hist /\ Counted' = hist \cup {f}
    BY <1>1 DEF Counted
  <1>6. OnFile' \subseteq OnFile /\ f \in OnFile
    BY <1>1, <1>2 DEF OnFile
  <1>7. HistView(hist \cup {f}) = KV!Effect(f)
    BY <1>2, <1>5, EffectIs
  <1>8. f \in MappedUnsure /\ \A g \in MappedLog : KV!After(f, g)
    BY <1>2, <1>4, <1>5, <1>6, KVOperators DEF KV!After, Mapping
  <1>9. /\ MappedView' = KV!Effect(f)
        /\ MappedLog' = MappedLog \cup {f}
        /\ MappedUnsure' \in SUBSET (MappedUnsure \ {f})
        /\ stable' \in {stable, KV!LastSeq(f)}
    BY <1>1, <1>5, <1>6, <1>7, MappingThen, KVOperators DEF Mapping
  <1> HIDE DEF f
  <1> QED
    BY <1>8, <1>9 DEF KVStep, KV!KVNext, KV!Take

LEMMA MappedOpen ==
    ASSUME Mapping, Mapping', NEW ro \in BOOLEAN, Open(ro)
    PROVE  KVStep
  <1>1. pc = "down" /\ pc' = "replay" /\ hist' = RecoveredHist(frames) /\ frames' = frames
        /\ UNCHANGED <<durable, stable>>
    BY DEF Open, RecoverLog
  <1> QED
    BY <1>1, MappedNothing DEF Counted, OnFile

LEMMA MappedQuiet ==
    ASSUME Mapping, Mapping', UNCHANGED <<frames, durable, hist, stable>>,
           pc # "down" /\ pc' # "down"
    PROVE  KVStep
  BY MappedNothing DEF Counted, OnFile

LEMMA MappedOpenFails ==
    ASSUME Base, Mapping, Mapping', OpenFails
    PROVE  KVStep
  <1>1. /\ pc = "down" /\ pc' = "down" /\ frames' = frames /\ durable' = frames
        /\ UNCHANGED <<hist, stable, files, mfDisk>>
    BY DEF OpenFails, RecoverLog, Fsync, mfVars, dbVars, ghosts
  <1>2. RecoverableSeq(frames)' = RecoverableSeq(frames)
    BY <1>1, SameDisk DEF RecoverableSeq
  <1>3. Counted' = Counted
    BY <1>1, <1>2 DEF Counted, RecoveredHist
  <1> QED
    BY <1>1, <1>3, MappedSettle DEF OnFile

LEMMA MappedSync ==
    ASSUME Base, Mapping, Mapping', Sync
    PROVE  KVStep
  <1>1. /\ pc # "down" /\ pc' # "down" /\ frames' = frames /\ durable' = frames /\ hist' = hist
        /\ stable' = Larger(stable, HistSeq)
    BY DEF Sync, Fsync, dbVars
  <1> QED
    BY <1>1, MappedSettle DEF OnFile, Counted

LEMMA MappedReset ==
    ASSUME Base, Mapping, Mapping', FlushReset
    PROVE  KVStep
  <1>1. /\ pc # "down" /\ pc' # "down" /\ hist' = hist
        /\ frames' \in {frames, <<>>} /\ durable' \in {durable, <<>>}
        /\ stable' \in {stable, Larger(stable, HistSeq)}
    BY DEF FlushReset, FlushFails, ResetLog, ResetLogUnsynced, walVars
  <1>2. OnFile' \subseteq OnFile
    BY <1>1, ToSetEmpty DEF OnFile
  <1> QED
    BY <1>1, <1>2, MappedSettle DEF Counted

LEMMA StepMapped ==
    ASSUME Harmless, Base, Base', RecInv, RecInv', ImplInv, ImplInv', Mapping, Mapping',
           [Next]_vars
    PROVE  KVStep
  <1>1. ~ReplayCancelled
    BY DEF Harmless, ReplayCancelled, Fault
  <1>2. CASE \/ \E k \in Keys, v \in Vals : Put(k, v)
             \/ \E k \in Keys : Delete(k)
             \/ \E b \in Batches : WriteBatch(b)
    BY <1>2, WritesAreOps, MappedBegin
  <1>3. CASE \E ro \in BOOLEAN : Open(ro)
    BY <1>3, MappedOpen
  <1>4. CASE FinishWrite
    BY <1>4, MappedTake
  <1>5. CASE FinishClose \/ Kill \/ PowerLoss
    BY <1>5, MappedRestart
  <1>6. CASE OpenFails
    BY <1>6, MappedOpenFails
  <1>7. CASE Sync
    BY <1>7, MappedSync
  <1>8. CASE FlushReset
    BY <1>8, MappedReset
  <1>9. CASE \/ \E ops \in Seq(Op) : WriteFails(ops)
             \/ SyncFails \/ Flush \/ Compact \/ Close \/ ReplayFrame \/ ReplayDone
    <2>1. UNCHANGED <<frames, durable, hist, stable>> /\ pc # "down" /\ pc' # "down"
      BY <1>9 DEF WriteFails, CanWrite, AppendNothing, AppendTorn, SyncFails, Flush, Compact, Close,
                  StartClose, ReplayFrame, ReplayDone, walVars, dbVars, ghosts
    <2> QED
      BY <2>1, MappedQuiet
  <1>10. CASE \/ FlushAlloc \/ FlushCreate \/ FlushFinish \/ FlushAdd \/ FlushOpen
              \/ MergeAlloc \/ MergeCreate \/ MergeFinish \/ MergeOpen \/ MergeReplace \/ MergeRemove
    <2>1. UNCHANGED <<frames, durable, hist, stable>> /\ pc # "down" /\ pc' # "down"
      BY <1>10 DEF FlushAlloc, FlushCreate, FlushFinish, FlushAdd, FlushOpen, FlushFails, MergeAlloc,
                   MergeCreate, MergeFinish, MergeOpen, MergeReplace, MergeRemove, MergeFails,
                   walVars, ghosts
    <2> QED
      BY <2>1, MappedQuiet
  <1>11. CASE UNCHANGED vars
    <2>1. UNCHANGED <<pc, frames, durable, hist, stable, files, mfDisk>>
      BY <1>11 DEF vars, walVars, mfVars, dbVars, ghosts
    <2>2. RecoverableSeq(frames)' = RecoverableSeq(frames)
      BY <2>1, SameDisk DEF RecoverableSeq
    <2> QED
      BY <2>1, <2>2, MappedNothing DEF Counted, RecoveredHist, OnFile
  <1>12. CASE \E b \in Batches : WriteFails(b)
    BY <1>9, <1>12, OpsType
  <1>13. CASE \E k \in Keys \ {EmptyKey}, v \in Contents : WriteFails(<<[key |-> k, val |-> v]>>)
    BY <1>9, <1>13, OpsType
  <1>14. CASE StartOp
    BY <1>2, <1>3, <1>6, <1>7, <1>9, <1>12, <1>13, <1>14 DEF StartOp
  <1>15. CASE Continue
    BY <1>1, <1>4, <1>5, <1>8, <1>9, <1>10, <1>15 DEF Continue
  <1> QED
    BY <1>5, <1>11, <1>14, <1>15 DEF Next, Crash

LEMMA InitMapped ==
    ASSUME Init, Mapping
    PROVE  KV!KVInit
  <1>1. frames = <<>> /\ durable = <<>> /\ hist = {} /\ pc = "down" /\ stable = 0
    BY DEF Init, WALInit
  <1>2. Counted = {} /\ OnFile = {}
    BY <1>1, ToSetEmpty DEF Counted, RecoveredHist, OnFile
  <1>3. \A k \in Keys : RecordsAt({}, k) = {}
    BY DEF RecordsAt, FrameRecords
  <1>4. \A k \in Keys : HistView({})[k] = Tombstone
    BY <1>3, HistViewIs DEF Newest, NoVersion
  <1>5. HistView({}) = [k \in Keys |-> Tombstone]
    BY <1>4 DEF HistView, Visible
  <1> QED
    BY <1>1, <1>2, <1>5 DEF KV!KVInit, Mapping

\* Every behaviour of the engine, with its crashes and the failures that do no
\* harm, is one of the abstract map: what a reader sees changes by whole writes,
\* in the order of their numbers, and a restart undoes the latest of them and
\* none that was promised.
THEOREM EngineImplementsMap ==
    ASSUME Harmless
    PROVE  Spec => ImplementsDurableKV
  <1>1. Base /\ RecInv /\ ImplInv => Mapping
    BY MappingIs
  <1>2. Init /\ Mapping => KV!KVInit
    BY InitMapped
  <1>3. Base /\ RecInv /\ ImplInv /\ Base' /\ RecInv' /\ ImplInv'
            /\ Mapping /\ Mapping' /\ [Next]_vars
           => KVStep
    BY StepMapped
  <1>4. KVStep <=> [KV!KVNext]_(KV!kvVars)
    BY DEF KVStep
  <1> QED
    BY <1>1, <1>2, <1>3, <1>4, Implements, PTL DEF Spec, ImplementsDurableKV, KV!KVSpec
=============================================================================
