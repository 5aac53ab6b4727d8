------------------------------ MODULE StoreProofs ---------------------------
(***************************************************************************)
(* The list, the log and the tables of DataPath together, for every value  *)
(* of the constants: which of them has the newest version of a key, what   *)
(* Get and an iterator make of them, and that all of it is, step by step,  *)
(* the functions of TableStore.  At the end, the numbers of varintx.       *)
(***************************************************************************)
EXTENDS TableProofs

-----------------------------------------------------------------------------
(* Where the newest version of a key is.                                     *)

ListedIn(l)  == {EntryOf(k, l.entry[k]) : k \in Nodes(l)}
EntriesOf(t) == ToSet(Scan(t.file, {}))
StoredIn(ts) == UNION {EntriesOf(ts[i]) : i \in DOMAIN ts}

Listed == ListedIn(list)
Stored == StoredIn(tables)

\* What is listed is in the log; a number is that of one version, wherever it is;
\* a key that is listed is not newer in a table, and neither is one that is logged:
\* its last version in the log is not older than any in a table.
Foremost(L, S, G, n) ==
    /\ L \subseteq G
    /\ \A e \in S : 0 < e.seq /\ e.seq =< n
    /\ \A e, d \in S \cup G : e.seq = d.seq => e = d
    /\ \A d \in L, e \in S : e.key = d.key => e.seq =< d.seq
    /\ \A r \in G, e \in S : r.key = e.key => \E s \in G : s.key = e.key /\ e.seq =< s.seq

StoreInv == TablesInv /\ Foremost(Listed, Stored, Logged, nextSeq)

LEMMA ForemostFewer ==
    ASSUME NEW L, NEW S, NEW G, NEW n, Foremost(L, S, G, n), NEW T \in SUBSET S
    PROVE  Foremost(L, T, G, n)
  BY DEF Foremost

\* A flush.
LEMMA ForemostFlush ==
    ASSUME NEW L, NEW S \in SUBSET Record, NEW G \in SUBSET Record, NEW n, Foremost(L, S, G, n),
           \A r \in G : 0 < r.seq /\ r.seq =< n
    PROVE  Foremost({}, S \cup L, {}, n) /\ Foremost({}, S \cup L, G, n)
  <1>1. \A e \in L : e \in G /\ e.seq \in Nat
    BY DEF Foremost, Record
  <1>2. \A e, d \in S \cup L \cup G : e.seq = d.seq => e = d
    BY DEF Foremost
  <1>3. \A e \in S \cup L : 0 < e.seq /\ e.seq =< n
    BY <1>1 DEF Foremost
  <1>4. ASSUME NEW r \in G, NEW e \in S \cup L, r.key = e.key
        PROVE  \E s \in G : s.key = e.key /\ e.seq =< s.seq
    <2>1. CASE e \in S
      BY <1>4, <2>1 DEF Foremost
    <2>2. CASE e \in L
      BY <2>2, <1>1
    <2> QED
      BY <2>1, <2>2
  <1>5. \A e, d \in S \cup L : e.seq = d.seq => e = d
    BY <1>2
  <1>6. \A e, d \in (S \cup L) \cup {} : e.seq = d.seq => e = d
    BY <1>5
  <1> QED
    BY <1>2, <1>3, <1>4, <1>6 DEF Foremost

\* A write: what it adds has higher numbers than all there was.
LEMMA ForemostWrite ==
    ASSUME NEW L, NEW S \in SUBSET Record, NEW G \in SUBSET Record, NEW n \in Nat, Foremost(L, S, G, n),
           \A r \in G : 0 < r.seq /\ r.seq =< n,
           NEW F \in SUBSET Record, NEW m \in Nat, n =< m, \A r \in F : n < r.seq /\ r.seq =< m,
           \A r, s \in F : r.seq = s.seq => r = s,
           NEW M \in SUBSET (L \cup F)
    PROVE  Foremost(M, S, G \cup F, m)
  <1>1. \A e \in S \cup G \cup F : e.seq \in Nat
    BY DEF Record
  <1>2. \A e \in S : 0 < e.seq /\ e.seq =< n
    BY DEF Foremost
  <1>3. \A e \in S : 0 < e.seq /\ e.seq =< m
    BY <1>1, <1>2
  <1>4. \A e \in S \cup G, d \in F : e.seq < d.seq
    BY <1>1, <1>2
  <1>5. ASSUME NEW e \in S \cup (G \cup F), NEW d \in S \cup (G \cup F), e.seq = d.seq
        PROVE  e = d
    <2>1. CASE e \in S \cup G /\ d \in S \cup G
      BY <2>1, <1>5 DEF Foremost
    <2>2. CASE e \in F /\ d \in F
      BY <2>2, <1>5
    <2>3. ~(e.seq < d.seq) /\ ~(d.seq < e.seq)
      BY <1>1, <1>5
    <2> QED
      BY <2>1, <2>2, <2>3, <1>4
  <1>6. ASSUME NEW d \in M, NEW e \in S, e.key = d.key
        PROVE  e.seq =< d.seq
    <2>1. CASE d \in L
      BY <2>1, <1>6 DEF Foremost
    <2>2. CASE d \in F
      BY <2>2, <1>1, <1>4
    <2> QED
      BY <2>1, <2>2
  <1>7. ASSUME NEW r \in G \cup F, NEW e \in S, r.key = e.key
        PROVE  \E s \in G \cup F : s.key = e.key /\ e.seq =< s.seq
    <2>1. CASE r \in G
      <3>1. PICK s \in G : s.key = e.key /\ e.seq =< s.seq
        BY <2>1, <1>7 DEF Foremost
      <3> QED
        BY <3>1
    <2>2. CASE r \in F
      <3>1. e.seq =< r.seq
        BY <2>2, <1>1, <1>4
      <3> QED
        BY <3>1, <1>7
    <2> QED
      BY <2>1, <2>2
  <1>8. M \subseteq G \cup F
    BY DEF Foremost
  <1> QED
    BY <1>3, <1>5, <1>6, <1>7, <1>8 DEF Foremost

\* A restart: what the log has is listed again, the last of each key.
LEMMA ForemostReplay ==
    ASSUME NEW L, NEW S \in SUBSET Record, NEW G \in SUBSET Record, NEW n, Foremost(L, S, G, n),
           NEW M \in SUBSET G, \A r \in G, d \in M : r.key = d.key => r.seq =< d.seq
    PROVE  Foremost(M, S, G, n)
  <1>1. ASSUME NEW d \in M, NEW e \in S, e.key = d.key
        PROVE  e.seq =< d.seq
    <2>1. PICK s \in G : s.key = e.key /\ e.seq =< s.seq
      BY <1>1 DEF Foremost
    <2>2. s.seq =< d.seq
      BY <2>1, <1>1
    <2>3. e.seq \in Nat /\ s.seq \in Nat /\ d.seq \in Nat
      BY DEF Record
    <2> QED
      BY <2>1, <2>2, <2>3
  <1> QED
    BY <1>1 DEF Foremost

-----------------------------------------------------------------------------
(* The list and the tables, as sets of entries.                              *)

LEMMA SetFrameListed ==
    ASSUME NEW l, ListInv(l), NEW frame \in Seq(Record), NEW heights \in [Keys -> 1 .. MaxLevel],
           NEW m, m = SetFrame(l, frame, heights)
    PROVE  /\ ListedIn(m) \subseteq ListedIn(l) \cup ToSet(frame)
           /\ \A r \in ToSet(frame), d \in ListedIn(m) : r.key = d.key => r.seq =< d.seq
  <1>1. /\ Nodes(m) = Nodes(l) \cup {r.key : r \in ToSet(frame)}
        /\ \A k \in Nodes(m) :
              /\ m.entry[k] \in (IF k \in Nodes(l) THEN {l.entry[k]} ELSE {}) \cup
                                {VersionOf(r) : r \in {s \in ToSet(frame) : s.key = k}}
              /\ \A r \in ToSet(frame) : r.key = k => r.seq =< m.entry[k].seq
    BY SetFrameIs
  <1>2. \A r \in ToSet(frame) : r = EntryOf(r.key, VersionOf(r))
    <2>1. \A r \in ToSet(frame) : r \in Record
      BY DEF ToSet
    <2> QED
      BY <2>1 DEF EntryOf, VersionOf, Record
  <1>3. ASSUME NEW k \in Nodes(m)
        PROVE  EntryOf(k, m.entry[k]) \in ListedIn(l) \cup ToSet(frame)
    <2>1. CASE k \in Nodes(l) /\ m.entry[k] = l.entry[k]
      BY <2>1 DEF ListedIn
    <2>2. CASE \E r \in ToSet(frame) : r.key = k /\ m.entry[k] = VersionOf(r)
      BY <2>2, <1>2
    <2> QED
      BY <2>1, <2>2, <1>1
  <1>4. \A d \in ListedIn(m) : \E k \in Nodes(m) : d = EntryOf(k, m.entry[k]) /\ d.key = k /\ d.seq = m.entry[k].seq
    BY DEF ListedIn, EntryOf
  <1> QED
    BY <1>1, <1>3, <1>4

LEMMA SnapshotListed ==
    ASSUME NEW l, ListInv(l)
    PROVE  ToSet(Snapshot(l)) = ListedIn(l)
  <1>1. ListTyped(l) /\ Linked(l)
    BY DEF ListInv
  <1>2. /\ 1 \in 1 .. MaxLevel /\ NoKey \in Level(l, 1)
        /\ Nodes(l) \subseteq Keys /\ \A k \in Nodes(l) : 1 =< Len(l.next[k])
    <2>1. MaxLevel \in Nat \ {0} /\ Nodes(l) \subseteq Keys /\ \A k \in Nodes(l) : Len(l.next[k]) \in 1 .. l.level
      BY <1>1, TypedIs
    <2> QED
      BY <2>1, <1>1, LevelIs
  <1>3. PICK s : s = KeysAfter(l, NoKey, 1)
    OBVIOUS
  <1>4. s \in Seq(Keys) /\ ToSet(s) = After(l, 1, NoKey)
    BY <1>1, <1>2, <1>3, KeysAfterIs
  <1>5. After(l, 1, NoKey) = Nodes(l)
    <2>1. Reaching(l, 1) = {k \in Nodes(l) : 1 =< Len(l.next[k])}
      BY <1>1, <1>2, LevelIs
    <2>2. Reaching(l, 1) = Nodes(l)
      BY <2>1, <1>2
    <2>3. \A k \in Nodes(l) : KeyLess(NoKey, k)
      BY <1>2, NoKeyFirst, KeysAreKeys
    <2> QED
      BY <2>2, <2>3 DEF After
  <1>6. PICK es : es = Snapshot(l)
    OBVIOUS
  <1>7. DOMAIN s = 1 .. Len(s) /\ Nodes(l) = {s[i] : i \in 1 .. Len(s)}
    BY <1>4, <1>5 DEF ToSet
  <1>8. es = [i \in 1 .. Len(s) |-> EntryOf(s[i], l.entry[s[i]])]
    BY <1>3, <1>6, <1>7 DEF Snapshot, EntryOf
  <1>9. ToSet(es) = {EntryOf(s[i], l.entry[s[i]]) : i \in 1 .. Len(s)}
    BY <1>8 DEF ToSet
  <1>10. ListedIn(l) = {EntryOf(s[i], l.entry[s[i]]) : i \in 1 .. Len(s)}
    BY <1>7 DEF ListedIn
  <1> QED
    BY <1>6, <1>9, <1>10

LEMMA StoredType ==
    ASSUME TablesGood
    PROVE  Stored \in SUBSET Entry
  <1>1. ASSUME NEW i \in DOMAIN tables PROVE EntriesOf(tables[i]) \in SUBSET Entry
    <2>1. PICK es \in Seq(Entry) : FileOf(tables[i].file, es)
      BY DEF TablesGood, TableSound
    <2>2. Scan(tables[i].file, {}) = es
      BY <2>1, ScanIs
    <2> QED
      BY <2>2 DEF EntriesOf, ToSet
  <1> QED
    BY <1>1 DEF Stored, StoredIn

LEMMA StoredAppend ==
    ASSUME NEW S, NEW ts \in Seq(S), NEW t
    PROVE  StoredIn(Append(ts, t)) = StoredIn(ts) \cup EntriesOf(t)
  <1>1. PICK us : us = Append(ts, t)
    OBVIOUS
  <1>2. /\ DOMAIN us = (1 .. Len(ts)) \cup {Len(ts) + 1} /\ DOMAIN ts = 1 .. Len(ts)
        /\ us[Len(ts) + 1] = t /\ \A i \in 1 .. Len(ts) : us[i] = ts[i]
    <2>1. ts = [i \in 1 .. Len(ts) |-> ts[i]] /\ Len(ts) \in Nat
      OBVIOUS
    <2> QED
      BY <2>1, <1>1
  <1> QED
    BY <1>1, <1>2 DEF StoredIn

\* A file holds what its Writer was given.
LEMMA OpenedEntries ==
    ASSUME NEW level, NEW file, NEW es, FileOf(file, es)
    PROVE  EntriesOf(Opened(level, file)) = ToSet(es)
  <1>1. Scan(file, {}) = es
    BY ScanIs
  <1> QED
    BY <1>1 DEF Opened, EntriesOf

\* An iterator delivers nothing that is not in the table.
LEMMA ScanOfStored ==
    ASSUME NEW t, TableSound(t)
    PROVE  ToSet(ScanOf(t)) \subseteq EntriesOf(t)
  <1>1. PICK es \in Seq(Entry) : FileOf(t.file, es)
    BY DEF TableSound
  <1>2. t.bad \in SUBSET (1 .. Len(t.file.blocks))
    BY DEF TableSound
  <1>3. PICK m \in 0 .. Len(es) : Scan(t.file, t.bad) = SubSeq(es, 1, m)
    BY <1>1, <1>2, ScanIs
  <1>4. PICK s : s = SubSeq(es, 1, m)
    OBVIOUS
  <1>5. Len(es) \in Nat /\ m \in Nat
    BY <1>1
  <1>6. s \in Seq(Entry) /\ Len(s) = m /\ \A i \in 1 .. m : s[i] = es[i] /\ i \in DOMAIN es
    BY <1>1, <1>3, <1>4, <1>5
  <1>7. DOMAIN s = 1 .. m
    BY <1>6
  <1>8. ToSet(s) \subseteq ToSet(es)
    BY <1>6, <1>7 DEF ToSet
  <1>9. Scan(t.file, {}) = es
    BY <1>1, ScanIs
  <1> QED
    BY <1>3, <1>4, <1>8, <1>9 DEF ScanOf, EntriesOf
-----------------------------------------------------------------------------
(* The invariant.                                                            *)

\* What there is of types in it.
LEMMA StoreTypes ==
    ASSUME StoreInv
    PROVE  /\ LogInv /\ TablesGood /\ nextSeq =< MaxSeq /\ Foremost(Listed, Stored, Logged, nextSeq)
           /\ nextSeq \in Nat /\ ListInv(list) /\ frames \in Seq(Seq(Record))
           /\ Stored \in SUBSET Record /\ Stored \in SUBSET Entry /\ Logged \in SUBSET Record
           /\ \A r \in Logged : 0 < r.seq /\ r.seq =< nextSeq
           /\ \A r, s \in Logged : r.seq = s.seq => r = s
  <1>1. /\ LogInv /\ TablesGood /\ nextSeq =< MaxSeq /\ Foremost(Listed, Stored, Logged, nextSeq)
    BY DEF StoreInv, TablesInv, TablesGood
  <1>2. nextSeq \in Nat /\ ListInv(list) /\ frames \in Seq(Seq(Record))
    BY <1>1 DEF LogInv, MemInv
  <1>3. Stored \in SUBSET Entry /\ Entry \in SUBSET Record
    BY <1>1, StoredType, EntriesAre
  <1>4. Logged \in SUBSET Record
    <2>1. \A f \in ToSet(frames) : f \in Seq(Record)
      BY <1>2 DEF ToSet
    <2>2. \A f \in ToSet(frames) : ToSet(f) \in SUBSET Record
      <3> TAKE f \in ToSet(frames)
      <3>1. f \in Seq(Record)
        BY <2>1
      <3> QED
        BY <3>1 DEF ToSet
    <2> QED
      BY <2>2 DEF Logged, FrameRecords
  <1>5. /\ \A r \in Logged : 0 < r.seq /\ r.seq =< nextSeq
        /\ \A r, s \in Logged : r.seq = s.seq => r = s
    BY <1>1 DEF LogInv, NumberedInv
  <1>6. Stored \in SUBSET Record
    BY <1>3
  <1> QED
    BY <1>1, <1>2, <1>3, <1>4, <1>5, <1>6

StoreForemost == Foremost(Listed, Stored, Logged, nextSeq)

LEMMA WriteForemost ==
    ASSUME StoreInv, NEW ops \in Batches, NEW heights \in Heights, Write(ops, heights)
    PROVE  StoreForemost'
  <1>1. PICK frame : frame = FrameOf(ops)
    OBVIOUS
  <1>2. PICK F : F = ToSet(frame)
    OBVIOUS
  <1>3. frame \in Seq(Record) /\ heights \in [Keys -> 1 .. MaxLevel] /\ Len(ops) \in Nat
    BY <1>1, StoreTypes, FrameOfType, DataPathAssumption
  <1>4. /\ \A r \in F : nextSeq < r.seq /\ r.seq =< nextSeq + Len(ops)
        /\ \A r, s \in F : r.seq = s.seq => r = s
    BY <1>1, <1>2, StoreTypes, FrameOfIs
  <1>5. /\ frames' = Append(frames, frame) /\ nextSeq' = nextSeq + Len(ops)
        /\ list' = SetFrame(list, frame, heights) /\ tables' = tables
    BY <1>1 DEF Write
  <1>6. Logged' = Logged \cup F
    BY <1>2, <1>3, <1>5, StoreTypes, FrameRecordsAppend DEF Logged
  <1>7. Listed' \in SUBSET (Listed \cup F)
    <2>1. PICK m : m = list'
      OBVIOUS
    <2>2. ListedIn(m) \subseteq ListedIn(list) \cup ToSet(frame)
      BY <2>1, <1>3, <1>5, StoreTypes, SetFrameListed
    <2>3. Listed' = ListedIn(m)
      BY <2>1 DEF Listed
    <2> QED
      BY <2>2, <2>3, <1>2 DEF Listed
  <1>8. Stored' = Stored
    BY <1>5 DEF Stored
  <1>9. PICK n \in Nat : n = nextSeq
    BY StoreTypes
  <1>10. PICK m \in Nat : m = nextSeq' /\ m = n + Len(ops) /\ n =< m
    BY <1>3, <1>5, <1>9
  <1>11. F \in SUBSET Record
    BY <1>2, <1>3 DEF ToSet
  <1>12. PICK M : M = Listed'
    OBVIOUS
  <1>13. Foremost(M, Stored, Logged \cup F, m)
    <2>1. \A r \in F : n < r.seq /\ r.seq =< m
      BY <1>4, <1>9, <1>10
    <2>2. Foremost(Listed, Stored, Logged, n)
      BY <1>9, StoreTypes
    <2>3. \A r \in Logged : 0 < r.seq /\ r.seq =< n
      BY <1>9, StoreTypes
    <2>4. M \in SUBSET (Listed \cup F) /\ Stored \in SUBSET Record /\ Logged \in SUBSET Record
      BY <1>7, <1>12, StoreTypes
    <2> QED
      BY <2>1, <2>2, <2>3, <2>4, <1>4, <1>10, <1>11, ForemostWrite
  <1> QED
    BY <1>6, <1>8, <1>10, <1>12, <1>13 DEF StoreForemost

LEMMA RestartForemost ==
    ASSUME StoreInv, NEW heights \in Heights, Restart(heights)
    PROVE  StoreForemost'
  <1>1. PICK frame : frame = FlattenSeq(frames)
    OBVIOUS
  <1>2. frame \in Seq(Record) /\ ToSet(frame) = Logged
    BY <1>1, StoreTypes, FlattenedIs DEF Logged, FrameRecords
  <1>3. heights \in [Keys -> 1 .. MaxLevel]
    BY DataPathAssumption
  <1>4. PICK m : m = list'
    OBVIOUS
  <1>5. m = SetFrame(NewList, frame, heights) /\ UNCHANGED <<frames, nextSeq, tables>>
    BY <1>1, <1>4 DEF Restart
  <1>6. /\ ListedIn(m) \subseteq ListedIn(NewList) \cup ToSet(frame)
        /\ \A r \in ToSet(frame), d \in ListedIn(m) : r.key = d.key => r.seq =< d.seq
    BY <1>2, <1>3, <1>5, NewListInv, SetFrameListed
  <1>7. ListedIn(NewList) = {}
    BY NewListLinked DEF ListedIn
  <1>8. Foremost(ListedIn(m), Stored, Logged, nextSeq)
    BY <1>2, <1>6, <1>7, StoreTypes, ForemostReplay
  <1> QED
    BY <1>4, <1>5, <1>8 DEF StoreForemost, Listed, Stored, Logged

LEMMA FlushForemost ==
    ASSUME StoreInv, Flush
    PROVE  StoreForemost'
  <1>1. PICK file : file = WriteFile(Snapshot(list))
    OBVIOUS
  <1>2. PICK es \in Seq(Entry) : es = Snapshot(list) /\ FileOf(file, es)
    BY <1>1, StoreTypes, FlushedIs
  <1>3. file.ok
    BY <1>2, OpenedSound
  <1>4. /\ tables' = Append(tables, Opened(0, file)) /\ list' = NewList
        /\ frames' = <<>> \/ frames' = frames
        /\ nextSeq' = nextSeq
    BY <1>1, <1>3 DEF Flush
  <1>5. Stored' = Stored \cup Listed
    <2>1. PICK S : tables \in Seq(S)
      BY StoreTypes DEF TablesGood
    <2>2. StoredIn(tables') = StoredIn(tables) \cup EntriesOf(Opened(0, file))
      BY <2>1, <1>4, StoredAppend
    <2>3. EntriesOf(Opened(0, file)) = Listed
      BY <1>2, OpenedEntries, SnapshotListed, StoreTypes DEF Listed
    <2> QED
      BY <2>2, <2>3 DEF Stored
  <1>6. Listed' = {}
    BY <1>4, NewListLinked DEF Listed, ListedIn
  <1>7. Logged' = {} \/ Logged' = Logged
    BY <1>4 DEF Logged, FrameRecords, ToSet
  <1>8. Foremost({}, Stored \cup Listed, {}, nextSeq) /\ Foremost({}, Stored \cup Listed, Logged, nextSeq)
    BY StoreTypes, ForemostFlush
  <1> QED
    BY <1>4, <1>5, <1>6, <1>7, <1>8 DEF StoreForemost

LEMMA CompactForemost ==
    ASSUME StoreInv, Compact
    PROVE  StoreForemost'
  <1>1. PICK merged, kept, file, es : Merges(merged, kept, file, es)
    BY StoreTypes, CompactIs
  <1>2. file.ok
    BY <1>1, OpenedSound DEF Merges
  <1>3. PICK rest : rest = [i \in DOMAIN kept |-> tables[kept[i]]]
    OBVIOUS
  <1>4. tables' = Append(rest, Opened(1, file))
    BY <1>1, <1>2, <1>3 DEF Merges
  <1>5. (\E S : rest \in Seq(S)) /\ \A i \in DOMAIN rest : kept[i] \in DOMAIN tables /\ rest[i] = tables[kept[i]]
    <2>1. TablesGood
      BY StoreTypes
    <2> QED
      BY <2>1, <1>1, <1>3, KeptAre
  <1>6. StoredIn(rest) \subseteq Stored
    BY <1>5 DEF StoredIn, Stored
  <1>7. ToSet(es) \subseteq Stored
    <2>1. \A i \in merged : i \in DOMAIN tables /\ TableSound(tables[i])
      BY <1>1, StoreTypes DEF Merges, TablesGood
    <2>2. Delivered(merged) \subseteq Stored
      BY <2>1, ScanOfStored DEF Delivered, Stored, StoredIn
    <2> QED
      BY <2>2, <1>1 DEF Merges
  <1>8. StoredIn(tables') \in SUBSET Stored
    <2>1. StoredIn(tables') = StoredIn(rest) \cup EntriesOf(Opened(1, file))
      BY <1>4, <1>5, StoredAppend
    <2>2. EntriesOf(Opened(1, file)) = ToSet(es)
      BY <1>1, OpenedEntries DEF Merges
    <2> QED
      BY <2>1, <2>2, <1>6, <1>7
  <1>9. UNCHANGED <<list, frames, nextSeq>>
    BY DEF Compact
  <1>10. Foremost(Listed, StoredIn(tables'), Logged, nextSeq)
    BY <1>8, StoreTypes, ForemostFewer
  <1> QED
    BY <1>9, <1>10 DEF StoreForemost, Listed, Stored, Logged

LEMMA DamageForemost ==
    ASSUME StoreInv, NEW d \in DOMAIN tables, Damage(d)
    PROVE  StoreForemost'
  <1>1. PICK b \in DOMAIN tables[d].file.blocks : tables' = [tables EXCEPT ![d].bad = @ \cup {b}]
    BY DEF Damage
  <1>2. DOMAIN tables' = DOMAIN tables /\ \A i \in DOMAIN tables : tables'[i].file = tables[i].file
    BY <1>1, StoreTypes DEF TablesGood, TableSound
  <1>3. Stored' = Stored
    BY <1>2 DEF Stored, StoredIn, EntriesOf
  <1>4. UNCHANGED <<list, frames, nextSeq>>
    BY DEF Damage
  <1> QED
    BY <1>3, <1>4, StoreTypes DEF StoreForemost, Listed, Logged

LEMMA StoreStep == StoreInv /\ [Next]_vars => StoreInv'
  <1> SUFFICES ASSUME StoreInv, [Next]_vars PROVE StoreInv'
    OBVIOUS
  <1>1. TablesInv'
    BY TablesStep DEF StoreInv
  <1>2. ASSUME StoreForemost' PROVE StoreInv'
    BY <1>1, <1>2 DEF StoreInv, StoreForemost
  <1>3. ASSUME UNCHANGED <<list, frames, nextSeq, tables>> PROVE StoreInv'
    BY <1>2, <1>3 DEF StoreInv, StoreForemost, Listed, Stored, Logged
  <1>4. CASE \E ops \in Batches, heights \in Heights : Write(ops, heights)
    BY <1>2, <1>4, WriteForemost
  <1>5. CASE \E heights \in Heights : Restart(heights)
    BY <1>2, <1>5, RestartForemost
  <1>6. CASE \E i \in DOMAIN tables : Damage(i)
    BY <1>2, <1>6, DamageForemost
  <1>7. CASE Flush
    BY <1>2, <1>7, FlushForemost
  <1>8. CASE Compact
    BY <1>2, <1>8, CompactForemost
  <1>9. CASE \E target \in Targets : Seek(target) \/ MemSeek(target)
    BY <1>3, <1>9 DEF Seek, MoveTo, MemSeek, StandAt
  <1>10. CASE NewIterator \/ SeekToFirst \/ IterNext
    BY <1>3, <1>10 DEF NewIterator, SeekToFirst, IterNext, MoveTo
  <1>11. CASE MemNewIterator \/ MemSeekToFirst \/ MemNext
    BY <1>3, <1>11 DEF MemNewIterator, MemSeekToFirst, MemNext, StandAt
  <1>12. CASE UNCHANGED vars
    BY <1>3, <1>12 DEF vars
  <1> QED
    BY <1>4, <1>5, <1>6, <1>7, <1>8, <1>9, <1>10, <1>11, <1>12 DEF Next

LEMMA StoreInit == Init => StoreInv
  <1> SUFFICES ASSUME Init PROVE StoreInv
    OBVIOUS
  <1>1. TablesInv
    BY TablesInit
  <1>2. frames = <<>> /\ list = NewList /\ tables = <<>>
    BY DEF Init
  <1>3. Listed = {} /\ Stored = {} /\ Logged = {}
    BY <1>2, NewListLinked DEF Listed, ListedIn, Stored, StoredIn, Logged, FrameRecords, ToSet
  <1> QED
    BY <1>1, <1>3 DEF StoreInv, Foremost

\* The log has what the list has, and neither has an older version of a key than a
\* table, through writes, flushes whose truncation fails, replays and merges.
THEOREM StoreInvariant == Spec => []StoreInv
  <1>1. Init => StoreInv
    BY StoreInit
  <1>2. StoreInv /\ [Next]_vars => StoreInv'
    BY StoreStep
  <1> QED
    BY <1>1, <1>2, PTL DEF Spec
-----------------------------------------------------------------------------
(* DB.Get.                                                                   *)

\* What a table answers for a key.
AnswersFor(got, t, key) ==
    \/ got = NotFound /\ \A e \in EntriesOf(t) : e.key # key
    \/ \E e \in EntriesOf(t) : /\ e.key = key /\ got = Found(e)
                              /\ \A d \in EntriesOf(t) : d.key = key => d = e

LEMMA AnswerIs ==
    ASSUME NEW t, TableSound(t), NEW key \in Key, NEW got, got = Get(t.file, t.bad, key)
    PROVE  /\ got.err => t.bad # {}
           /\ ~got.err => AnswersFor(got, t, key)
  <1>1. PICK es \in Seq(Entry) : FileOf(t.file, es)
    BY DEF TableSound
  <1>2. es \in Seq(Record) /\ Ascending(es) /\ Len(es) \in Nat /\ DOMAIN es = 1 .. Len(es)
    BY <1>1 DEF FileOf
  <1>3. EntriesOf(t) = {es[i] : i \in 1 .. Len(es)}
    <2>1. Scan(t.file, {}) = es
      BY <1>1, ScanIs
    <2> QED
      BY <2>1, <1>2 DEF EntriesOf, ToSet
  <1>4. PICK p : p = SelectInSeq(es, LAMBDA e : ~KeyLess(e.key, key))
    OBVIOUS
  <1>5. FirstFrom(es, key, p)
    BY <1>2, <1>4, EntrySelected
  <1>6. /\ got.err => t.bad # {}
        /\ ~got.err => got = IF p # 0 /\ es[p].key = key THEN Found(es[p]) ELSE NotFound
    BY <1>1, <1>5, GetIs
  <1>7. \A i \in 1 .. Len(es) : es[i].key \in Key
    BY <1>2, RecordsAre
  <1>8. \A i \in 1 .. Len(es) : es[i].key = key => i = p
    <2> SUFFICES ASSUME NEW i \in 1 .. Len(es), es[i].key = key PROVE i = p
      OBVIOUS
    <2>1. ~KeyLess(es[i].key, key)
      BY <1>7, KeyLessIrreflexive
    <2>2. p # 0 /\ ~(i \in 1 .. p - 1) /\ p \in 1 .. Len(es) /\ ~KeyLess(es[p].key, key)
      BY <2>1, <1>2, <1>5 DEF FirstFrom
    <2>3. p =< i
      BY <2>2
    <2>4. CASE p < i
      <3>1. KeyLess(key, es[i].key)
        BY <2>2, <2>3, <2>4, <1>2, NotBelowFar
      <3> QED
        BY <3>1, <1>7, KeyLessIrreflexive
    <2> QED
      BY <2>2, <2>3, <2>4
  <1>9. p # 0 => p \in 1 .. Len(es)
    BY <1>2, <1>5 DEF FirstFrom
  <1>10. CASE p # 0 /\ es[p].key = key
    BY <1>3, <1>6, <1>8, <1>9, <1>10 DEF AnswersFor
  <1>11. CASE ~(p # 0 /\ es[p].key = key)
    <2>1. \A i \in 1 .. Len(es) : es[i].key # key
      BY <1>2, <1>8, <1>11
    <2> QED
      BY <2>1, <1>3, <1>6, <1>11 DEF AnswersFor
  <1> QED
    BY <1>10, <1>11

\* The answers compared one after the other.
BetterSteps(es, n, done) ==
    /\ done[0] = NotFound /\ done[n] = FoldLeft(Better, NotFound, es)
    /\ \A i \in 1 .. n : done[i] = Better(done[i - 1], es[i])

LEMMA BetterStepsExist ==
    ASSUME NEW n \in Nat, NEW es, DOMAIN es = 1 .. n
    PROVE  \E done : BetterSteps(es, n, done)
  <1> DEFINE D == 1 .. n
             Then(m, r) == Better(m, r)
             Solves(f) == f = [s \in SUBSET D |->
                                 IF s = {} THEN NotFound ELSE Then(f[s \ {Max(s)}], es[Max(s)])]
             f == CHOOSE g : Solves(g)
             Upto(g, i) == g = [s \in SUBSET (1 .. i) |->
                                  IF s = {} THEN NotFound ELSE Then(g[s \ {Max(s)}], es[Max(s)])]
             Bad == {i \in Nat : \A g : ~Upto(g, i)}
  <1>1. n \in Nat /\ DOMAIN es = D
    OBVIOUS
  <1>2. \A i \in Nat : \A s \in SUBSET (1 .. i) : i \in s => Max(s) = i
    <2> SUFFICES ASSUME NEW i \in Nat, NEW s \in SUBSET (1 .. i), i \in s PROVE Max(s) = i
      OBVIOUS
    <2>1. \A y \in s : i >= y
      OBVIOUS
    <2>2. \A x \in s : (\A y \in s : x >= y) => x = i
      OBVIOUS
    <2> QED
      BY <2>1, <2>2 DEF Max
  <1> HIDE DEF Then
  <1>3. 0 \notin Bad
    <2> DEFINE g == [s \in {{}} |-> NotFound]
    <2>1. SUBSET (1 .. 0) = {{}}
      OBVIOUS
    <2>2. Upto(g, 0)
      BY <2>1
    <2> QED
      BY <2>2
  <1>4. ASSUME NEW i \in Nat, i \notin Bad PROVE i + 1 \notin Bad
    <2>1. PICK g : Upto(g, i)
      BY <1>4
    <2> DEFINE h == [s \in SUBSET (1 .. i + 1) |->
                       IF i + 1 \in s THEN Then(g[s \ {i + 1}], es[i + 1]) ELSE g[s]]
    <2>2. \A s \in SUBSET (1 .. i) : s \in SUBSET (1 .. i + 1) /\ i + 1 \notin s
      OBVIOUS
    <2>3. \A s \in SUBSET (1 .. i + 1) :
             /\ i + 1 \notin s => s \in SUBSET (1 .. i)
             /\ s \ {i + 1} \in SUBSET (1 .. i)
      OBVIOUS
    <2>4. \A s \in SUBSET (1 .. i) : h[s] = g[s]
      BY <2>2
    <2>5. \A s \in SUBSET (1 .. i + 1) :
             h[s] = IF i + 1 \in s THEN Then(g[s \ {i + 1}], es[i + 1]) ELSE g[s]
      OBVIOUS
    <2>6. h = [s \in SUBSET (1 .. i + 1) |-> h[s]]
      OBVIOUS
    <2> HIDE DEF h
    <2>7. \A s \in SUBSET (1 .. i) :
             g[s] = IF s = {} THEN NotFound ELSE Then(g[s \ {Max(s)}], es[Max(s)])
      BY <2>1
    <2>8. \A s \in SUBSET (1 .. i + 1) :
             h[s] = IF s = {} THEN NotFound ELSE Then(h[s \ {Max(s)}], es[Max(s)])
      <3> TAKE s \in SUBSET (1 .. i + 1)
      <3>1. CASE i + 1 \in s
        <4>1. Max(s) = i + 1
          BY <3>1, <1>2
        <4>2. h[s \ {i + 1}] = g[s \ {i + 1}]
          BY <2>3, <2>4
        <4> QED
          BY <3>1, <4>1, <4>2, <2>5
      <3>2. CASE i + 1 \notin s
        <4>1. s \in SUBSET (1 .. i) /\ s \ {Max(s)} \in SUBSET (1 .. i)
          BY <3>2, <2>3
        <4>2. h[s \ {Max(s)}] = g[s \ {Max(s)}] /\ h[s] = g[s]
          BY <4>1, <2>4
        <4> QED
          BY <4>1, <4>2, <2>7
      <3> QED
        BY <3>1, <3>2
    <2>9. Upto(h, i + 1)
      BY <2>6, <2>8
    <2> QED
      BY <2>9
  <1>5. ASSUME NEW b \in Bad PROVE FALSE
    <2>1. PICK i \in Bad : \A k \in Bad : i =< k
      BY <1>5, SmallestOf
    <2>2. i # 0 /\ i \in Nat
      BY <2>1, <1>3
    <2> HIDE DEF Bad
    <2>3. i - 1 \in Nat /\ (i - 1) + 1 = i /\ ~(i =< i - 1)
      BY <2>2
    <2>4. i - 1 \notin Bad
      BY <2>1, <2>3
    <2> QED
      BY <2>1, <2>3, <2>4, <1>4
  <1>6. Solves(f)
    <2>1. n \notin Bad
      BY <1>5
    <2>2. \E g : Upto(g, n)
      BY <2>1, <1>1
    <2>3. \A g : Upto(g, n) <=> Solves(g)
      OBVIOUS
    <2> HIDE DEF Upto, Solves
    <2>4. \E g : Solves(g)
      BY <2>2, <2>3
    <2> QED
      BY <2>4
  <1>7. FoldLeft(Better, NotFound, es) = f[D]
    BY <1>1 DEF FoldLeft, MapThenFoldSet, Then
  <1> HIDE DEF f
  <1>8. \A s \in SUBSET D : f[s] = IF s = {} THEN NotFound ELSE Then(f[s \ {Max(s)}], es[Max(s)])
    BY <1>6
  <1> DEFINE done == [i \in 0 .. n |-> f[1 .. i]]
  <1>9. done[0] = NotFound
    <2>1. 1 .. 0 = {} /\ {} \in SUBSET D /\ 0 \in 0 .. n
      BY <1>1
    <2> QED
      BY <2>1, <1>8
  <1>10. ASSUME NEW i \in 1 .. n
         PROVE  done[i] = Then(done[i - 1], es[i])
    <2>1. 1 .. i \in SUBSET D /\ i \in 1 .. i /\ i \in 0 .. n /\ i - 1 \in 0 .. n /\ i \in Nat
      BY <1>1
    <2>2. (1 .. i) \ {i} = 1 .. (i - 1)
      BY <1>1
    <2>3. Max(1 .. i) = i
      BY <2>1, <1>2
    <2>4. f[1 .. i] = Then(f[1 .. (i - 1)], es[i])
      BY <2>1, <2>2, <2>3, <1>8
    <2> QED
      BY <2>1, <2>4
  <1>11. done[n] = f[D]
    BY <1>1
  <1> HIDE DEF done
  <1> QED
    BY <1>7, <1>9, <1>10, <1>11 DEF Then, BetterSteps

Answer(a) == a = NotFound \/ \E e \in Record : a = Found(e)

\* The best of the first m answers.
BestOf(b, answers, m) ==
    \/ b = NotFound /\ \A i \in 1 .. m : answers[i] = NotFound
    \/ \E j \in 1 .. m, e \in Record :
          /\ answers[j] = Found(e) /\ b = Found(e)
          /\ \A i \in 1 .. m : \A d \in Record : answers[i] = Found(d) => d.seq =< e.seq

LEMMA AnswersAre ==
    /\ NotFound.found = FALSE /\ NotFound.err = FALSE /\ NotFound.entry.val = Tombstone
    /\ \A e : Found(e).found = TRUE /\ Found(e).err = FALSE /\ Found(e).entry = e
    /\ \A e : Found(e) # NotFound
    /\ \A e, d : Found(e) = Found(d) => e = d
  <1>1. /\ NotFound.found = FALSE /\ NotFound.err = FALSE /\ NotFound.entry.val = Tombstone
        /\ \A e : Found(e).found = TRUE /\ Found(e).err = FALSE /\ Found(e).entry = e
    BY DEF NotFound, Found, EntryOf, NoVersion
  <1> QED
    BY <1>1

LEMMA BetterBest ==
    ASSUME NEW m \in Nat, NEW answers, \A i \in 1 .. m + 1 : Answer(answers[i]), NEW b, BestOf(b, answers, m)
    PROVE  BestOf(Better(b, answers[m + 1]), answers, m + 1)
  <1>1. PICK a : a = answers[m + 1] /\ Answer(a)
    OBVIOUS
  <1>2. PICK c : c = Better(b, a)
    OBVIOUS
  <1>3. 1 .. m + 1 = (1 .. m) \cup {m + 1} /\ \A i \in 1 .. m : i \in 1 .. m + 1
    OBVIOUS
  <1>4. \A e \in Record : e.seq \in Nat
    BY DEF Record
  <1>5. c = IF a.found /\ (~b.found \/ a.entry.seq > b.entry.seq) THEN a ELSE b
    BY <1>2 DEF Better, Newer
  <1>6. CASE a = NotFound
    <2>1. c = b
      BY <1>5, <1>6, AnswersAre
    <2>2. answers[m + 1] = NotFound
      BY <1>1, <1>6
    <2>3. CASE b = NotFound /\ \A i \in 1 .. m : answers[i] = NotFound
      BY <2>1, <2>2, <2>3, <1>1, <1>2, <1>3 DEF BestOf
    <2>4. ASSUME NEW j \in 1 .. m, NEW e \in Record, answers[j] = Found(e), b = Found(e),
                 \A i \in 1 .. m : \A d \in Record : answers[i] = Found(d) => d.seq =< e.seq
          PROVE  BestOf(c, answers, m + 1)
      <3>1. \A i \in 1 .. m + 1 : \A d \in Record : answers[i] = Found(d) => d.seq =< e.seq
        BY <2>2, <2>4, <1>3, AnswersAre
      <3> QED
        BY <2>1, <2>4, <3>1, <1>3 DEF BestOf
    <2> QED
      BY <2>3, <2>4, <1>1, <1>2 DEF BestOf
  <1>7. ASSUME NEW d \in Record, a = Found(d)
        PROVE  BestOf(c, answers, m + 1)
    <2>1. a.found /\ a.entry = d
      BY <1>7, AnswersAre
    <2>2. \A x \in Record : answers[m + 1] = Found(x) => x = d
      BY <1>1, <1>7, AnswersAre
    <2>3. CASE b = NotFound /\ \A i \in 1 .. m : answers[i] = NotFound
      <3>1. c = Found(d)
        BY <2>1, <2>3, <1>5, <1>7, AnswersAre
      <3>2. \A i \in 1 .. m + 1 : \A x \in Record : answers[i] = Found(x) => x.seq =< d.seq
        <4> SUFFICES ASSUME NEW i \in 1 .. m + 1, NEW x \in Record, answers[i] = Found(x) PROVE x.seq =< d.seq
          OBVIOUS
        <4>1. i = m + 1
          BY <2>3, <1>3, AnswersAre
        <4>2. x = d /\ d.seq \in Nat
          BY <4>1, <2>2, <1>4
        <4> QED
          BY <4>2
      <3> QED
        BY <3>1, <3>2, <1>1, <1>3, <1>7 DEF BestOf
    <2>4. ASSUME NEW j \in 1 .. m, NEW e \in Record, answers[j] = Found(e), b = Found(e),
                 \A i \in 1 .. m : \A x \in Record : answers[i] = Found(x) => x.seq =< e.seq
          PROVE  BestOf(c, answers, m + 1)
      <3>1. b.found /\ b.entry = e
        BY <2>4, AnswersAre
      <3>2. c = IF d.seq > e.seq THEN Found(d) ELSE Found(e)
        BY <2>1, <2>4, <3>1, <1>5, <1>7
      <3>3. PICK x \in Record : /\ x = IF d.seq > e.seq THEN d ELSE e
                                /\ e.seq =< x.seq /\ d.seq =< x.seq
        BY <1>4
      <3>4. c = Found(x) /\ \E i \in 1 .. m + 1 : answers[i] = Found(x)
        BY <3>2, <3>3, <2>4, <1>1, <1>3, <1>7
      <3>5. \A i \in 1 .. m + 1 : \A y \in Record : answers[i] = Found(y) => y.seq =< x.seq
        <4> SUFFICES ASSUME NEW i \in 1 .. m + 1, NEW y \in Record, answers[i] = Found(y) PROVE y.seq =< x.seq
          OBVIOUS
        <4>1. y.seq =< e.seq \/ y = d
          BY <2>2, <2>4, <1>3
        <4> QED
          BY <4>1, <3>3, <1>4
      <3> QED
        BY <3>4, <3>5 DEF BestOf
    <2> QED
      BY <2>3, <2>4 DEF BestOf
  <1> QED
    BY <1>1, <1>2, <1>6, <1>7 DEF Answer

LEMMA BestIs ==
    ASSUME NEW n \in Nat, NEW answers, DOMAIN answers = 1 .. n, \A i \in 1 .. n : Answer(answers[i])
    PROVE  BestOf(FoldLeft(Better, NotFound, answers), answers, n)
  <1>1. PICK done : BetterSteps(answers, n, done)
    BY BetterStepsExist
  <1> DEFINE Bad == {i \in 0 .. n : ~BestOf(done[i], answers, i)}
  <1>2. ASSUME NEW c \in Bad PROVE FALSE
    <2>1. Bad \in SUBSET Nat /\ Bad # {}
      BY <1>2
    <2>2. PICK i \in Bad : \A k \in Bad : i =< k
      <3> HIDE DEF Bad
      <3> QED
        BY <2>1, SmallestOf
    <2>3. BestOf(done[0], answers, 0)
      BY <1>1 DEF BetterSteps, BestOf
    <2>4. i # 0 /\ i \in 1 .. n /\ i - 1 \in 0 .. n /\ i - 1 \in Nat /\ (i - 1) + 1 = i /\ ~(i =< i - 1)
      BY <2>2, <2>3
    <2>5. BestOf(done[i - 1], answers, i - 1)
      BY <2>2, <2>4
    <2>6. done[i] = Better(done[i - 1], answers[i])
      BY <2>4, <1>1 DEF BetterSteps
    <2>7. \A j \in 1 .. i : Answer(answers[j])
      BY <2>4
    <2>8. PICK m \in Nat : m = i - 1 /\ m + 1 = i
      BY <2>4
    <2>9. BestOf(Better(done[m], answers[m + 1]), answers, m + 1)
      BY <2>5, <2>7, <2>8, BetterBest
    <2> QED
      BY <2>2, <2>6, <2>8, <2>9
  <1>3. n \in 0 .. n /\ n \notin Bad
    BY <1>2
  <1> QED
    BY <1>1, <1>3 DEF BetterSteps
\* The versions of a key that the list or any table has.
HeldVersions(key) == {MemGet(list, key)} \cup {VersionOf(e) : e \in {x \in Stored : x.key = key}}

LEMMA HeldVersionsAre ==
    ASSUME StoreInv, NEW key \in Targets
    PROVE  /\ HeldVersions(key) \in SUBSET Version
           /\ MemGet(list, key) = IF key \in Nodes(list) THEN list.entry[key] ELSE NoVersion
           /\ key \in Nodes(list) => /\ 0 < list.entry[key].seq
                                     /\ EntryOf(key, list.entry[key]) \in Listed
  <1>1. ListTyped(list) /\ Linked(list)
    BY StoreTypes DEF ListInv
  <1>2. MemGet(list, key) = IF key \in Nodes(list) THEN list.entry[key] ELSE NoVersion
    BY <1>1, MemGetIs DEF MemOf
  <1>3. list.entry \in [Nodes(list) -> Version]
    BY <1>1, TypedIs
  <1>4. NoVersion \in Version
    BY DEF NoVersion, Version, Contents
  <1>5. \A e \in Stored : VersionOf(e) \in Version
    BY StoreTypes DEF VersionOf, Version, Record
  <1>6. key \in Nodes(list) => 0 < list.entry[key].seq
    BY StoreTypes DEF LogInv, NumberedInv
  <1> QED
    BY <1>2, <1>3, <1>4, <1>5, <1>6 DEF HeldVersions, Listed, ListedIn

\* The list has the newest version of a key it holds.
LEMMA ListedNewest ==
    ASSUME StoreInv, NEW key \in Targets, key \in Nodes(list)
    PROVE  Newest(HeldVersions(key)) = list.entry[key]
  <1>1. PICK v \in Version : v = list.entry[key] /\ v \in HeldVersions(key) /\ HeldVersions(key) \in SUBSET Version
    <2>1. list.entry[key] \in HeldVersions(key)
      BY HeldVersionsAre DEF HeldVersions
    <2> QED
      BY <2>1, HeldVersionsAre
  <1>2. PICK d \in Listed : d = EntryOf(key, v) /\ d.key = key /\ d.seq = v.seq /\ d.val = v.val
    BY <1>1, HeldVersionsAre DEF EntryOf
  <1>3. \A e \in Stored : e.key = key => e.seq =< d.seq
    BY <1>2, StoreTypes DEF Foremost
  <1>4. \A e \in Stored : e.seq = d.seq => e = d
    BY StoreTypes DEF Foremost
  <1>5. VersionOf(d) = v
    BY <1>1, <1>2 DEF VersionOf, Version
  <1>6. ASSUME NEW w \in HeldVersions(key)
        PROVE  w.seq =< v.seq /\ (w.seq = v.seq => w = v)
    <2>1. CASE w = v
      BY <2>1, <1>1 DEF Version
    <2>2. ASSUME NEW e \in Stored, e.key = key, w = VersionOf(e)
          PROVE  w.seq =< v.seq /\ (w.seq = v.seq => w = v)
      <3>1. w.seq = e.seq
        BY <2>2 DEF VersionOf
      <3> QED
        BY <2>2, <3>1, <1>2, <1>3, <1>4, <1>5
    <2> QED
      BY <2>1, <2>2, <1>1, <1>6, HeldVersionsAre DEF HeldVersions
  <1> QED
    BY <1>1, <1>6, NewestIs

\* Of a key that is not listed, the best answer is the newest version.
LEMMA BestNewest ==
    ASSUME StoreInv, NEW key \in Targets, key \notin Nodes(list), NEW n \in Nat, n = Len(tables),
           NEW answers, answers = [i \in 1 .. n |-> Get(tables[n + 1 - i].file, tables[n + 1 - i].bad, key)],
           \A i \in 1 .. n : ~answers[i].err,
           NEW best, best = FoldLeft(Better, NotFound, answers)
    PROVE  best.err = FALSE /\ best.entry.val = Newest(HeldVersions(key)).val
  <1>1. DOMAIN tables = 1 .. n /\ \A i \in 1 .. n : TableSound(tables[i])
    <2>1. (\E S : tables \in Seq(S)) /\ \A i \in DOMAIN tables : TableSound(tables[i])
      BY StoreTypes DEF TablesGood
    <2>2. DOMAIN tables = 1 .. Len(tables)
      BY <2>1
    <2> QED
      BY <2>1, <2>2
  <1>2. \A i \in 1 .. n : n + 1 - i \in 1 .. n /\ n + 1 - (n + 1 - i) = i
    OBVIOUS
  <1>3. \A i \in 1 .. n : AnswersFor(answers[i], tables[n + 1 - i], key)
    <2> TAKE i \in 1 .. n
    <2>1. PICK t : t = tables[n + 1 - i] /\ TableSound(t)
      BY <1>1, <1>2
    <2>2. answers[i] = Get(t.file, t.bad, key) /\ ~answers[i].err
      BY <2>1
    <2> QED
      BY <2>1, <2>2, KeysAreKeys, AnswerIs
  <1>4. \A i \in 1 .. n : EntriesOf(tables[i]) \subseteq Stored
    BY <1>1 DEF Stored, StoredIn
  <1>5. \A i \in 1 .. n : Answer(answers[i])
    BY <1>2, <1>3, <1>4, StoreTypes DEF AnswersFor, Answer
  <1>6. BestOf(best, answers, n)
    BY <1>5, BestIs
  <1>7. HeldVersions(key) = {NoVersion} \cup {VersionOf(e) : e \in {x \in Stored : x.key = key}}
    BY HeldVersionsAre DEF HeldVersions
  <1>8. NoVersion.seq = 0 /\ NoVersion.val = Tombstone
    BY DEF NoVersion
  <1>9. ASSUME NEW e \in Stored, e.key = key
        PROVE  \E i \in 1 .. n : answers[i] = Found(e)
    <2>1. PICK j \in 1 .. n : e \in EntriesOf(tables[j])
      BY <1>1 DEF Stored, StoredIn
    <2>2. PICK i \in 1 .. n : n + 1 - i = j
      BY <1>2
    <2>3. AnswersFor(answers[i], tables[j], key)
      BY <2>2, <1>3
    <2> QED
      BY <2>1, <2>3, <1>9 DEF AnswersFor
  <1>10. CASE best = NotFound /\ \A i \in 1 .. n : answers[i] = NotFound
    <2>1. {x \in Stored : x.key = key} = {}
      BY <1>9, <1>10, AnswersAre
    <2>2. HeldVersions(key) = {NoVersion}
      BY <2>1, <1>7
    <2>3. \A w \in {NoVersion} : w.seq =< NoVersion.seq /\ (w.seq = NoVersion.seq => w = NoVersion)
      BY <1>8
    <2>4. {NoVersion} \in SUBSET Version
      BY <2>2, HeldVersionsAre
    <2>5. Newest({NoVersion}) = NoVersion
      BY <2>3, <2>4, NewestIs
    <2> QED
      BY <2>2, <2>5, <1>8, <1>10, AnswersAre
  <1>11. ASSUME NEW j \in 1 .. n, NEW e \in Record, answers[j] = Found(e), best = Found(e),
                \A i \in 1 .. n : \A d \in Record : answers[i] = Found(d) => d.seq =< e.seq
         PROVE  best.err = FALSE /\ best.entry.val = Newest(HeldVersions(key)).val
    <2>1. e \in Stored /\ e.key = key
      BY <1>2, <1>3, <1>4, <1>11, AnswersAre DEF AnswersFor
    <2>2. PICK v : v = VersionOf(e) /\ v.seq = e.seq /\ v.val = e.val
      <3>1. VersionOf(e).seq = e.seq /\ VersionOf(e).val = e.val
        BY DEF VersionOf
      <3> QED
        BY <3>1
    <2>3. v \in HeldVersions(key)
      BY <2>1, <2>2, <1>7
    <2>4. ASSUME NEW w \in HeldVersions(key)
          PROVE  w.seq =< v.seq /\ (w.seq = v.seq => w = v)
      <3>1. CASE w = NoVersion
        BY <3>1, <2>1, <2>2, <1>8, StoreTypes DEF Foremost, Record
      <3>2. ASSUME NEW d \in Stored, d.key = key, w = VersionOf(d)
            PROVE  w.seq =< v.seq /\ (w.seq = v.seq => w = v)
        <4>1. d.seq =< e.seq
          BY <3>2, <1>9, <1>11, StoreTypes
        <4>2. d.seq = e.seq => d = e
          BY <3>2, <2>1, StoreTypes DEF Foremost
        <4>3. w.seq = d.seq
          BY <3>2 DEF VersionOf
        <4> QED
          BY <4>1, <4>2, <4>3, <3>2, <2>2
      <3> QED
        BY <3>1, <3>2, <2>4, <1>7
    <2>5. Newest(HeldVersions(key)) = v
      BY <2>3, <2>4, HeldVersionsAre, NewestIs
    <2> QED
      BY <2>2, <2>5, <1>11, AnswersAre
  <1> QED
    BY <1>6, <1>10, <1>11 DEF BestOf

\* DB.Get: for every key, stored or not, the answer is the newest version that the
\* list or any table holds, whatever the order of the tables, or a block is bad.
THEOREM GetIsExact == Spec => []GetExact
  <1>1. StoreInv => GetExact
    <2> SUFFICES ASSUME StoreInv, NEW key \in Targets
                 PROVE  LET newest == Newest({MemGet(list, key)} \cup
                                {VersionOf(e) : e \in {x \in UNION {ToSet(Scan(tables[i].file, {})) :
                                                           i \in DOMAIN tables} : x.key = key}})
                            got == DBGet(key)
                        IN  IF got.err THEN \E i \in DOMAIN tables : tables[i].bad # {}
                            ELSE got.entry.val = newest.val
      BY DEF GetExact
    <2>1. HeldVersions(key) = {MemGet(list, key)} \cup
                            {VersionOf(e) : e \in {x \in UNION {ToSet(Scan(tables[i].file, {})) :
                                                       i \in DOMAIN tables} : x.key = key}}
      BY DEF HeldVersions, Stored, StoredIn, EntriesOf
    <2>2. PICK n \in Nat : n = Len(tables) /\ DOMAIN tables = 1 .. n
      <3>1. PICK S : tables \in Seq(S)
        BY StoreTypes DEF TablesGood
      <3> QED
        BY <3>1
    <2>3. PICK answers : answers = [i \in 1 .. n |-> Get(tables[n + 1 - i].file, tables[n + 1 - i].bad, key)]
      OBVIOUS
    <2>4. PICK mine : mine = MemGet(list, key)
      OBVIOUS
    <2>5. PICK got : got = DBGet(key)
      OBVIOUS
    <2>6. got = IF mine.seq > 0 THEN Found(EntryOf(key, mine))
                ELSE IF \E i \in DOMAIN answers : answers[i].err THEN ReadError
                ELSE FoldLeft(Better, NotFound, answers)
      BY <2>2, <2>3, <2>4, <2>5 DEF DBGet
    <2>7. ASSUME NEW x, x = Newest(HeldVersions(key))
          PROVE  IF got.err THEN \E i \in DOMAIN tables : tables[i].bad # {}
                 ELSE got.entry.val = x.val
      <3>1. CASE key \in Nodes(list)
        <4>1. mine = list.entry[key] /\ mine.seq > 0
          <5>1. mine = list.entry[key] /\ 0 < mine.seq /\ mine \in Version
            BY <3>1, <2>4, HeldVersionsAre DEF HeldVersions
          <5> QED
            BY <5>1 DEF Version
        <4>2. got = Found(EntryOf(key, mine))
          BY <4>1, <2>6
        <4>3. x = mine
          BY <3>1, <4>1, <2>7, ListedNewest
        <4>4. EntryOf(key, mine).val = mine.val
          BY DEF EntryOf
        <4> QED
          BY <4>2, <4>3, <4>4, AnswersAre
      <3>2. CASE key \notin Nodes(list)
        <4>1. ~(mine.seq > 0)
          BY <3>2, <2>4, HeldVersionsAre DEF NoVersion
        <4>2. CASE \E i \in 1 .. n : answers[i].err
          <5>1. PICK i \in 1 .. n : answers[i].err
            BY <4>2
          <5>2. n + 1 - i \in DOMAIN tables
            BY <2>2
          <5>3. PICK t : t = tables[n + 1 - i] /\ TableSound(t)
            BY <5>2, StoreTypes DEF TablesGood
          <5>4. answers[i] = Get(t.file, t.bad, key)
            BY <5>3, <2>3
          <5>5. t.bad # {}
            BY <5>1, <5>3, <5>4, KeysAreKeys, AnswerIs
          <5>6. got = ReadError /\ ReadError.err = TRUE
            BY <4>1, <4>2, <2>3, <2>6 DEF ReadError
          <5> QED
            BY <5>2, <5>3, <5>5, <5>6
        <4>3. CASE \A i \in 1 .. n : ~answers[i].err
          <5>1. got = FoldLeft(Better, NotFound, answers)
            BY <4>1, <4>3, <2>3, <2>6
          <5>2. PICK best : best = FoldLeft(Better, NotFound, answers)
            OBVIOUS
          <5>3. n = Len(tables) /\ \A i \in 1 .. n : ~answers[i].err
            BY <2>2, <4>3
          <5>4. best.err = FALSE /\ best.entry.val = Newest(HeldVersions(key)).val
            BY <3>2, <5>2, <5>3, <2>3, BestNewest
          <5> QED
            BY <5>1, <5>2, <5>4, <2>7
        <4> QED
          BY <4>2, <4>3
      <3> QED
        BY <3>1, <3>2
    <2> QED
      BY <2>1, <2>5, <2>7
  <1> QED
    BY <1>1, StoreInvariant, PTL
-----------------------------------------------------------------------------
(* collectMerged, and the iterator over it.                                  *)

NoEntries == [k \in {} |-> EntryOf(k, NoVersion)]

\* The map after each entry.
UpdateSteps(es, n, done) ==
    /\ done[0] = NoEntries /\ done[n] = FoldLeft(Update, NoEntries, es)
    /\ \A i \in 1 .. n : done[i] = Update(done[i - 1], es[i])

LEMMA UpdateStepsExist ==
    ASSUME NEW n \in Nat, NEW es, DOMAIN es = 1 .. n
    PROVE  \E done : UpdateSteps(es, n, done)
  <1> DEFINE D == 1 .. n
             Then(m, r) == Update(m, r)
             Solves(f) == f = [s \in SUBSET D |->
                                 IF s = {} THEN NoEntries ELSE Then(f[s \ {Max(s)}], es[Max(s)])]
             f == CHOOSE g : Solves(g)
             Upto(g, i) == g = [s \in SUBSET (1 .. i) |->
                                  IF s = {} THEN NoEntries ELSE Then(g[s \ {Max(s)}], es[Max(s)])]
             Bad == {i \in Nat : \A g : ~Upto(g, i)}
  <1>1. n \in Nat /\ DOMAIN es = D
    OBVIOUS
  <1>2. \A i \in Nat : \A s \in SUBSET (1 .. i) : i \in s => Max(s) = i
    <2> SUFFICES ASSUME NEW i \in Nat, NEW s \in SUBSET (1 .. i), i \in s PROVE Max(s) = i
      OBVIOUS
    <2>1. \A y \in s : i >= y
      OBVIOUS
    <2>2. \A x \in s : (\A y \in s : x >= y) => x = i
      OBVIOUS
    <2> QED
      BY <2>1, <2>2 DEF Max
  <1> HIDE DEF Then
  <1>3. 0 \notin Bad
    <2> DEFINE g == [s \in {{}} |-> NoEntries]
    <2>1. SUBSET (1 .. 0) = {{}}
      OBVIOUS
    <2>2. Upto(g, 0)
      BY <2>1
    <2> QED
      BY <2>2
  <1>4. ASSUME NEW i \in Nat, i \notin Bad PROVE i + 1 \notin Bad
    <2>1. PICK g : Upto(g, i)
      BY <1>4
    <2> DEFINE h == [s \in SUBSET (1 .. i + 1) |->
                       IF i + 1 \in s THEN Then(g[s \ {i + 1}], es[i + 1]) ELSE g[s]]
    <2>2. \A s \in SUBSET (1 .. i) : s \in SUBSET (1 .. i + 1) /\ i + 1 \notin s
      OBVIOUS
    <2>3. \A s \in SUBSET (1 .. i + 1) :
             /\ i + 1 \notin s => s \in SUBSET (1 .. i)
             /\ s \ {i + 1} \in SUBSET (1 .. i)
      OBVIOUS
    <2>4. \A s \in SUBSET (1 .. i) : h[s] = g[s]
      BY <2>2
    <2>5. \A s \in SUBSET (1 .. i + 1) :
             h[s] = IF i + 1 \in s THEN Then(g[s \ {i + 1}], es[i + 1]) ELSE g[s]
      OBVIOUS
    <2>6. h = [s \in SUBSET (1 .. i + 1) |-> h[s]]
      OBVIOUS
    <2> HIDE DEF h
    <2>7. \A s \in SUBSET (1 .. i) :
             g[s] = IF s = {} THEN NoEntries ELSE Then(g[s \ {Max(s)}], es[Max(s)])
      BY <2>1
    <2>8. \A s \in SUBSET (1 .. i + 1) :
             h[s] = IF s = {} THEN NoEntries ELSE Then(h[s \ {Max(s)}], es[Max(s)])
      <3> TAKE s \in SUBSET (1 .. i + 1)
      <3>1. CASE i + 1 \in s
        <4>1. Max(s) = i + 1
          BY <3>1, <1>2
        <4>2. h[s \ {i + 1}] = g[s \ {i + 1}]
          BY <2>3, <2>4
        <4> QED
          BY <3>1, <4>1, <4>2, <2>5
      <3>2. CASE i + 1 \notin s
        <4>1. s \in SUBSET (1 .. i) /\ s \ {Max(s)} \in SUBSET (1 .. i)
          BY <3>2, <2>3
        <4>2. h[s \ {Max(s)}] = g[s \ {Max(s)}] /\ h[s] = g[s]
          BY <4>1, <2>4
        <4> QED
          BY <4>1, <4>2, <2>7
      <3> QED
        BY <3>1, <3>2
    <2>9. Upto(h, i + 1)
      BY <2>6, <2>8
    <2> QED
      BY <2>9
  <1>5. ASSUME NEW b \in Bad PROVE FALSE
    <2>1. PICK i \in Bad : \A k \in Bad : i =< k
      BY <1>5, SmallestOf
    <2>2. i # 0 /\ i \in Nat
      BY <2>1, <1>3
    <2> HIDE DEF Bad
    <2>3. i - 1 \in Nat /\ (i - 1) + 1 = i /\ ~(i =< i - 1)
      BY <2>2
    <2>4. i - 1 \notin Bad
      BY <2>1, <2>3
    <2> QED
      BY <2>1, <2>3, <2>4, <1>4
  <1>6. Solves(f)
    <2>1. n \notin Bad
      BY <1>5
    <2>2. \E g : Upto(g, n)
      BY <2>1, <1>1
    <2>3. \A g : Upto(g, n) <=> Solves(g)
      OBVIOUS
    <2> HIDE DEF Upto, Solves
    <2>4. \E g : Solves(g)
      BY <2>2, <2>3
    <2> QED
      BY <2>4
  <1>7. FoldLeft(Update, NoEntries, es) = f[D]
    BY <1>1 DEF FoldLeft, MapThenFoldSet, Then
  <1> HIDE DEF f
  <1>8. \A s \in SUBSET D : f[s] = IF s = {} THEN NoEntries ELSE Then(f[s \ {Max(s)}], es[Max(s)])
    BY <1>6
  <1> DEFINE done == [i \in 0 .. n |-> f[1 .. i]]
  <1>9. done[0] = NoEntries
    <2>1. 1 .. 0 = {} /\ {} \in SUBSET D /\ 0 \in 0 .. n
      BY <1>1
    <2> QED
      BY <2>1, <1>8
  <1>10. ASSUME NEW i \in 1 .. n
         PROVE  done[i] = Then(done[i - 1], es[i])
    <2>1. 1 .. i \in SUBSET D /\ i \in 1 .. i /\ i \in 0 .. n /\ i - 1 \in 0 .. n /\ i \in Nat
      BY <1>1
    <2>2. (1 .. i) \ {i} = 1 .. (i - 1)
      BY <1>1
    <2>3. Max(1 .. i) = i
      BY <2>1, <1>2
    <2>4. f[1 .. i] = Then(f[1 .. (i - 1)], es[i])
      BY <2>1, <2>2, <2>3, <1>8
    <2> QED
      BY <2>1, <2>4
  <1>11. done[n] = f[D]
    BY <1>1
  <1> HIDE DEF done
  <1> QED
    BY <1>7, <1>9, <1>10, <1>11 DEF Then, UpdateSteps

\* After m entries the map has, of each key there was, an entry of the highest number.
Collected(all, es, m) ==
    /\ DOMAIN all = {es[i].key : i \in 1 .. m}
    /\ \A i \in 1 .. m : es[i].seq =< all[es[i].key].seq
    /\ \A k \in DOMAIN all : \E i \in 1 .. m : all[k] = es[i] /\ es[i].key = k

LEMMA UpdateCollects ==
    ASSUME NEW m \in Nat, NEW es, \A i \in 1 .. m + 1 : es[i] \in Record, NEW all, Collected(all, es, m)
    PROVE  Collected(Update(all, es[m + 1]), es, m + 1)
  <1>1. 1 .. m + 1 = (1 .. m) \cup {m + 1} /\ \A i \in 1 .. m : i \in 1 .. m + 1
    OBVIOUS
  <1>2. PICK e : e = es[m + 1] /\ e \in Record
    BY <1>1
  <1>3. /\ DOMAIN all = {es[i].key : i \in 1 .. m}
        /\ \A i \in 1 .. m : es[i].seq =< all[es[i].key].seq
        /\ \A k \in DOMAIN all : \E i \in 1 .. m : all[k] = es[i] /\ es[i].key = k
    BY DEF Collected
  <1>4. \A i \in 1 .. m : es[i].seq \in Nat
    BY <1>1 DEF Record
  <1>5. e.seq \in Nat /\ \A k \in DOMAIN all : all[k].seq \in Nat
    BY <1>2, <1>3, <1>4 DEF Record
  <1>6. PICK new : new = Update(all, e)
    OBVIOUS
  <1>7. CASE e.key \in DOMAIN all /\ all[e.key].seq >= e.seq
    <2>1. new = all
      BY <1>6, <1>7 DEF Update
    <2>2. e.seq =< all[e.key].seq
      BY <1>5, <1>7
    <2>3. DOMAIN all = {es[i].key : i \in 1 .. m + 1}
      BY <1>1, <1>2, <1>3, <1>7
    <2>4. \A i \in 1 .. m + 1 : es[i].seq =< all[es[i].key].seq
      BY <2>2, <1>1, <1>2, <1>3
    <2>5. \A k \in DOMAIN all : \E i \in 1 .. m + 1 : all[k] = es[i] /\ es[i].key = k
      BY <1>1, <1>3
    <2>6. Collected(all, es, m + 1)
      BY <2>3, <2>4, <2>5 DEF Collected
    <2> QED
      BY <2>1, <2>6, <1>2, <1>6
  <1>8. CASE ~(e.key \in DOMAIN all /\ all[e.key].seq >= e.seq)
    <2>1. new = [k \in DOMAIN all \cup {e.key} |-> IF k = e.key THEN e ELSE all[k]]
      BY <1>6, <1>8 DEF Update
    <2>2. /\ DOMAIN new = DOMAIN all \cup {e.key} /\ new[e.key] = e
          /\ \A k \in DOMAIN all : k # e.key => new[k] = all[k]
      BY <2>1
    <2>3. e.key \in DOMAIN all => all[e.key].seq =< e.seq
      BY <1>5, <1>8
    <2>4. \A i \in 1 .. m : es[i].key \in DOMAIN all
      BY <1>3
    <2>5. ASSUME NEW i \in 1 .. m PROVE es[i].seq =< new[es[i].key].seq
      <3>1. CASE es[i].key = e.key
        <4>1. es[i].seq =< all[e.key].seq /\ all[e.key].seq =< e.seq /\ all[e.key].seq \in Nat
          BY <3>1, <2>3, <2>4, <1>3, <1>5
        <4> QED
          BY <3>1, <4>1, <2>2, <1>4, <1>5
      <3>2. CASE es[i].key # e.key
        BY <3>2, <2>2, <2>4, <1>3
      <3> QED
        BY <3>1, <3>2
    <2>6. es[m + 1].seq =< new[es[m + 1].key].seq
      BY <2>2, <1>2, <1>5
    <2>7. \A k \in DOMAIN new : \E i \in 1 .. m + 1 : new[k] = es[i] /\ es[i].key = k
      <3> TAKE k \in DOMAIN new
      <3>1. CASE k = e.key
        BY <3>1, <2>2, <1>1, <1>2
      <3>2. CASE k # e.key
        BY <3>2, <2>2, <1>1, <1>3
      <3> QED
        BY <3>1, <3>2
    <2>8. DOMAIN new = {es[i].key : i \in 1 .. m + 1}
      BY <2>2, <1>1, <1>2, <1>3
    <2> QED
      BY <2>5, <2>6, <2>7, <2>8, <1>1, <1>2, <1>6 DEF Collected
  <1> QED
    BY <1>7, <1>8

LEMMA CollectedIs ==
    ASSUME NEW n \in Nat, NEW es, DOMAIN es = 1 .. n, \A i \in 1 .. n : es[i] \in Record
    PROVE  Collected(FoldLeft(Update, NoEntries, es), es, n)
  <1>1. PICK done : UpdateSteps(es, n, done)
    BY UpdateStepsExist
  <1> DEFINE Bad == {i \in 0 .. n : ~Collected(done[i], es, i)}
  <1>2. ASSUME NEW c \in Bad PROVE FALSE
    <2>1. Bad \in SUBSET Nat /\ Bad # {}
      BY <1>2
    <2>2. PICK i \in Bad : \A k \in Bad : i =< k
      <3> HIDE DEF Bad
      <3> QED
        BY <2>1, SmallestOf
    <2>3. Collected(done[0], es, 0)
      <3>1. done[0] = NoEntries /\ DOMAIN NoEntries = {} /\ 1 .. 0 = {}
        BY <1>1 DEF UpdateSteps, NoEntries
      <3> QED
        BY <3>1 DEF Collected
    <2>4. i # 0 /\ i \in 1 .. n /\ i - 1 \in 0 .. n /\ i - 1 \in Nat /\ (i - 1) + 1 = i /\ ~(i =< i - 1)
      BY <2>2, <2>3
    <2>5. Collected(done[i - 1], es, i - 1)
      BY <2>2, <2>4
    <2>6. done[i] = Update(done[i - 1], es[i])
      BY <2>4, <1>1 DEF UpdateSteps
    <2>7. \A j \in 1 .. i : es[j] \in Record
      BY <2>4
    <2>8. PICK m \in Nat : m = i - 1 /\ m + 1 = i
      BY <2>4
    <2>9. Collected(Update(done[m], es[m + 1]), es, m + 1)
      BY <2>5, <2>7, <2>8, UpdateCollects
    <2> QED
      BY <2>2, <2>6, <2>8, <2>9
  <1>3. n \in 0 .. n /\ n \notin Bad
    BY <1>2
  <1> QED
    BY <1>1, <1>3 DEF UpdateSteps
\* All that an iterator is made from.
Gathered == Listed \cup Delivered(DOMAIN tables)

\* An entry of E that none of its key outdoes.
Leading(e, E) == e \in E /\ \A d \in E : d.key = e.key => d.seq =< e.seq

Shown == [key : Keys, val : Contents \ {Tombstone}]

Climbing(items) == \A i, j \in 1 .. Len(items) : i < j => KeyLess(items[i].key, items[j].key)

\* The leading entries of E that are not tombstones, in the order of their keys.
Presents(items, E) ==
    /\ items \in Seq(Shown) /\ Climbing(items)
    /\ \A i \in 1 .. Len(items) :
          \E e \in E : Leading(e, E) /\ items[i].key = e.key /\ items[i].val = e.val
    /\ \A e \in E : Leading(e, E) /\ e.val # Tombstone => \E i \in 1 .. Len(items) : items[i].key = e.key

LEMMA GatheredAre ==
    ASSUME StoreInv
    PROVE  /\ Gathered \in SUBSET Record /\ Gathered \in SUBSET Entry
           /\ Delivered(DOMAIN tables) \subseteq Stored /\ Listed \subseteq Logged
           /\ \A e, d \in Gathered : e.seq = d.seq => e = d
  <1>1. TablesGood /\ Listed \subseteq Logged /\ Stored \in SUBSET Entry /\ Entry \in SUBSET Record
    BY StoreTypes, EntriesAre DEF Foremost
  <1>2. Delivered(DOMAIN tables) \subseteq Stored
    <2>1. \A i \in DOMAIN tables : ToSet(ScanOf(tables[i])) \subseteq EntriesOf(tables[i])
      BY <1>1, ScanOfStored DEF TablesGood
    <2> QED
      BY <2>1 DEF Delivered, Stored, StoredIn
  <1>3. Listed \in SUBSET Entry
    <2>1. ListTyped(list) /\ NumberedInv /\ nextSeq \in Nat /\ nextSeq =< MaxSeq /\ MaxSeq \in Nat
      BY StoreTypes, DataPathAssumption DEF ListInv, LogInv
    <2>2. Nodes(list) \subseteq Keys /\ list.entry \in [Nodes(list) -> Version]
      BY <2>1, TypedIs
    <2>3. ASSUME NEW k \in Nodes(list) PROVE EntryOf(k, list.entry[k]) \in Entry
      <3>1. PICK v \in Version : v = list.entry[k]
        BY <2>2
      <3>2. 0 < v.seq /\ v.seq =< nextSeq /\ v.seq \in Nat /\ v.val \in Contents
        BY <3>1, <2>1 DEF NumberedInv, Version
      <3>3. v.seq \in 1 .. MaxSeq /\ k \in Keys
        BY <3>2, <2>1, <2>2
      <3> QED
        BY <3>1, <3>2, <3>3 DEF Entry, EntryOf
    <2> QED
      BY <2>3 DEF Listed, ListedIn
  <1>4. \A e, d \in Stored \cup Logged : e.seq = d.seq => e = d
    BY StoreTypes DEF Foremost
  <1> QED
    BY <1>1, <1>2, <1>3, <1>4 DEF Gathered

Joins(s, a, b) == s = a \o b
BothSets(a, b) == ToSet(a) \cup ToSet(b)

LEMMA ConcatSets ==
    ASSUME NEW S, NEW a \in Seq(S), NEW b \in Seq(S), NEW s, Joins(s, a, b)
    PROVE  s \in Seq(S) /\ ToSet(s) = BothSets(a, b)
  <1>1. PICK n \in Nat : n = Len(a) /\ DOMAIN a = 1 .. n
    OBVIOUS
  <1>2. PICK m \in Nat : m = Len(b) /\ DOMAIN b = 1 .. m
    OBVIOUS
  <1>3. s \in Seq(S) /\ DOMAIN s = 1 .. n + m
    BY <1>1, <1>2 DEF Joins
  <1>4. \A i \in 1 .. n + m : s[i] = IF i =< n THEN a[i] ELSE b[i - n]
    BY <1>1, <1>2 DEF Joins
  <1>5. \A i \in 1 .. n : i \in 1 .. n + m /\ s[i] = a[i]
    BY <1>1, <1>4
  <1>6. \A i \in 1 .. m : n + i \in 1 .. n + m /\ s[n + i] = b[i]
    <2> TAKE i \in 1 .. m
    <2>1. n + i \in 1 .. n + m /\ ~(n + i =< n) /\ (n + i) - n = i
      OBVIOUS
    <2> QED
      BY <2>1, <1>4
  <1>7. \A i \in 1 .. n + m : i \in 1 .. n \/ \E j \in 1 .. m : i = n + j
    <2> SUFFICES ASSUME NEW i \in 1 .. n + m, i \notin 1 .. n PROVE \E j \in 1 .. m : i = n + j
      OBVIOUS
    <2>1. i - n \in 1 .. m /\ i = n + (i - n)
      OBVIOUS
    <2> QED
      BY <2>1
  <1>8. /\ ToSet(s) = {s[i] : i \in 1 .. n + m}
        /\ ToSet(a) = {a[i] : i \in 1 .. n} /\ ToSet(b) = {b[i] : i \in 1 .. m}
    BY <1>1, <1>2, <1>3 DEF ToSet
  <1>9. {s[i] : i \in 1 .. n + m} \subseteq {a[i] : i \in 1 .. n} \cup {b[i] : i \in 1 .. m}
    <2> SUFFICES ASSUME NEW i \in 1 .. n + m
                 PROVE  s[i] \in {a[j] : j \in 1 .. n} \cup {b[j] : j \in 1 .. m}
      OBVIOUS
    <2>1. CASE i \in 1 .. n
      BY <2>1, <1>5
    <2>2. CASE \E j \in 1 .. m : i = n + j
      BY <2>2, <1>6
    <2> QED
      BY <2>1, <2>2, <1>7
  <1>10. {a[i] : i \in 1 .. n} \cup {b[i] : i \in 1 .. m} \subseteq {s[i] : i \in 1 .. n + m}
    BY <1>5, <1>6
  <1> QED
    BY <1>3, <1>8, <1>9, <1>10 DEF BothSets

LEMMA GatheredFlat ==
    ASSUME StoreInv, NEW s, s = Snapshot(list) \o FlattenSeq([i \in DOMAIN tables |-> ScanOf(tables[i])])
    PROVE  s \in Seq(Record) /\ ToSet(s) = Gathered
  <1>1. /\ TablesGood /\ ListInv(list) /\ nextSeq \in Nat /\ Entry \in SUBSET Record
        /\ Seq(Entry) \subseteq Seq(Record)
    BY StoreTypes, EntriesAre
  <1>2. PICK n \in Nat : DOMAIN tables = 1 .. n
    <2>1. PICK S : tables \in Seq(S)
      BY <1>1 DEF TablesGood
    <2> QED
      BY <2>1
  <1>3. PICK scans : scans = [i \in 1 .. n |-> ScanOf(tables[i])]
    OBVIOUS
  <1>4. \A i \in 1 .. n : ScanOf(tables[i]) \in Seq(Record)
    BY <1>1, <1>2, ScanOfIs DEF TablesGood
  <1>5. PICK R : R = Seq(Record)
    OBVIOUS
  <1>6. scans \in Seq(R) /\ Len(scans) = n
    BY <1>3, <1>4, <1>5
  <1>7. PICK flat : flat = FlattenSeq(scans)
    OBVIOUS
  <1>8. flat \in Seq(Record) /\ ToSet(flat) = UNION {ToSet(x) : x \in ToSet(scans)}
    BY <1>5, <1>6, <1>7, FlattenedIs
  <1>9. ToSet(scans) = {ScanOf(tables[i]) : i \in 1 .. n}
    BY <1>3 DEF ToSet
  <1>10. ToSet(flat) = Delivered(DOMAIN tables)
    BY <1>2, <1>8, <1>9 DEF Delivered
  <1>11. PICK first : first = Snapshot(list)
    OBVIOUS
  <1>12. first \in Seq(Record) /\ ToSet(first) = Listed
    <2>1. first \in Seq(Entry)
      BY <1>11, StoreTypes, FlushedIs
    <2> QED
      BY <2>1, <1>1, <1>11, SnapshotListed DEF Listed
  <1>13. Joins(s, first, flat)
    BY <1>2, <1>3, <1>7, <1>11 DEF Joins
  <1>14. s \in Seq(Record) /\ ToSet(s) = ToSet(first) \cup ToSet(flat)
    <2>1. PICK T : T = Record
      OBVIOUS
    <2>2. first \in Seq(T) /\ flat \in Seq(T)
      BY <2>1, <1>8, <1>12
    <2>3. s \in Seq(T) /\ ToSet(s) = BothSets(first, flat)
      BY <2>2, <1>13, ConcatSets
    <2> QED
      BY <2>1, <2>3 DEF BothSets
  <1> QED
    BY <1>10, <1>12, <1>14 DEF Gathered

FirstOnes(es, n) == {es[i] : i \in 1 .. n}

\* The map that collectMerged builds has the leading entries.
LEMMA CollectedLead ==
    ASSUME NEW n \in Nat, NEW es, \A i \in 1 .. n : es[i] \in Record, NEW all, Collected(all, es, n),
           NEW E, E = FirstOnes(es, n), \A e, d \in E : e.seq = d.seq => e = d
    PROVE  /\ \A k \in DOMAIN all : Leading(all[k], E) /\ all[k].key = k
           /\ \A e \in E : e.key \in DOMAIN all /\ (Leading(e, E) => all[e.key] = e)
           /\ IsFiniteSet(DOMAIN all)
  <1>1. /\ DOMAIN all = {es[i].key : i \in 1 .. n}
        /\ \A i \in 1 .. n : es[i].seq =< all[es[i].key].seq
        /\ \A k \in DOMAIN all : \E i \in 1 .. n : all[k] = es[i] /\ es[i].key = k
    BY DEF Collected
  <1>2. \A k \in DOMAIN all : all[k] \in E /\ all[k].key = k
    BY <1>1 DEF FirstOnes
  <1>3. \A e \in E : e.key \in DOMAIN all /\ e.seq =< all[e.key].seq
    BY <1>1 DEF FirstOnes
  <1>4. \A k \in DOMAIN all : Leading(all[k], E)
    BY <1>2, <1>3 DEF Leading
  <1>5. ASSUME NEW e \in E, Leading(e, E) PROVE all[e.key] = e
    <2>1. all[e.key] \in E /\ all[e.key].key = e.key /\ e.seq =< all[e.key].seq
      BY <1>2, <1>3
    <2>2. all[e.key].seq =< e.seq
      BY <2>1, <1>5 DEF Leading
    <2>3. e.seq \in Nat /\ all[e.key].seq \in Nat
      BY <2>1 DEF FirstOnes, Record
    <2>4. all[e.key].seq = e.seq
      BY <2>1, <2>2, <2>3
    <2> QED
      BY <2>1, <2>4
  <1>6. IsFiniteSet(DOMAIN all)
    <2>1. PICK T : T = DOMAIN all
      OBVIOUS
    <2>2. PICK f : f = [i \in 1 .. n |-> es[i].key]
      OBVIOUS
    <2>3. f \in Surjection(1 .. n, T)
      BY <2>1, <2>2, <1>1 DEF Surjection
    <2>4. IsFiniteSet(1 .. n)
      BY FS_Interval
    <2>5. IsFiniteSet(T)
      BY <2>3, <2>4, FS_Surjection
    <2> QED
      BY <2>1, <2>5
  <1> QED
    BY <1>2, <1>3, <1>4, <1>5, <1>6

LEMMA CollectMergedIs ==
    ASSUME StoreInv, NEW items, items = CollectMerged
    PROVE  Presents(items, Gathered)
  <1>1. PICK s : s = Snapshot(list) \o FlattenSeq([i \in DOMAIN tables |-> ScanOf(tables[i])])
    OBVIOUS
  <1>2. s \in Seq(Record) /\ ToSet(s) = Gathered
    BY <1>1, GatheredFlat
  <1>3. PICK n \in Nat : n = Len(s) /\ DOMAIN s = 1 .. n /\ \A i \in 1 .. n : s[i] \in Record
    BY <1>2
  <1>4. PICK E : E = Gathered /\ E \in SUBSET Record /\ E \in SUBSET Entry
                 /\ \A e, d \in E : e.seq = d.seq => e = d
    BY GatheredAre
  <1>5. E = FirstOnes(s, n)
    BY <1>2, <1>3, <1>4 DEF ToSet, FirstOnes
  <1>6. PICK all : all = FoldLeft(Update, NoEntries, s)
    OBVIOUS
  <1>7. Collected(all, s, n)
    BY <1>3, <1>6, CollectedIs
  <1>8. /\ \A k \in DOMAIN all : Leading(all[k], E) /\ all[k].key = k
        /\ \A e \in E : e.key \in DOMAIN all /\ (Leading(e, E) => all[e.key] = e)
        /\ IsFiniteSet(DOMAIN all)
    <2>1. \A i \in 1 .. n : s[i] \in Record
      BY <1>3
    <2>2. \A e, d \in E : e.seq = d.seq => e = d
      BY <1>4
    <2> QED
      BY <2>1, <2>2, <1>5, <1>7, CollectedLead
  <1>9. PICK K : K = {k \in DOMAIN all : all[k].val # Tombstone}
    OBVIOUS
  <1>10. PICK keys : keys = InOrder(K, KeyLess)
    OBVIOUS
  <1>11. items = [i \in DOMAIN keys |-> [key |-> keys[i], val |-> all[keys[i]].val]]
    BY <1>1, <1>6, <1>9, <1>10 DEF CollectMerged, NoEntries
  <1>12. \A k \in DOMAIN all : all[k] \in E /\ k \in Keys /\ all[k].val \in Contents
    BY <1>4, <1>8 DEF Leading, Entry
  <1>13. IsFiniteSet(K) /\ K \in SUBSET Key /\ K \subseteq Keys
    BY <1>8, <1>9, <1>12, KeysAreKeys, FS_Subset
  <1>14. PICK c \in Nat : c = Cardinality(K)
    BY <1>13, FS_CardinalityType
  <1>15. Lists(keys, K, PlaceLess(K))
    BY <1>10, <1>13, KeysInOrder
  <1>16. /\ keys \in [1 .. c -> K]
         /\ \A i, j \in 1 .. c : i < j => <<keys[i], keys[j]>> \in PlaceLess(K)
         /\ \A x \in K : \E i \in 1 .. c : keys[i] = x
    BY <1>14, <1>15 DEF Lists
  <1>17. \A i, j \in 1 .. c : i < j => KeyLess(keys[i], keys[j])
    BY <1>16 DEF PlaceLess
  <1>18. \A i \in 1 .. c : /\ keys[i] \in DOMAIN all /\ keys[i] \in Keys
                           /\ all[keys[i]].val \in Contents \ {Tombstone}
    BY <1>9, <1>12, <1>16
  <1>19. items = [i \in 1 .. c |-> [key |-> keys[i], val |-> all[keys[i]].val]]
    BY <1>11, <1>16
  <1>20. /\ \A i \in 1 .. c : items[i].key = keys[i] /\ items[i].val = all[keys[i]].val /\ items[i] \in Shown
         /\ DOMAIN items = 1 .. c
    BY <1>18, <1>19 DEF Shown
  <1>21. items \in Seq(Shown) /\ Len(items) = c
    <2>1. items = [i \in 1 .. c |-> items[i]]
      BY <1>19, <1>20
    <2> QED
      BY <2>1, <1>20
  <1>22. Climbing(items)
    BY <1>17, <1>20, <1>21 DEF Climbing
  <1>23. ASSUME NEW i \in 1 .. c
         PROVE  \E e \in E : Leading(e, E) /\ items[i].key = e.key /\ items[i].val = e.val
    BY <1>8, <1>12, <1>18, <1>20
  <1>24. ASSUME NEW e \in E, Leading(e, E), e.val # Tombstone
         PROVE  \E i \in 1 .. c : items[i].key = e.key
    <2>1. e.key \in K
      BY <1>8, <1>9, <1>24
    <2> QED
      BY <2>1, <1>16, <1>20
  <1> QED
    BY <1>4, <1>21, <1>22, <1>23, <1>24 DEF Presents
\* What DB.Iterator shows, and a place in it.
IterInv == iter.items \in Seq(Shown) /\ Climbing(iter.items) /\ iter.idx \in 0 .. Len(iter.items)

\* The item Seek moves to: the first not below the target, if there is one.
FirstItem(items, target, p) ==
    /\ p \in 0 .. Len(items)
    /\ p = 0 => \A i \in 1 .. Len(items) : KeyLess(items[i].key, target)
    /\ p # 0 => /\ ~KeyLess(items[p].key, target)
                /\ \A i \in 1 .. p - 1 : KeyLess(items[i].key, target)

PlaceOf(items, target) == SelectInSeq(items, LAMBDA x : ~KeyLess(x.key, target))

LEMMA ItemSelected ==
    ASSUME NEW items \in Seq(Shown), NEW target
    PROVE  FirstItem(items, target, PlaceOf(items, target))
  <1> DEFINE I == {i \in 1 .. Len(items) : ~KeyLess(items[i].key, target)}
  <1>1. PICK p : p = PlaceOf(items, target)
    OBVIOUS
  <1>2. p = IF I # {} THEN Min(I) ELSE 0
    BY <1>1 DEF PlaceOf, SelectInSeq
  <1>3. I \in SUBSET Nat /\ \A i \in I : i \in 1 .. Len(items) /\ ~KeyLess(items[i].key, target)
    OBVIOUS
  <1>4. \A i \in 1 .. Len(items) : i \notin I => KeyLess(items[i].key, target)
    OBVIOUS
  <1>5. Len(items) \in Nat
    OBVIOUS
  <1> HIDE DEF I
  <1>6. (I = {} => p = 0) /\ (I # {} => p \in I /\ \A i \in I : p =< i)
    BY <1>2, <1>3, LeastOrZero
  <1>7. CASE I # {}
    <2>1. p \in 1 .. Len(items) /\ ~KeyLess(items[p].key, target)
      BY <1>3, <1>6, <1>7
    <2>2. \A i \in 1 .. p - 1 : KeyLess(items[i].key, target)
      <3> TAKE i \in 1 .. p - 1
      <3>1. i \in 1 .. Len(items) /\ ~(p =< i)
        BY <2>1, <1>5
      <3> QED
        BY <3>1, <1>4, <1>6, <1>7
    <2>3. p \in 0 .. Len(items) /\ p # 0
      BY <2>1, <1>5
    <2>4. FirstItem(items, target, p)
      BY <2>1, <2>2, <2>3 DEF FirstItem
    <2> QED
      BY <2>4, <1>1
  <1>8. CASE I = {}
    <2>1. p = 0 /\ p \in 0 .. Len(items)
      BY <1>5, <1>6, <1>8
    <2>2. FirstItem(items, target, p)
      BY <2>1, <1>4, <1>8 DEF FirstItem
    <2> QED
      BY <2>2, <1>1
  <1> QED
    BY <1>7, <1>8

LEMMA NoItemsIter == ASSUME iter' = NoItems PROVE IterInv'
  <1>1. <<>> \in Seq(Shown) /\ Len(<<>>) = 0 /\ 0 \in 0 .. 0 /\ 1 .. 0 = {}
    OBVIOUS
  <1>2. iter'.items = <<>> /\ iter'.idx = 0
    BY DEF NoItems
  <1> QED
    BY <1>1, <1>2 DEF IterInv, Climbing

LEMMA MoveToIter ==
    ASSUME IterInv, NEW idx \in 0 .. Len(iter.items), MoveTo(idx),
           iter \in [items : Seq(Shown), idx : Nat]
    PROVE  IterInv' /\ iter'.items = iter.items /\ iter'.idx = idx
  <1>1. iter' = [iter EXCEPT !.idx = idx]
    BY DEF MoveTo
  <1>2. iter'.items = iter.items /\ iter'.idx = idx
    BY <1>1
  <1> QED
    BY <1>2 DEF IterInv

IterType == iter \in [items : Seq(Shown), idx : Nat]
ReadInv == StoreInv /\ IterInv /\ IterType

\* Where an iterator is moved to.
LEMMA SeekPlace ==
    ASSUME IterInv, NEW target
    PROVE  PlaceOf(iter.items, target) \in 0 .. Len(iter.items)
  <1>1. PICK items \in Seq(Shown) : items = iter.items
    BY DEF IterInv
  <1>2. FirstItem(items, target, PlaceOf(items, target))
    BY <1>1, ItemSelected
  <1>3. PlaceOf(items, target) \in 0 .. Len(items)
    BY <1>2 DEF FirstItem
  <1> QED
    BY <1>1, <1>3

LEMMA IterMoves ==
    ASSUME ReadInv, (\E target \in Targets : Seek(target)) \/ SeekToFirst \/ IterNext
    PROVE  \E idx \in 0 .. Len(iter.items) : MoveTo(idx)
  <1>1. PICK items \in Seq(Shown) : items = iter.items
    BY DEF ReadInv, IterInv
  <1>2. iter.idx \in 0 .. Len(items) /\ Len(items) \in Nat
    BY <1>1 DEF ReadInv, IterInv
  <1>3. CASE \E target \in Targets : Seek(target)
    <2>1. PICK target \in Targets : Seek(target)
      BY <1>3
    <2>2. PICK p : p = PlaceOf(iter.items, target)
      OBVIOUS
    <2>3. p \in 0 .. Len(iter.items)
      BY <2>2, SeekPlace DEF ReadInv
    <2>4. MoveTo(p)
      BY <2>1, <2>2 DEF Seek, PlaceOf
    <2> QED
      BY <2>3, <2>4
  <1>4. CASE SeekToFirst
    <2>1. PICK p : p = (IF iter.items = <<>> THEN 0 ELSE 1)
      OBVIOUS
    <2>2. p \in 0 .. Len(items)
      BY <2>1, <1>1, <1>2
    <2>3. MoveTo(p)
      BY <2>1, <1>4 DEF SeekToFirst
    <2> QED
      BY <2>2, <2>3, <1>1
  <1>5. CASE IterNext
    <2>1. PICK p : p = (IF iter.idx + 1 > Len(iter.items) THEN 0 ELSE iter.idx + 1)
      OBVIOUS
    <2>2. p \in 0 .. Len(items)
      BY <2>1, <1>1, <1>2
    <2>3. MoveTo(p)
      BY <2>1, <1>5 DEF IterNext
    <2> QED
      BY <2>2, <2>3, <1>1
  <1> QED
    BY <1>3, <1>4, <1>5

LEMMA NewIteratorIter ==
    ASSUME StoreInv, NewIterator
    PROVE  IterInv' /\ IterType' /\ iter'.idx = 0 /\ Presents(iter'.items, Gathered)
  <1>1. PICK items : items = CollectMerged
    OBVIOUS
  <1>2. Presents(items, Gathered)
    BY <1>1, CollectMergedIs
  <1>3. iter' = [items |-> items, idx |-> 0]
    BY <1>1 DEF NewIterator
  <1>4. items \in Seq(Shown) /\ Climbing(items) /\ 0 \in 0 .. Len(items)
    BY <1>2 DEF Presents
  <1>5. iter'.items = items /\ iter'.idx = 0
    BY <1>3
  <1> QED
    BY <1>2, <1>3, <1>4, <1>5 DEF IterInv, IterType

LEMMA ReadStep == ReadInv /\ [Next]_vars => ReadInv'
  <1> SUFFICES ASSUME ReadInv, [Next]_vars PROVE IterInv' /\ IterType'
    BY StoreStep DEF ReadInv
  <1>1. ASSUME iter' = iter PROVE IterInv' /\ IterType'
    BY <1>1 DEF ReadInv, IterInv, IterType
  <1>2. ASSUME iter' = NoItems PROVE IterInv' /\ IterType'
    <2>1. <<>> \in Seq(Shown)
      OBVIOUS
    <2> QED
      BY <2>1, <1>2, NoItemsIter DEF NoItems, IterType
  <1>3. ASSUME NEW idx \in 0 .. Len(iter.items), MoveTo(idx) PROVE IterInv' /\ IterType'
    <2>1. IterInv' /\ iter'.items = iter.items /\ iter'.idx = idx
      BY <1>3, MoveToIter DEF ReadInv, IterType
    <2>2. iter' = [iter EXCEPT !.idx = idx] /\ idx \in Nat
      BY <1>3 DEF MoveTo
    <2> QED
      BY <2>1, <2>2 DEF ReadInv, IterType
  <1>4. CASE \E ops \in Batches, heights \in Heights : Write(ops, heights)
    BY <1>1, <1>4 DEF Write
  <1>5. CASE \E heights \in Heights : Restart(heights)
    BY <1>2, <1>5 DEF Restart
  <1>6. CASE \E i \in DOMAIN tables : Damage(i)
    BY <1>1, <1>6 DEF Damage
  <1>7. CASE Flush \/ Compact
    BY <1>1, <1>7 DEF Flush, Compact
  <1>8. CASE (\E target \in Targets : Seek(target)) \/ SeekToFirst \/ IterNext
    BY <1>3, <1>8, IterMoves
  <1>9. CASE NewIterator
    BY <1>9, NewIteratorIter DEF ReadInv
  <1>10. CASE (\E target \in Targets : MemSeek(target)) \/ MemNewIterator \/ MemSeekToFirst
    BY <1>2, <1>10 DEF MemNewIterator, MemSeekToFirst, MemSeek, StandAt
  <1>11. CASE MemNext \/ UNCHANGED vars
    BY <1>1, <1>11 DEF MemNext, vars
  <1> QED
    BY <1>4, <1>5, <1>6, <1>7, <1>8, <1>9, <1>10, <1>11 DEF Next

THEOREM ReadInvariant == Spec => []ReadInv
  <1>1. Init => ReadInv
    <2> SUFFICES ASSUME Init PROVE ReadInv
      OBVIOUS
    <2>1. StoreInv
      BY StoreInit
    <2>2. <<>> \in Seq(Shown) /\ Len(<<>>) = 0 /\ 0 \in 0 .. 0 /\ 1 .. 0 = {}
      OBVIOUS
    <2>3. iter = [items |-> <<>>, idx |-> 0]
      BY DEF Init, NoItems
    <2>4. iter.items = <<>> /\ iter.idx = 0
      BY <2>3
    <2> QED
      BY <2>1, <2>2, <2>3, <2>4 DEF ReadInv, IterInv, IterType, Climbing
  <1>2. ReadInv /\ [Next]_vars => ReadInv'
    BY ReadStep
  <1> QED
    BY <1>1, <1>2, PTL DEF Spec
-----------------------------------------------------------------------------
(* The types.                                                                *)

\* No write is empty, and so is no frame.
FramesInv == frames \in Seq(Frame)

LEMMA FramesStep ==
    ASSUME ReadInv, FramesInv, [Next]_vars
    PROVE  FramesInv'
  <1>1. ASSUME frames' = frames PROVE FramesInv'
    BY <1>1 DEF FramesInv
  <1>2. ASSUME NEW ops \in Batches, NEW heights \in Heights, Write(ops, heights) PROVE FramesInv'
    <2>1. nextSeq \in Nat
      BY StoreTypes DEF ReadInv
    <2>2. PICK frame : frame = FrameOf(ops)
      OBVIOUS
    <2>3. frame \in Seq(Record) /\ Len(frame) = Len(ops) /\ Len(ops) \in Nat
      BY <2>1, <2>2, FrameOfType
    <2>4. ops # <<>> /\ \E S : ops \in Seq(S)
      BY DataPathAssumption
    <2>5. Len(ops) # 0
      <3>1. PICK S : ops \in Seq(S)
        BY <2>4
      <3> QED
        BY <3>1, <2>4, EmptySeq
    <2>6. frame # <<>>
      BY <2>3, <2>5
    <2>7. frame \in Frame
      BY <2>3, <2>6 DEF Frame
    <2>8. frames' = Append(frames, frame)
      BY <1>2, <2>2 DEF Write
    <2> QED
      BY <2>7, <2>8 DEF FramesInv
  <1>3. CASE Flush
    <2>1. frames' = frames \/ frames' = <<>>
      BY <1>3 DEF Flush
    <2>2. <<>> \in Seq(Frame)
      OBVIOUS
    <2> QED
      BY <1>1, <2>1, <2>2 DEF FramesInv
  <1>4. CASE \E heights \in Heights : Restart(heights)
    BY <1>1, <1>4 DEF Restart
  <1>5. CASE \E i \in DOMAIN tables : Damage(i)
    BY <1>1, <1>5 DEF Damage
  <1>6. CASE Compact \/ NewIterator
    BY <1>1, <1>6 DEF Compact, NewIterator
  <1>7. CASE (\E target \in Targets : Seek(target) \/ MemSeek(target)) \/ SeekToFirst \/ IterNext
    BY <1>1, <1>7 DEF Seek, SeekToFirst, IterNext, MoveTo, MemSeek, StandAt
  <1>8. CASE MemNewIterator \/ MemSeekToFirst \/ MemNext \/ UNCHANGED vars
    BY <1>1, <1>8 DEF MemNewIterator, MemSeekToFirst, MemNext, StandAt, vars
  <1> QED
    BY <1>2, <1>3, <1>4, <1>5, <1>6, <1>7, <1>8 DEF Next

LEMMA TypesHold ==
    ASSUME ReadInv, FramesInv
    PROVE  TypeOK
  <1>1. LogInv /\ TablesGood /\ nextSeq =< MaxSeq /\ nextSeq \in Nat /\ ListInv(list) /\ MemInv
    BY StoreTypes DEF ReadInv, LogInv
  <1>2. Nodes(list) \subseteq Keys /\ list.entry \in [Nodes(list) -> Version]
    BY <1>1, TypedIs DEF ListInv
  <1>3. nextSeq \in 0 .. MaxSeq
    BY <1>1, DataPathAssumption
  <1>4. ASSUME NEW i \in DOMAIN tables
        PROVE  /\ tables[i].level \in {0, 1}
               /\ tables[i].bad \subseteq DOMAIN tables[i].file.blocks
               /\ ToSet(Scan(tables[i].file, {})) \subseteq Entry
    <2>1. PICK t : t = tables[i] /\ TableSound(t)
      BY <1>1 DEF TablesGood
    <2>2. PICK es \in Seq(Entry) : FileOf(t.file, es)
      BY <2>1 DEF TableSound
    <2>3. t.file.blocks \in Seq(Block)
      BY <2>2 DEF FileOf, Holding
    <2>4. DOMAIN t.file.blocks = 1 .. Len(t.file.blocks)
      BY <2>3
    <2>5. t.level \in {0, 1} /\ t.bad \subseteq DOMAIN t.file.blocks
      BY <2>1, <2>4 DEF TableSound
    <2>6. Scan(t.file, {}) = es /\ ToSet(es) \subseteq Entry
      BY <2>2, ScanIs DEF ToSet
    <2> QED
      BY <2>1, <2>5, <2>6
  <1>5. due \subseteq Keys
    BY <1>1 DEF MemInv, Ahead
  <1>6. iter.idx \in 0 .. Len(iter.items)
    BY DEF ReadInv, IterInv
  <1> QED
    BY <1>2, <1>3, <1>4, <1>5, <1>6 DEF TypeOK, FramesInv

\* The state the operations of DB work upon has its types: numbers stay below the
\* bound, frames are not empty, a table holds entries of the bytes that can be read.
THEOREM DataTypes == Spec => []TypeOK
  <1>1. Init => FramesInv
    BY DEF Init, FramesInv
  <1>2. ReadInv /\ FramesInv /\ [Next]_vars => FramesInv'
    BY FramesStep
  <1>3. ReadInv /\ FramesInv => TypeOK
    BY TypesHold
  <1> QED
    BY <1>1, <1>2, <1>3, ReadInvariant, PTL DEF Spec
-----------------------------------------------------------------------------
(* Entries as functions from keys to versions.                               *)

\* What the entries of E amount to: of each key the version that none outdoes.
Resolves(t, E) ==
    /\ t \in Table
    /\ \A k \in Keys :
          \/ t[k] = NoVersion /\ \A e \in E : e.key # k
          \/ \E e \in E : Leading(e, E) /\ e.key = k /\ t[k] = VersionOf(e)

\* No two entries have a number in common, and none has number 0.
Apart(E) == (\A e, d \in E : e.seq = d.seq => e = d) /\ \A e \in E : e \in Record /\ 0 < e.seq

LEMMA LeadingOnce ==
    ASSUME NEW E, Apart(E), NEW e, Leading(e, E), NEW d, Leading(d, E), e.key = d.key
    PROVE  e = d
  <1>1. e \in E /\ d \in E /\ e.seq =< d.seq /\ d.seq =< e.seq
    BY DEF Leading
  <1>2. e.seq \in Nat /\ d.seq \in Nat
    BY <1>1 DEF Apart, Record
  <1>3. e.seq = d.seq
    BY <1>1, <1>2
  <1> QED
    BY <1>1, <1>3 DEF Apart

LEMMA ResolvesOnce ==
    ASSUME NEW E, Apart(E), NEW t, Resolves(t, E), NEW u, Resolves(u, E)
    PROVE  t = u
  <1>1. ASSUME NEW k \in Keys PROVE t[k] = u[k]
    <2>1. \/ t[k] = NoVersion /\ \A e \in E : e.key # k
          \/ \E e \in E : Leading(e, E) /\ e.key = k /\ t[k] = VersionOf(e)
      BY DEF Resolves
    <2>2. \/ u[k] = NoVersion /\ \A e \in E : e.key # k
          \/ \E e \in E : Leading(e, E) /\ e.key = k /\ u[k] = VersionOf(e)
      BY DEF Resolves
    <2> QED
      BY <2>1, <2>2, LeadingOnce
  <1>2. t \in [Keys -> Version] /\ u \in [Keys -> Version]
    BY DEF Resolves, Table
  <1> QED
    BY <1>1, <1>2

\* Entries that are outdone by others make no difference.
LEMMA ResolvesMore ==
    ASSUME NEW D, \A d \in D : d \in Record, NEW E \in SUBSET D,
           \A d \in D : \E e \in E : e.key = d.key /\ d.seq =< e.seq,
           NEW t, Resolves(t, E)
    PROVE  Resolves(t, D)
  <1>1. ASSUME NEW e \in E, Leading(e, E) PROVE Leading(e, D)
    <2> SUFFICES ASSUME NEW d \in D, d.key = e.key PROVE d.seq =< e.seq
      BY DEF Leading
    <2>1. PICK x \in E : x.key = d.key /\ d.seq =< x.seq
      OBVIOUS
    <2>2. x.seq =< e.seq
      BY <2>1, <1>1 DEF Leading
    <2>3. d.seq \in Nat /\ x.seq \in Nat /\ e.seq \in Nat
      BY DEF Record
    <2> QED
      BY <2>1, <2>2, <2>3
  <1>2. ASSUME NEW k \in Keys
        PROVE  \/ t[k] = NoVersion /\ \A e \in D : e.key # k
               \/ \E e \in D : Leading(e, D) /\ e.key = k /\ t[k] = VersionOf(e)
    <2>1. \/ t[k] = NoVersion /\ \A e \in E : e.key # k
          \/ \E e \in E : Leading(e, E) /\ e.key = k /\ t[k] = VersionOf(e)
      BY DEF Resolves
    <2>2. CASE t[k] = NoVersion /\ \A e \in E : e.key # k
      <3>1. \A d \in D : d.key # k
        BY <2>2
      <3> QED
        BY <2>2, <3>1
    <2>3. CASE \E e \in E : Leading(e, E) /\ e.key = k /\ t[k] = VersionOf(e)
      BY <2>3, <1>1
    <2> QED
      BY <2>1, <2>2, <2>3
  <1> QED
    BY <1>2 DEF Resolves

LEMMA NothingResolves == Resolves(EmptyTable, {})
  <1>1. EmptyTable \in Table
    BY EmptyTableType
  <1> QED
    BY <1>1 DEF Resolves, EmptyTable

\* Two functions merged are what the entries of both amount to.
LEMMA MergeResolves ==
    ASSUME NEW F, NEW G, \A e \in F \cup G : e \in Record /\ 0 < e.seq,
           NEW t, Resolves(t, F), NEW p, Resolves(p, G)
    PROVE  Resolves(MergeTables({t, p}), F \cup G)
  <1>1. t \in Table /\ p \in Table /\ {t, p} \in SUBSET Table
    BY DEF Resolves
  <1>2. PICK m : m = MergeTables({t, p})
    OBVIOUS
  <1>3. m \in Table
    BY <1>1, <1>2, MergeTablesType
  <1>4. ASSUME NEW k \in Keys
        PROVE  \/ m[k] = NoVersion /\ \A e \in F \cup G : e.key # k
               \/ \E e \in F \cup G : Leading(e, F \cup G) /\ e.key = k /\ m[k] = VersionOf(e)
    <2>1. t[k] \in Version /\ p[k] \in Version /\ t[k].seq \in Nat /\ p[k].seq \in Nat
      BY <1>1 DEF Table, Version
    <2>2. m[k] = NoVersion \/ m[k] = t[k] \/ m[k] = p[k]
      BY <1>1, <1>2, MergeHolds
    <2>3. t[k].seq =< m[k].seq /\ p[k].seq =< m[k].seq
      <3>1. PICK b \in Nat : t[k].seq =< b /\ p[k].seq =< b
        <4>1. t[k].seq + p[k].seq \in Nat /\ t[k].seq =< t[k].seq + p[k].seq /\ p[k].seq =< t[k].seq + p[k].seq
          BY <2>1
        <4> QED
          BY <4>1
      <3>2. \A x \in {t, p} : x[k].seq =< b
        BY <3>1
      <3>3. \A x \in {t, p} : x[k].seq =< MergeTables({t, p})[k].seq
        BY <3>2, <1>1, MergeAbove
      <3> QED
        BY <3>3, <1>2
    <2>4. \/ t[k] = NoVersion /\ \A e \in F : e.key # k
          \/ \E e \in F : Leading(e, F) /\ e.key = k /\ t[k] = VersionOf(e)
      BY DEF Resolves
    <2>5. \/ p[k] = NoVersion /\ \A e \in G : e.key # k
          \/ \E e \in G : Leading(e, G) /\ e.key = k /\ p[k] = VersionOf(e)
      BY DEF Resolves
    <2>6. NoVersion.seq = 0 /\ \A e : VersionOf(e).seq = e.seq
      BY DEF NoVersion, VersionOf
    <2>7. \A e \in F \cup G : e.seq \in Nat /\ 0 < e.seq
      BY DEF Record
    <2>8. ASSUME NEW e \in F, Leading(e, F), e.key = k, t[k] = VersionOf(e), m[k] = t[k]
          PROVE  Leading(e, F \cup G)
      <3> SUFFICES ASSUME NEW d \in G, d.key = k PROVE d.seq =< e.seq
        BY <2>8 DEF Leading
      <3>1. PICK g \in G : Leading(g, G) /\ g.key = k /\ p[k] = VersionOf(g)
        BY <2>5
      <3>2. d.seq =< g.seq /\ g.seq = p[k].seq /\ p[k].seq =< e.seq
        BY <3>1, <2>3, <2>6, <2>8 DEF Leading
      <3> QED
        BY <3>2, <2>7
    <2>9. ASSUME NEW e \in G, Leading(e, G), e.key = k, p[k] = VersionOf(e), m[k] = p[k]
          PROVE  Leading(e, F \cup G)
      <3> SUFFICES ASSUME NEW d \in F, d.key = k PROVE d.seq =< e.seq
        BY <2>9 DEF Leading
      <3>1. PICK g \in F : Leading(g, F) /\ g.key = k /\ t[k] = VersionOf(g)
        BY <2>4
      <3>2. d.seq =< g.seq /\ g.seq = t[k].seq /\ t[k].seq =< e.seq
        BY <3>1, <2>3, <2>6, <2>9 DEF Leading
      <3> QED
        BY <3>2, <2>7
    <2>10. CASE m[k] = t[k] /\ \E e \in F : Leading(e, F) /\ e.key = k /\ t[k] = VersionOf(e)
      <3>1. PICK e \in F : Leading(e, F) /\ e.key = k /\ t[k] = VersionOf(e)
        BY <2>10
      <3>2. Leading(e, F \cup G) /\ e \in F \cup G
        BY <3>1, <2>8, <2>10
      <3> QED
        BY <3>1, <3>2, <2>10
    <2>11. CASE m[k] = p[k] /\ \E e \in G : Leading(e, G) /\ e.key = k /\ p[k] = VersionOf(e)
      <3>1. PICK e \in G : Leading(e, G) /\ e.key = k /\ p[k] = VersionOf(e)
        BY <2>11
      <3>2. Leading(e, F \cup G) /\ e \in F \cup G
        BY <3>1, <2>9, <2>11
      <3> QED
        BY <3>1, <3>2, <2>11
    <2>12. CASE m[k] = NoVersion
      <3>1. m[k].seq = 0
        BY <2>12, <2>6
      <3>2. \A e \in F : ~(e.key = k /\ t[k] = VersionOf(e))
        BY <3>1, <2>3, <2>6, <2>7
      <3>3. \A e \in G : ~(e.key = k /\ p[k] = VersionOf(e))
        BY <3>1, <2>3, <2>6, <2>7
      <3> QED
        BY <3>2, <3>3, <2>4, <2>5, <2>12
    <2> QED
      BY <2>2, <2>4, <2>5, <2>10, <2>11, <2>12
  <1> QED
    BY <1>2, <1>3, <1>4 DEF Resolves

\* No key is there twice.
LEMMA AscendingOnce ==
    ASSUME NEW es \in Seq(Record), Ascending(es), NEW i \in 1 .. Len(es), NEW j \in 1 .. Len(es),
           es[i].key = es[j].key
    PROVE  i = j
  <1> SUFFICES ASSUME i # j PROVE FALSE
    OBVIOUS
  <1>1. Len(es) \in Nat
    BY RecordsAre
  <1>2. i < j \/ j < i
    BY <1>1
  <1>3. KeyLess(es[i].key, es[j].key) \/ KeyLess(es[j].key, es[i].key)
    BY <1>2, AscendingFar
  <1> QED
    BY <1>3, RecordsAre, KeyLessIrreflexive

\* What is found in a sequence that has every key once.
LooksUp(t, es) ==
    /\ t = [k \in Keys |-> t[k]]
    /\ \A i \in 1 .. Len(es) : t[es[i].key] = VersionOf(es[i])
    /\ \A k \in Keys : (\A i \in 1 .. Len(es) : es[i].key # k) => t[k] = NoVersion

LEMMA TableOfEntriesLooksUp ==
    ASSUME NEW es \in Seq(Record), Ascending(es)
    PROVE  LooksUp(TableOfEntries(es), es)
  <1>1. PICK n \in Nat : n = Len(es) /\ DOMAIN es = 1 .. n /\ ToSet(es) = {es[i] : i \in 1 .. n}
    BY DEF ToSet
  <1>2. PICK t : t = TableOfEntries(es)
    OBVIOUS
  <1>3. ASSUME NEW k \in Keys
        PROVE  \/ t[k] = NoVersion /\ \A i \in 1 .. n : es[i].key # k
               \/ \E i \in 1 .. n : es[i].key = k /\ t[k] = VersionOf(es[i])
    <2> DEFINE I == {i \in 1 .. n : es[i].key = k}
    <2>1. PICK p : p = SelectInSeq(es, LAMBDA e : e.key = k)
      OBVIOUS
    <2>2. p = IF I # {} THEN Min(I) ELSE 0
      BY <2>1, <1>1 DEF SelectInSeq
    <2>3. I \in SUBSET Nat /\ \A i \in I : i \in 1 .. n /\ es[i].key = k
      OBVIOUS
    <2>4. \A i \in 1 .. n : i \notin I => es[i].key # k
      OBVIOUS
    <2>5. t[k] = IF p = 0 THEN NoVersion ELSE VersionOf(es[p])
      BY <2>1, <1>2 DEF TableOfEntries
    <2> HIDE DEF I
    <2>6. (I = {} => p = 0) /\ (I # {} => p \in I)
      BY <2>2, <2>3, LeastOrZero
    <2>7. CASE I = {}
      BY <2>4, <2>5, <2>6, <2>7
    <2>8. CASE I # {}
      <3>1. p \in I
        BY <2>6, <2>8
      <3>2. p \in 1 .. n /\ es[p].key = k
        BY <3>1, <2>3
      <3>3. p # 0
        BY <3>2
      <3> QED
        BY <3>2, <3>3, <2>5
    <2> QED
      BY <2>7, <2>8
  <1>4. \A i, j \in 1 .. n : es[i].key = es[j].key => i = j
    BY <1>1, AscendingOnce
  <1>5. \A i \in 1 .. n : t[es[i].key] = VersionOf(es[i])
    <2> TAKE i \in 1 .. n
    <2>1. es[i].key \in Keys
      BY <1>1, RecordsAre
    <2>2. PICK j \in 1 .. n : es[j].key = es[i].key /\ t[es[i].key] = VersionOf(es[j])
      BY <1>3, <2>1
    <2> QED
      BY <2>2, <1>4
  <1>6. \A k \in Keys : (\A i \in 1 .. n : es[i].key # k) => t[k] = NoVersion
    BY <1>3
  <1>7. t = [k \in Keys |-> t[k]]
    BY <1>2 DEF TableOfEntries
  <1> QED
    BY <1>1, <1>2, <1>5, <1>6, <1>7 DEF LooksUp

\* A file amounts to what is in it.
LEMMA TableOfEntriesIs ==
    ASSUME NEW es \in Seq(Record), Ascending(es)
    PROVE  Resolves(TableOfEntries(es), ToSet(es))
  <1>1. PICK n \in Nat : /\ n = Len(es) /\ \A i \in 1 .. n : es[i] \in Record
                         /\ ToSet(es) = {es[i] : i \in 1 .. n}
    BY DEF ToSet
  <1>2. PICK t : t = TableOfEntries(es) /\ LooksUp(t, es)
    BY TableOfEntriesLooksUp
  <1>3. \A i \in 1 .. n : Leading(es[i], ToSet(es))
    <2>1. \A i, j \in 1 .. n : es[i].key = es[j].key => es[i] = es[j]
      BY <1>1, AscendingOnce
    <2>2. \A i \in 1 .. n : es[i].seq \in Nat
      BY <1>1 DEF Record
    <2>3. \A i, j \in 1 .. n : es[i].key = es[j].key => es[i].seq =< es[j].seq
      BY <2>1, <2>2
    <2> QED
      BY <2>3, <1>1 DEF Leading
  <1>4. \A k \in Keys :
           \/ t[k] = NoVersion /\ \A i \in 1 .. n : es[i].key # k
           \/ \E i \in 1 .. n : es[i].key = k /\ t[k] = VersionOf(es[i])
    BY <1>1, <1>2 DEF LooksUp
  <1>5. t \in Table
    <2>1. NoVersion \in Version
      BY DEF NoVersion, Version, Contents
    <2>2. \A i \in 1 .. n : VersionOf(es[i]) \in Version
      BY <1>1 DEF VersionOf, Version, Record
    <2>3. \A k \in Keys : t[k] \in Version
      BY <2>1, <2>2, <1>4
    <2> QED
      BY <2>3, <1>2 DEF Table, LooksUp
  <1>6. \A k \in Keys :
           \/ t[k] = NoVersion /\ \A e \in ToSet(es) : e.key # k
           \/ \E e \in ToSet(es) : Leading(e, ToSet(es)) /\ e.key = k /\ t[k] = VersionOf(e)
    <2> TAKE k \in Keys
    <2>1. \A i \in 1 .. n : es[i] \in ToSet(es)
      BY <1>1
    <2>2. CASE t[k] = NoVersion /\ \A i \in 1 .. n : es[i].key # k
      <3>1. \A e \in ToSet(es) : e.key # k
        BY <2>2, <1>1
      <3> QED
        BY <2>2, <3>1
    <2>3. CASE \E i \in 1 .. n : es[i].key = k /\ t[k] = VersionOf(es[i])
      BY <2>1, <2>3, <1>3
    <2> QED
      BY <2>2, <2>3, <1>4
  <1> QED
    BY <1>2, <1>5, <1>6 DEF Resolves
\* The operators TableStore has by its own instance of Versions and KeyOrder.
LEMMA StoreFunctions ==
    /\ \A ts : Store!MergeTables(ts) = MergeTables(ts)
    /\ \A a, b : Store!KeyLess(a, b) = KeyLess(a, b)
    /\ \A t : Store!Visible(t) = Visible(t)
    /\ Store!NoVersion = NoVersion /\ Store!NoKey = NoKey /\ Store!EmptyTable = EmptyTable
  <1>1. Store!NoVersion = NoVersion /\ Store!NoKey = NoKey /\ Store!EmptyTable = EmptyTable
    BY StoreOperators DEF Store!NoVersion, NoVersion, Store!NoKey, NoKey
  <1>2. \A vs : Store!Newest(vs) = Newest(vs)
    BY <1>1 DEF Store!Newest, Newest
  <1>3. \A ts : Store!MergeTables(ts) = MergeTables(ts)
    BY <1>2 DEF Store!MergeTables, MergeTables
  <1>4. \A a, b : Store!KeyLess(a, b) = KeyLess(a, b)
    BY DEF Store!KeyLess, KeyLess, Store!SharedPrefixLen, SharedPrefixLen
  <1>5. \A t : Store!Visible(t) = Visible(t)
    BY DEF Store!Visible, Visible
  <1> QED
    BY <1>1, <1>3, <1>4, <1>5

-----------------------------------------------------------------------------
(* What MergedWith of TableStore has.                                        *)

\* One more table merged, in all the ways it may be read.
Extended(ts, passes) == {Store!MergeTables({t, pass}) : t \in ts, pass \in passes}

MergedUpto(others, ts, n, merged) ==
    merged = [i \in 0 .. n |-> IF i = 0 THEN {Store!MergeTables(others)}
                               ELSE Extended(merged[i - 1], Store!Passes(ts[i]))]

LEMMA MergedUptoExists ==
    ASSUME NEW others, NEW ts, NEW n \in Nat
    PROVE  \E m : MergedUpto(others, ts, n, m)
  <1> DEFINE Bad == {i \in Nat : \A g : ~MergedUpto(others, ts, i, g)}
  <1>1. 0 \notin Bad
    <2> DEFINE g == [i \in 0 .. 0 |-> {Store!MergeTables(others)}]
    <2>1. \A i \in 0 .. 0 : i = 0
      OBVIOUS
    <2>2. MergedUpto(others, ts, 0, g)
      BY <2>1 DEF MergedUpto
    <2> QED
      BY <2>2
  <1>2. ASSUME NEW i \in Nat, i \notin Bad PROVE i + 1 \notin Bad
    <2>1. PICK g : MergedUpto(others, ts, i, g)
      BY <1>2
    <2>2. \A j \in 0 .. i : g[j] = IF j = 0 THEN {Store!MergeTables(others)}
                                   ELSE Extended(g[j - 1], Store!Passes(ts[j]))
      BY <2>1 DEF MergedUpto
    <2> DEFINE h == [j \in 0 .. i + 1 |-> IF j = i + 1 THEN Extended(g[i], Store!Passes(ts[i + 1])) ELSE g[j]]
    <2>3. \A j \in 0 .. i : h[j] = g[j]
      OBVIOUS
    <2>4. h[i + 1] = Extended(g[i], Store!Passes(ts[i + 1]))
      OBVIOUS
    <2>5. h = [j \in 0 .. i + 1 |-> h[j]]
      OBVIOUS
    <2> HIDE DEF h
    <2>6. \A j \in 0 .. i + 1 : h[j] = IF j = 0 THEN {Store!MergeTables(others)}
                                       ELSE Extended(h[j - 1], Store!Passes(ts[j]))
      <3> TAKE j \in 0 .. i + 1
      <3>1. CASE j = i + 1
        <4>1. j # 0 /\ j - 1 = i /\ i \in 0 .. i
          BY <3>1
        <4> QED
          BY <3>1, <4>1, <2>3, <2>4
      <3>2. CASE j # i + 1
        <4>1. j \in 0 .. i /\ (j # 0 => j - 1 \in 0 .. i)
          BY <3>2
        <4> QED
          BY <4>1, <2>2, <2>3
      <3> QED
        BY <3>1, <3>2
    <2>7. MergedUpto(others, ts, i + 1, h)
      BY <2>5, <2>6 DEF MergedUpto
    <2> QED
      BY <2>7
  <1>3. ASSUME NEW b \in Bad PROVE FALSE
    <2>1. PICK i \in Bad : \A k \in Bad : i =< k
      <3>1. Bad \in SUBSET Nat /\ Bad # {}
        BY <1>3
      <3> HIDE DEF Bad
      <3> QED
        BY <3>1, SmallestOf
    <2>2. i # 0 /\ i \in Nat
      BY <2>1, <1>1
    <2> HIDE DEF Bad
    <2>3. i - 1 \in Nat /\ (i - 1) + 1 = i /\ ~(i =< i - 1)
      BY <2>2
    <2>4. i - 1 \notin Bad
      BY <2>1, <2>3
    <2> QED
      BY <2>1, <2>3, <2>4, <1>2
  <1>4. n \notin Bad
    BY <1>3
  <1> QED
    BY <1>4

LEMMA MergedWithIs ==
    ASSUME NEW others, NEW ts, NEW n \in Nat, n = Len(ts)
    PROVE  \E m : MergedUpto(others, ts, n, m) /\ Store!MergedWith(others, ts) = m[n]
  <1> DEFINE F(m) == m = [i \in 0 .. n |-> IF i = 0 THEN {Store!MergeTables(others)}
                                           ELSE {Store!MergeTables({t, pass}) :
                                                    t \in m[i - 1], pass \in Store!Passes(ts[i])}]
  <1>1. \A m : F(m) <=> MergedUpto(others, ts, n, m)
    BY DEF MergedUpto, Extended
  <1>2. Store!MergedWith(others, ts) = (CHOOSE m : F(m))[n]
    BY DEF Store!MergedWith
  <1> HIDE DEF F
  <1>3. \E m : F(m)
    BY <1>1, MergedUptoExists
  <1> QED
    BY <1>1, <1>2, <1>3

\* The first entries of several tables.
Parts(E, n) == UNION {E[i] : i \in 1 .. n}

LEMMA ExtendedHas ==
    ASSUME NEW ts, NEW passes, NEW t \in ts, NEW pass \in passes, NEW m, m = Store!MergeTables({t, pass})
    PROVE  m \in Extended(ts, passes)
  BY DEF Extended

\* One of ts is what E amounts to.
Reached(ts, E) == \E t \in ts : Resolves(t, E)

\* What passes over tables and other data amount to is among what MergedWith has.
LEMMA MergedResolves ==
    ASSUME NEW others, NEW B, Resolves(MergeTables(others), B),
           NEW ts, NEW n \in Nat, n = Len(ts), NEW p, NEW E,
           \A i \in 1 .. n : p[i] \in Store!Passes(ts[i]) /\ Resolves(p[i], E[i]),
           \A e \in B \cup Parts(E, n) : e \in Record /\ 0 < e.seq
    PROVE  Reached(Store!MergedWith(others, ts), B \cup Parts(E, n))
  <1>1. PICK m : MergedUpto(others, ts, n, m) /\ Store!MergedWith(others, ts) = m[n]
    BY MergedWithIs
  <1>2. \A i \in 0 .. n : m[i] = IF i = 0 THEN {MergeTables(others)}
                                 ELSE Extended(m[i - 1], Store!Passes(ts[i]))
    BY <1>1, StoreFunctions DEF MergedUpto
  <1> DEFINE Bad == {i \in 0 .. n : ~Reached(m[i], B \cup Parts(E, i))}
  <1>3. ASSUME NEW b \in Bad PROVE FALSE
    <2>1. Bad \in SUBSET Nat /\ Bad # {}
      <3>1. \A i \in Bad : i \in Nat
        OBVIOUS
      <3> HIDE DEF Bad
      <3> QED
        BY <3>1, <1>3
    <2>2. PICK i \in Bad : \A k \in Bad : i =< k
      <3> HIDE DEF Bad
      <3> QED
        BY <2>1, SmallestOf
    <2>3. i \in 0 .. n /\ ~Reached(m[i], B \cup Parts(E, i))
      BY <2>2
    <2>4. i # 0
      <3>1. Parts(E, 0) = {}
        BY DEF Parts
      <3>2. B \cup Parts(E, 0) = B
        BY <3>1
      <3>3. MergeTables(others) \in m[0]
        BY <1>2
      <3>4. Resolves(MergeTables(others), B \cup Parts(E, 0))
        BY <3>2
      <3> QED
        BY <3>3, <3>4, <2>3 DEF Reached
    <2>5. PICK j \in 0 .. n : j = i - 1 /\ ~(i =< j) /\ i \in 1 .. n /\ i = j + 1
      BY <2>3, <2>4
    <2>6. PICK t \in m[j] : Resolves(t, B \cup Parts(E, j))
      <3>1. Reached(m[j], B \cup Parts(E, j))
        BY <2>2, <2>5
      <3> QED
        BY <3>1 DEF Reached
    <2>7. Parts(E, i) = Parts(E, j) \cup E[i] /\ Parts(E, i) \subseteq Parts(E, n)
      <3>1. 1 .. i = (1 .. j) \cup {i} /\ 1 .. i \subseteq 1 .. n
        BY <2>5
      <3> QED
        BY <3>1 DEF Parts
    <2>8. PICK F : F = B \cup Parts(E, j)
      OBVIOUS
    <2>9. B \cup Parts(E, i) = F \cup E[i]
      BY <2>7, <2>8
    <2>10. \A e \in F \cup E[i] : e \in Record /\ 0 < e.seq
      BY <2>7, <2>8
    <2>11. Resolves(p[i], E[i]) /\ p[i] \in Store!Passes(ts[i])
      BY <2>5
    <2>12. Resolves(MergeTables({t, p[i]}), F \cup E[i])
      BY <2>6, <2>8, <2>10, <2>11, MergeResolves
    <2>13. MergeTables({t, p[i]}) \in m[i]
      <3>1. PICK u : u = Store!MergeTables({t, p[i]})
        OBVIOUS
      <3>2. u \in Extended(m[j], Store!Passes(ts[i]))
        BY <3>1, <2>6, <2>11, ExtendedHas
      <3>3. m[i] = Extended(m[j], Store!Passes(ts[i]))
        BY <2>3, <2>4, <2>5, <1>2
      <3>4. u = MergeTables({t, p[i]})
        BY <3>1, StoreFunctions
      <3> QED
        BY <3>2, <3>3, <3>4
    <2> QED
      BY <2>3, <2>9, <2>12, <2>13 DEF Reached
  <1>4. n \in 0 .. n /\ n \notin Bad
    <2>1. n \in 0 .. n
      OBVIOUS
    <2> HIDE DEF Bad
    <2> QED
      BY <2>1, <1>3
  <1> QED
    BY <1>1, <1>4

\* A table read from end to end, or up to a block that cannot be read.
LEMMA PassIs ==
    ASSUME NEW t, TableSound(t), NEW tab, tab.data = t.data, tab.sound = (t.bad = {})
    PROVE  TableOfEntries(ScanOf(t)) \in Store!Passes(tab)
  <1>1. PICK es \in Seq(Entry) : FileOf(t.file, es)
    BY DEF TableSound
  <1>2. t.bad \in SUBSET (1 .. Len(t.file.blocks)) /\ t.data = TableOfEntries(Scan(t.file, {}))
    BY DEF TableSound
  <1>3. PICK m \in 0 .. Len(es) : Scan(t.file, t.bad) = SubSeq(es, 1, m)
    BY <1>1, <1>2, ScanIs
  <1>4. Scan(t.file, {}) = es /\ es \in Seq(Record) /\ Ascending(es)
    BY <1>1, ScanIs, EntriesAre DEF FileOf
  <1>5. PICK n \in Nat : n = Len(es) /\ m \in 0 .. n /\ DOMAIN es = 1 .. n
    BY <1>4
  <1>6. PICK s : s = SubSeq(es, 1, m)
    OBVIOUS
  <1>7. /\ s \in Seq(Record) /\ Len(s) = m
        /\ \A i \in 1 .. m : i \in 1 .. n /\ s[i] = es[i]
    BY <1>4, <1>5, <1>6
  <1>8. ScanOf(t) = s
    BY <1>3, <1>6 DEF ScanOf
  <1>9. CASE m = n \/ t.bad = {}
    <2>1. s = es
      <3>1. CASE t.bad = {}
        BY <3>1, <1>3, <1>4, <1>6
      <3>2. CASE m = n
        BY <3>2, <1>4, <1>5, <1>6
      <3> QED
        BY <3>1, <3>2, <1>9
    <2>2. TableOfEntries(ScanOf(t)) = tab.data
      BY <2>1, <1>2, <1>4, <1>8
    <2> QED
      BY <2>2 DEF Store!Passes
  <1>10. CASE m # n /\ t.bad # {}
    <2>1. PICK next \in 1 .. n : next = m + 1
      BY <1>5, <1>10
    <2>2. PICK end : end = es[next].key
      OBVIOUS
    <2>3. end \in Keys
      BY <2>1, <2>2, <1>4, <1>5, RecordsAre
    <2>4. Ascending(s)
      BY <1>8, ScanOfIs
    <2>5. PICK T : T = TableOfEntries(es) /\ LooksUp(T, es)
      BY <1>4, TableOfEntriesLooksUp
    <2>6. PICK P : P = TableOfEntries(s) /\ LooksUp(P, s)
      BY <1>7, <2>4, TableOfEntriesLooksUp
    <2>7. \A i, j \in 1 .. n : i < j => KeyLess(es[i].key, es[j].key)
      BY <1>4, <1>5, AscendingFar
    <2>8. \A i \in 1 .. n : es[i].key \in Key
      BY <1>4, <1>5, RecordsAre
    <2>9. \A i \in 1 .. m : KeyLess(es[i].key, end)
      <3> TAKE i \in 1 .. m
      <3>1. i \in 1 .. n /\ i < next
        BY <2>1, <1>7
      <3> QED
        BY <3>1, <2>1, <2>2, <2>7
    <2>10. \A i \in 1 .. n : KeyLess(es[i].key, end) => i \in 1 .. m
      <3> SUFFICES ASSUME NEW i \in 1 .. n, KeyLess(es[i].key, end), i \notin 1 .. m PROVE FALSE
        OBVIOUS
      <3>1. i = next \/ next < i
        BY <2>1, <1>5
      <3>2. CASE i = next
        BY <3>2, <2>2, <2>8, KeyLessIrreflexive
      <3>3. CASE next < i
        <4>1. KeyLess(end, es[i].key)
          BY <3>3, <2>1, <2>2, <2>7
        <4>2. end \in Key /\ es[i].key \in Key
          BY <2>1, <2>2, <2>8
        <4> QED
          BY <4>1, <4>2, KeyLessTransitive, KeyLessIrreflexive
      <3> QED
        BY <3>1, <3>2, <3>3
    <2>11. ASSUME NEW k \in Keys
           PROVE  P[k] = IF KeyLess(k, end) THEN T[k] ELSE NoVersion
      <3>1. CASE \E i \in 1 .. m : s[i].key = k
        <4>1. PICK i \in 1 .. m : s[i].key = k
          BY <3>1
        <4>2. i \in 1 .. n /\ es[i] = s[i] /\ KeyLess(k, end)
          BY <4>1, <1>7, <2>9
        <4>3. P[k] = VersionOf(s[i])
          BY <4>1, <2>6, <1>7 DEF LooksUp
        <4>4. T[k] = VersionOf(es[i])
          BY <4>1, <4>2, <2>5, <1>5 DEF LooksUp
        <4> QED
          BY <4>2, <4>3, <4>4
      <3>2. CASE \A i \in 1 .. m : s[i].key # k
        <4>1. P[k] = NoVersion
          BY <3>2, <2>6, <1>7 DEF LooksUp
        <4>2. ASSUME KeyLess(k, end) PROVE T[k] = NoVersion
          <5>1. \A i \in 1 .. n : es[i].key # k
            BY <4>2, <3>2, <2>10, <1>7
          <5> QED
            BY <5>1, <2>5, <1>5 DEF LooksUp
        <4> QED
          BY <4>1, <4>2
      <3> QED
        BY <3>1, <3>2
    <2>12. P = [k \in Keys |-> IF KeyLess(k, end) THEN T[k] ELSE NoVersion]
      <3>1. P = [k \in Keys |-> P[k]]
        BY <2>6 DEF LooksUp
      <3> QED
        BY <3>1, <2>11
    <2>13. T = tab.data /\ tab.sound = FALSE
      BY <2>5, <1>2, <1>4, <1>10
    <2>14. P = [k \in Keys |-> IF Store!KeyLess(k, end) THEN tab.data[k] ELSE Store!NoVersion]
      BY <2>12, <2>13, StoreFunctions
    <2>15. P \in Store!Passes(tab)
      BY <2>3, <2>13, <2>14 DEF Store!Passes
    <2> QED
      BY <2>6, <2>15, <1>8
  <1> QED
    BY <1>9, <1>10
-----------------------------------------------------------------------------
(* The tables as TableStore has them.                                        *)

Tab(t)     == [level |-> t.level, data |-> t.data, sound |-> t.bad = {}]
TabsOf(ts) == [i \in DOMAIN ts |-> Tab(ts[i])]

\* What TSCompact says of the tables before and after.
RestOf(old, S) == [i \in 1 .. Store!Cardinality(S) |-> old[Store!InOrder(S, <)[i]]]

CompactedAt(old, new, idxs) ==
    /\ Store!Cardinality(idxs) = Len(old) - Len(new) + 1
    /\ Store!Front(new) = RestOf(old, DOMAIN old \ idxs)
    /\ Store!Last(new).level = 1 /\ Store!Last(new).sound
    /\ Store!Last(new).data \in Store!MergedWith({}, RestOf(old, idxs))

CompactsTo(old, new) ==
    /\ Len(new) < Len(old)
    /\ \E idxs \in SUBSET DOMAIN old : CompactedAt(old, new, idxs)

\* What the iterator shows, and where it is.
ShownOf(items) ==
    [k \in Keys |-> LET n == SelectInSeq(items, LAMBDA x : x.key = k)
                   IN  IF n = 0 THEN Tombstone ELSE items[n].val]
AtOf(it) == IF it.idx = 0 THEN NoKey ELSE it.items[it.idx].key

LEMMA KeptIs ==
    ASSUME UNCHANGED iter
    PROVE  Store!Kept
  <1>1. ShownOf(iter.items)' = ShownOf(iter.items)
    OBVIOUS
  <1>2. AtOf(iter)' = AtOf(iter)
    OBVIOUS
  <1> QED
    BY <1>1, <1>2 DEF Store!Kept, ShownOf, AtOf

LEMMA CompactsToIs ==
    ASSUME CompactsTo(TabsOf(tables), TabsOf(tables)'),
           UNCHANGED <<list, frames, nextSeq, iter>>
    PROVE  Store!TSCompact
  <1>1. Store!Kept /\ UNCHANGED <<nextSeq, frames, ListTable>>
    BY KeptIs DEF ListTable
  <1> QED
    BY <1>1 DEF Store!TSCompact, CompactsTo, CompactedAt, RestOf, TabsOf, Tab

LEMMA StoreSequences ==
    /\ \A S : Store!Cardinality(S) = Cardinality(S)
    /\ \A S : Store!InOrder(S, <) = InOrder(S, <)
    /\ \A s : Store!Front(s) = Front(s) /\ Store!Last(s) = Last(s)
  <1>1. \A S : Store!Cardinality(S) = Cardinality(S)
    BY DEF Store!Cardinality, Cardinality
  <1>2. \A S : Store!InOrder(S, <) = InOrder(S, <)
    BY DEF Store!InOrder, InOrder, Store!Cardinality, Cardinality
  <1>3. \A s : Store!Front(s) = Front(s) /\ Store!Last(s) = Last(s)
    BY DEF Store!Front, Front, Store!Last, Last
  <1> QED
    BY <1>1, <1>2, <1>3
\* All that is ever merged or gathered has numbers of its own.
LEMMA DeliveredApart ==
    ASSUME StoreInv, NEW idxs \in SUBSET DOMAIN tables
    PROVE  Apart(Delivered(idxs)) /\ Delivered(idxs) \subseteq Stored
  <1>1. TablesGood /\ Stored \in SUBSET Record
    BY StoreTypes
  <1>2. Delivered(idxs) \subseteq Stored
    <2>1. \A i \in DOMAIN tables : ToSet(ScanOf(tables[i])) \subseteq EntriesOf(tables[i])
      BY <1>1, ScanOfStored DEF TablesGood
    <2> QED
      BY <2>1 DEF Delivered, Stored, StoredIn
  <1>3. (\A e, d \in Stored : e.seq = d.seq => e = d) /\ \A e \in Stored : 0 < e.seq
    BY StoreTypes DEF Foremost
  <1> QED
    BY <1>1, <1>2, <1>3 DEF Apart

LEMMA GatheredApart ==
    ASSUME StoreInv
    PROVE  Apart(Gathered) /\ Apart(Listed)
  <1>1. Gathered \in SUBSET Entry /\ Entry \in SUBSET Record /\ \A e, d \in Gathered : e.seq = d.seq => e = d
    BY GatheredAre, EntriesAre
  <1>2. \A e \in Entry : 0 < e.seq
    BY DataPathAssumption DEF Entry
  <1>3. Listed \subseteq Gathered
    BY DEF Gathered
  <1> QED
    BY <1>1, <1>2, <1>3 DEF Apart

\* Some of the tables, in the order of places, and other data merged.
LEMMA TablesMerge ==
    ASSUME StoreInv, NEW others, NEW B, Resolves(MergeTables(others), B),
           \A e \in B : e \in Record /\ 0 < e.seq,
           NEW n \in Nat, NEW idxs \in SUBSET DOMAIN tables, NEW places \in [1 .. n -> idxs],
           \A x \in idxs : \E i \in 1 .. n : places[i] = x,
           NEW ts, ts = [i \in 1 .. n |-> Tab(tables[places[i]])]
    PROVE  Reached(Store!MergedWith(others, ts), B \cup Delivered(idxs))
  <1>1. \A i \in 1 .. n : places[i] \in idxs /\ places[i] \in DOMAIN tables /\ TableSound(tables[places[i]])
    BY StoreTypes DEF TablesGood
  <1>2. PICK p : p = [i \in 1 .. n |-> TableOfEntries(ScanOf(tables[places[i]]))]
    OBVIOUS
  <1>3. PICK E : E = [i \in 1 .. n |-> ToSet(ScanOf(tables[places[i]]))]
    OBVIOUS
  <1>4. ASSUME NEW i \in 1 .. n PROVE p[i] \in Store!Passes(ts[i]) /\ Resolves(p[i], E[i])
    <2>1. PICK t : t = tables[places[i]] /\ TableSound(t)
      BY <1>1
    <2>2. PICK tab : tab = Tab(t)
      OBVIOUS
    <2>3. tab.data = t.data /\ tab.sound = (t.bad = {})
      BY <2>2 DEF Tab
    <2>4. TableOfEntries(ScanOf(t)) \in Store!Passes(tab)
      BY <2>1, <2>3, PassIs
    <2>5. PICK s : s = ScanOf(t) /\ s \in Seq(Record) /\ Ascending(s)
      BY <2>1, ScanOfIs, EntriesAre
    <2>6. Resolves(TableOfEntries(s), ToSet(s))
      BY <2>5, TableOfEntriesIs
    <2>7. p[i] = TableOfEntries(s) /\ E[i] = ToSet(s) /\ ts[i] = tab
      BY <2>1, <2>2, <2>5, <1>2, <1>3
    <2> QED
      BY <2>4, <2>5, <2>6, <2>7
  <1>5. Parts(E, n) = Delivered(idxs)
    <2>1. \A i \in 1 .. n : E[i] = ToSet(ScanOf(tables[places[i]]))
      BY <1>3
    <2>2. PICK D : D = [x \in idxs |-> ToSet(ScanOf(tables[x]))]
      OBVIOUS
    <2>3. \A i \in 1 .. n : E[i] = D[places[i]] /\ places[i] \in idxs
      BY <2>1, <2>2, <1>1
    <2>4. UNION {E[i] : i \in 1 .. n} = UNION {D[x] : x \in idxs}
      <3>1. ASSUME NEW e, \E i \in 1 .. n : e \in E[i] PROVE \E x \in idxs : e \in D[x]
        BY <3>1, <2>3
      <3>2. ASSUME NEW e, \E x \in idxs : e \in D[x] PROVE \E i \in 1 .. n : e \in E[i]
        BY <3>2, <2>3
      <3> QED
        BY <3>1, <3>2
    <2>5. Delivered(idxs) = UNION {D[x] : x \in idxs}
      BY <2>2 DEF Delivered
    <2> QED
      BY <2>4, <2>5 DEF Parts
  <1>6. \A e \in B \cup Parts(E, n) : e \in Record /\ 0 < e.seq
    BY <1>5, DeliveredApart DEF Apart
  <1>7. n = Len(ts)
    OBVIOUS
  <1>8. \A i \in 1 .. n : p[i] \in Store!Passes(ts[i]) /\ Resolves(p[i], E[i])
    BY <1>4
  <1>9. Reached(Store!MergedWith(others, ts), B \cup Parts(E, n))
    BY <1>6, <1>7, <1>8, MergedResolves
  <1> QED
    BY <1>5, <1>9

LEMMA MergeNothing == MergeTables({}) = EmptyTable
  <1>1. Newest({}) = NoVersion
    BY DEF Newest
  <1>2. \A k \in Keys : {t[k] : t \in {}} = {}
    OBVIOUS
  <1> QED
    BY <1>1, <1>2 DEF MergeTables, EmptyTable

\* Compaction: the two or more tables that are merged become one.
LEMMA CompactIsTSCompact ==
    ASSUME StoreInv, Compact
    PROVE  Store!TSCompact
  <1>1. PICK merged, kept, file, es : Merges(merged, kept, file, es)
    BY StoreTypes, CompactIs
  <1>2. file.ok /\ FileOf(file, es) /\ es \in Seq(Entry)
    BY <1>1, OpenedSound DEF Merges
  <1>3. PICK n \in Nat : n = Len(tables) /\ DOMAIN tables = 1 .. n
    <2>1. PICK S : tables \in Seq(S)
      BY StoreTypes DEF TablesGood
    <2> QED
      BY <2>1
  <1>4. PICK others : others = (1 .. n) \ merged
    OBVIOUS
  <1>5. merged \in SUBSET (1 .. n) /\ kept = InOrder(others, <) /\ Lists(kept, others, NumberLess(others))
    BY <1>1, <1>3, <1>4 DEF Merges
  <1>6. /\ merged \in SUBSET Nat /\ IsFiniteSet(merged) /\ IsFiniteSet(others)
        /\ Cardinality(1 .. n) = n /\ others \in SUBSET (1 .. n)
    <2>1. IsFiniteSet(1 .. n) /\ others \in SUBSET (1 .. n) /\ Cardinality(1 .. n) = n
      BY <1>4, FS_Interval
    <2>2. IsFiniteSet(merged) /\ IsFiniteSet(others)
      BY <2>1, <1>5, FS_Subset
    <2>3. \A s \in SUBSET (1 .. n) : s \in SUBSET Nat
      OBVIOUS
    <2> QED
      BY <2>1, <2>2, <2>3, <1>5
  <1>7. PICK m \in Nat : m = Cardinality(merged)
    BY <1>6, FS_CardinalityType
  <1>8. PICK c \in Nat : c = Cardinality(others)
    BY <1>6, FS_CardinalityType
  <1>9. c = n - m /\ m >= 2
    <2>1. m >= 2
      BY <1>1, <1>7 DEF Merges
    <2>2. IsFiniteSet(1 .. n) /\ (1 .. n) \cap merged = merged
      <3>1. IsFiniteSet(1 .. n)
        BY <1>3, FS_Interval
      <3> QED
        BY <3>1, <1>5
    <2>3. Cardinality((1 .. n) \ merged) = Cardinality(1 .. n) - Cardinality((1 .. n) \cap merged)
      BY <2>2, <1>6, FS_Difference
    <2> QED
      BY <2>1, <2>2, <2>3, <1>3, <1>4, <1>6, <1>7, <1>8
  <1>10. PICK rest : rest = [i \in DOMAIN kept |-> tables[kept[i]]]
    OBVIOUS
  <1>11. kept \in [1 .. c -> others]
    BY <1>5, <1>8 DEF Lists
  <1>12. rest = [i \in 1 .. c |-> tables[kept[i]]] /\ Len(rest) = c
    BY <1>10, <1>11
  <1>13. PICK last : last = Opened(1, file)
    OBVIOUS
  <1>14. tables' = Append(rest, last)
    BY <1>1, <1>2, <1>10, <1>13 DEF Merges
  <1>15. PICK old : old = TabsOf(tables)
    OBVIOUS
  <1>16. PICK new : new = TabsOf(tables)'
    OBVIOUS
  <1>17. DOMAIN old = 1 .. n /\ Len(old) = n /\ \A i \in 1 .. n : old[i] = Tab(tables[i])
    BY <1>3, <1>15 DEF TabsOf
  <1>18. /\ DOMAIN new = 1 .. c + 1 /\ Len(new) = c + 1 /\ new[c + 1] = Tab(last)
         /\ \A i \in 1 .. c : new[i] = Tab(tables[kept[i]])
    <2>1. PICK S : rest \in Seq(S)
      <3>1. TablesGood
        BY StoreTypes
      <3> QED
        BY <3>1, <1>1, <1>10, KeptAre
    <2>2. DOMAIN Append(rest, last) = 1 .. c + 1
      BY <2>1, <1>12
    <2>3. Append(rest, last)[c + 1] = last /\ \A i \in 1 .. c : Append(rest, last)[i] = rest[i]
      BY <2>1, <1>12
    <2>4. \A i \in 1 .. c : rest[i] = tables[kept[i]]
      BY <1>12
    <2>5. new = [i \in 1 .. c + 1 |-> Tab(tables'[i])]
      BY <2>2, <1>14, <1>16 DEF TabsOf
    <2>6. c + 1 \in 1 .. c + 1 /\ \A i \in 1 .. c : i \in 1 .. c + 1
      BY <1>8
    <2>7. tables'[c + 1] = last /\ \A i \in 1 .. c : tables'[i] = tables[kept[i]]
      BY <2>3, <2>4, <1>14
    <2>8. \A i \in 1 .. c + 1 : new[i] = Tab(tables'[i])
      BY <2>5
    <2>9. DOMAIN new = 1 .. c + 1 /\ Len(new) = c + 1
      BY <2>5, <1>8
    <2> QED
      BY <2>6, <2>7, <2>8, <2>9
  <1>19. Front(new) = RestOf(old, others)
    <2>1. Front(new) = [i \in 1 .. c |-> new[i]]
      <3>1. new = [i \in 1 .. c + 1 |-> new[i]]
        BY <1>3, <1>14, <1>16, <1>18 DEF TabsOf
      <3>2. Front(new) = SubSeq(new, 1, c)
        BY <1>8, <1>18 DEF Front
      <3>3. PICK S : S = {new[i] : i \in 1 .. c + 1}
        OBVIOUS
      <3>4. new \in Seq(S)
        BY <3>1, <3>3, <1>8
      <3> QED
        BY <3>2, <3>4, <1>8, <1>18
    <2>2. RestOf(old, others) = [i \in 1 .. c |-> old[kept[i]]]
      BY <1>5, <1>8, StoreSequences DEF RestOf
    <2>3. \A i \in 1 .. c : old[kept[i]] = Tab(tables[kept[i]])
      BY <1>6, <1>11, <1>17
    <2> QED
      BY <2>1, <2>2, <2>3, <1>18
  <1>20. Last(new) = Tab(last)
    BY <1>18 DEF Last
  <1>21. PICK data : data = TableOfEntries(es)
    OBVIOUS
  <1>22. Tab(last).level = 1 /\ Tab(last).sound /\ Tab(last).data = data
    <2>1. Scan(file, {}) = es
      BY <1>2, ScanIs
    <2> QED
      BY <2>1, <1>13, <1>21 DEF Tab, Opened
  <1>23. PICK inputs : inputs = InOrder(merged, <)
    OBVIOUS
  <1>24. inputs \in [1 .. m -> merged] /\ \A x \in merged : \E i \in 1 .. m : inputs[i] = x
    BY <1>6, <1>7, <1>23, NumbersInOrder DEF Lists
  <1>25. PICK ts : ts = RestOf(old, merged)
    OBVIOUS
  <1>26. ts = [i \in 1 .. m |-> Tab(tables[inputs[i]])]
    <2>1. ts = [i \in 1 .. m |-> old[inputs[i]]]
      BY <1>7, <1>23, <1>25, StoreSequences DEF RestOf
    <2>2. \A i \in 1 .. m : old[inputs[i]] = Tab(tables[inputs[i]])
      BY <1>5, <1>17, <1>24
    <2> QED
      BY <2>1, <2>2
  <1>27. PICK D : D = Delivered(merged)
    OBVIOUS
  <1>28. Apart(D)
    BY <1>3, <1>5, <1>27, DeliveredApart
  <1>29. Reached(Store!MergedWith({}, ts), D)
    <2>1. Resolves(MergeTables({}), {})
      <3>1. MergeTables({}) = EmptyTable
        BY MergeNothing
      <3> QED
        BY <3>1, NothingResolves
    <2>2. Reached(Store!MergedWith({}, ts), {} \cup Delivered(merged))
      BY <2>1, <1>3, <1>5, <1>24, <1>26, TablesMerge
    <2> QED
      BY <2>2, <1>27
  <1>30. Resolves(data, D)
    <2>1. es \in Seq(Record) /\ Ascending(es) /\ ToSet(es) \in SUBSET D
      BY <1>1, <1>2, <1>27, EntriesAre DEF FileOf, Merges
    <2>2. \A d \in D : \E e \in ToSet(es) : e.key = d.key /\ d.seq =< e.seq
      <3> TAKE d \in D
      <3>1. PICK x \in ToSet(es) : x.key = d.key /\ x.seq >= d.seq
        BY <1>1, <1>27 DEF Merges, Outdone
      <3>2. x.seq \in Nat /\ d.seq \in Nat
        BY <2>1, <1>28 DEF Apart, Record
      <3> QED
        BY <3>1, <3>2
    <2>3. Resolves(data, ToSet(es))
      BY <2>1, <1>21, TableOfEntriesIs
    <2>4. \A d \in D : d \in Record
      BY <1>28 DEF Apart
    <2> QED
      BY <2>1, <2>2, <2>3, <2>4, ResolvesMore
  <1>31. data \in Store!MergedWith({}, ts)
    <2>1. PICK t \in Store!MergedWith({}, ts) : Resolves(t, D)
      BY <1>29 DEF Reached
    <2>2. t = data
      BY <2>1, <1>28, <1>30, ResolvesOnce
    <2> QED
      BY <2>1, <2>2
  <1>32. CompactedAt(old, new, merged)
    <2>1. Store!Cardinality(merged) = Len(old) - Len(new) + 1
      <3>1. n \in Nat /\ m \in Nat /\ c \in Nat
        BY <1>3, <1>7, <1>8
      <3>2. n - (c + 1) + 1 = m
        BY <3>1, <1>9
      <3> QED
        BY <3>2, <1>7, <1>17, <1>18, StoreSequences
    <2>2. Store!Front(new) = RestOf(old, DOMAIN old \ merged)
      BY <1>4, <1>17, <1>19, StoreSequences
    <2>3. Store!Last(new) = Tab(last)
      BY <1>20, StoreSequences
    <2> QED
      BY <2>1, <2>2, <2>3, <1>22, <1>25, <1>31 DEF CompactedAt
  <1>33. CompactsTo(old, new)
    <2>1. Len(new) < Len(old) /\ merged \in SUBSET DOMAIN old
      <3>1. n \in Nat /\ m \in Nat /\ c \in Nat
        BY <1>3, <1>7, <1>8
      <3>2. c + 1 < n
        BY <3>1, <1>9
      <3> QED
        BY <3>2, <1>5, <1>17, <1>18
    <2> QED
      BY <2>1, <1>32 DEF CompactsTo
  <1>34. UNCHANGED <<list, frames, nextSeq, iter>>
    BY DEF Compact
  <1> QED
    BY <1>15, <1>16, <1>33, <1>34, CompactsToIs
-----------------------------------------------------------------------------
(* The iterator as TableStore has it.                                        *)

\* The key of the item p, NoKey for no item.
PlaceAt(items, p) == IF p = 0 THEN NoKey ELSE items[p].key

\* The keys of the items from p on.
KeysFrom(items, p) == {items[i].key : i \in p .. Len(items)}

\* What is shown.
PresentIn(items) == {k \in Keys : ShownOf(items)[k] # Tombstone}

LEMMA ItemsAre ==
    ASSUME NEW items \in Seq(Shown), Climbing(items)
    PROVE  /\ Len(items) \in Nat
           /\ \A i \in 1 .. Len(items) : /\ items[i].key \in Keys /\ items[i].key \in Key
                                         /\ items[i].key # NoKey /\ items[i].val # Tombstone
           /\ \A i, j \in 1 .. Len(items) : i < j => KeyLess(items[i].key, items[j].key)
           /\ \A i, j \in 1 .. Len(items) : items[i].key = items[j].key => i = j
  <1>1. Len(items) \in Nat /\ \A i \in 1 .. Len(items) : items[i] \in Shown
    OBVIOUS
  <1>2. \A i \in 1 .. Len(items) : /\ items[i].key \in Keys /\ items[i].key \in Key
                                   /\ items[i].key # NoKey /\ items[i].val # Tombstone
    BY <1>1, KeysAreKeys DEF Shown
  <1>3. \A i, j \in 1 .. Len(items) : i < j => KeyLess(items[i].key, items[j].key)
    BY DEF Climbing
  <1>4. ASSUME NEW i \in 1 .. Len(items), NEW j \in 1 .. Len(items), items[i].key = items[j].key
        PROVE  i = j
    <2> SUFFICES ASSUME i # j PROVE FALSE
      OBVIOUS
    <2>1. i < j \/ j < i
      BY <1>1
    <2>2. KeyLess(items[i].key, items[i].key)
      BY <2>1, <1>3, <1>4
    <2> QED
      BY <2>2, <1>2, KeyLessIrreflexive
  <1> QED
    BY <1>1, <1>2, <1>3, <1>4

LEMMA ShownAt ==
    ASSUME NEW items \in Seq(Shown), Climbing(items), NEW k \in Keys
    PROVE  /\ \A i \in 1 .. Len(items) : items[i].key = k => ShownOf(items)[k] = items[i].val
           /\ (\A i \in 1 .. Len(items) : items[i].key # k) => ShownOf(items)[k] = Tombstone
  <1> DEFINE I == {i \in 1 .. Len(items) : items[i].key = k}
  <1>1. PICK p : p = SelectInSeq(items, LAMBDA x : x.key = k)
    OBVIOUS
  <1>2. p = IF I # {} THEN Min(I) ELSE 0
    BY <1>1 DEF SelectInSeq
  <1>3. I \in SUBSET Nat /\ \A i \in I : i \in 1 .. Len(items) /\ items[i].key = k
    OBVIOUS
  <1>4. \A i \in 1 .. Len(items) : i \notin I => items[i].key # k
    OBVIOUS
  <1>5. ShownOf(items)[k] = IF p = 0 THEN Tombstone ELSE items[p].val
    BY <1>1 DEF ShownOf
  <1> HIDE DEF I
  <1>6. (I = {} => p = 0) /\ (I # {} => p \in I)
    BY <1>2, <1>3, LeastOrZero
  <1>7. ASSUME NEW i \in 1 .. Len(items), items[i].key = k PROVE ShownOf(items)[k] = items[i].val
    <2>1. i \in I
      BY <1>4, <1>7
    <2>2. p \in I
      BY <2>1, <1>6
    <2>3. p \in 1 .. Len(items) /\ items[p].key = k
      BY <2>2, <1>3
    <2>4. p = i /\ p # 0
      BY <2>3, <1>7, ItemsAre
    <2> QED
      BY <2>4, <1>5
  <1>8. ASSUME \A i \in 1 .. Len(items) : items[i].key # k PROVE ShownOf(items)[k] = Tombstone
    <2>1. I = {}
      BY <1>3, <1>8
    <2> QED
      BY <2>1, <1>5, <1>6
  <1> QED
    BY <1>7, <1>8

LEMMA PresentIs ==
    ASSUME NEW items \in Seq(Shown), Climbing(items)
    PROVE  PresentIn(items) = KeysFrom(items, 1)
  <1>1. \A i \in 1 .. Len(items) : items[i].key \in PresentIn(items)
    BY ItemsAre, ShownAt DEF PresentIn
  <1>2. \A k \in PresentIn(items) : \E i \in 1 .. Len(items) : items[i].key = k
    BY ShownAt DEF PresentIn
  <1> QED
    BY <1>1, <1>2 DEF KeysFrom

\* Seek and Next are given the least of the keys from one on.
LEMMA LeastFrom ==
    ASSUME NEW items \in Seq(Shown), Climbing(items), NEW p \in 1 .. Len(items) + 1,
           NEW q, q = IF p > Len(items) THEN 0 ELSE p
    PROVE  Store!Least(KeysFrom(items, p)) = PlaceAt(items, q)
  <1>1. Len(items) \in Nat
    OBVIOUS
  <1>2. PICK ks : ks = KeysFrom(items, p)
    OBVIOUS
  <1>3. CASE p > Len(items)
    <2>1. p .. Len(items) = {} /\ q = 0
      BY <1>1, <1>3
    <2>2. ks = {}
      BY <2>1, <1>2 DEF KeysFrom
    <2>3. Store!Least(ks) = Store!NoKey
      BY <2>2 DEF Store!Least
    <2> QED
      BY <2>1, <2>3, <1>2, StoreFunctions DEF PlaceAt
  <1>4. CASE ~(p > Len(items))
    <2>1. p \in 1 .. Len(items) /\ p \in p .. Len(items) /\ q = p /\ q # 0
      BY <1>1, <1>4
    <2>2. PICK k : k = items[p].key
      OBVIOUS
    <2>3. \A i \in p .. Len(items) : i \in 1 .. Len(items) /\ (i = p \/ p < i)
      BY <1>1
    <2>4. k \in ks /\ \A j \in ks : j \in Key /\ (j = k \/ KeyLess(k, j))
      <3>1. \A i \in p .. Len(items) : items[i].key \in Key /\ (items[i].key = k \/ KeyLess(k, items[i].key))
        BY <2>1, <2>2, <2>3, ItemsAre
      <3> QED
        BY <3>1, <2>1, <2>2, <1>2 DEF KeysFrom
    <2>5. ks # {} /\ \A j \in ks \ {k} : Store!KeyLess(k, j)
      BY <2>4, StoreFunctions
    <2>6. ASSUME NEW x \in ks, \A j \in ks \ {x} : Store!KeyLess(x, j) PROVE x = k
      <3> SUFFICES ASSUME x # k PROVE FALSE
        OBVIOUS
      <3>1. KeyLess(x, k) /\ KeyLess(k, x) /\ x \in Key /\ k \in Key
        BY <2>4, <2>6, StoreFunctions
      <3> QED
        BY <3>1, KeyLessTransitive, KeyLessIrreflexive
    <2>7. Store!Least(ks) = k
      BY <2>4, <2>5, <2>6 DEF Store!Least
    <2> QED
      BY <2>1, <2>2, <2>7, <1>2 DEF PlaceAt
  <1> QED
    BY <1>3, <1>4

\* The keys from the item on that Seek finds.
LEMMA SeekKeys ==
    ASSUME NEW items \in Seq(Shown), Climbing(items), NEW target \in Key,
           NEW q, FirstItem(items, target, q), NEW p, p = IF q = 0 THEN Len(items) + 1 ELSE q
    PROVE  /\ {k \in PresentIn(items) : ~KeyLess(k, target)} = KeysFrom(items, p)
           /\ p \in 1 .. Len(items) + 1 /\ q = IF p > Len(items) THEN 0 ELSE p
  <1>1. Len(items) \in Nat /\ q \in 0 .. Len(items)
    BY DEF FirstItem
  <1>2. p \in 1 .. Len(items) + 1 /\ q = IF p > Len(items) THEN 0 ELSE p
    BY <1>1
  <1>3. ASSUME NEW i \in 1 .. Len(items), ~(p =< i) PROVE KeyLess(items[i].key, target)
    <2>1. q # 0 => i \in 1 .. q - 1
      BY <1>1, <1>3
    <2> QED
      BY <2>1 DEF FirstItem
  <1>4. ASSUME NEW i \in 1 .. Len(items), p =< i PROVE ~KeyLess(items[i].key, target)
    <2>1. q # 0 /\ p = q /\ q \in 1 .. Len(items) /\ (q = i \/ q < i)
      BY <1>1, <1>4
    <2>2. ~KeyLess(items[q].key, target)
      BY <2>1 DEF FirstItem
    <2>3. ASSUME q < i, KeyLess(items[i].key, target) PROVE FALSE
      <3>1. KeyLess(items[q].key, items[i].key) /\ items[q].key \in Key /\ items[i].key \in Key
        BY <2>1, <2>3, ItemsAre
      <3> QED
        BY <3>1, <2>2, <2>3, KeyLessTransitive
    <2> QED
      BY <2>1, <2>2, <2>3
  <1>5. \A i \in p .. Len(items) : i \in 1 .. Len(items) /\ p =< i
    BY <1>1, <1>2
  <1>6. \A i \in 1 .. Len(items) : p =< i => i \in p .. Len(items)
    BY <1>1, <1>2
  <1>7. {k \in KeysFrom(items, 1) : ~KeyLess(k, target)} = KeysFrom(items, p)
    <2>1. \A i \in 1 .. Len(items) : ~KeyLess(items[i].key, target) <=> i \in p .. Len(items)
      BY <1>3, <1>4, <1>5, <1>6
    <2> QED
      BY <2>1, <1>5 DEF KeysFrom
  <1> QED
    BY <1>2, <1>7, PresentIs

\* The keys behind an item.
LEMMA NextKeys ==
    ASSUME NEW items \in Seq(Shown), Climbing(items), NEW q \in 1 .. Len(items)
    PROVE  {k \in PresentIn(items) : KeyLess(items[q].key, k)} = KeysFrom(items, q + 1)
  <1>1. Len(items) \in Nat
    OBVIOUS
  <1>2. \A i \in q + 1 .. Len(items) : i \in 1 .. Len(items) /\ q < i
    BY <1>1
  <1>3. ASSUME NEW i \in 1 .. Len(items), KeyLess(items[q].key, items[i].key) PROVE i \in q + 1 .. Len(items)
    <2> SUFFICES ASSUME i = q \/ i < q PROVE FALSE
      BY <1>1
    <2>1. items[i].key \in Key /\ items[q].key \in Key
      BY ItemsAre
    <2>2. ~KeyLess(items[q].key, items[q].key)
      BY <2>1, KeyLessIrreflexive
    <2>3. CASE i < q
      <3>1. KeyLess(items[i].key, items[q].key)
        BY <2>3, ItemsAre
      <3> QED
        BY <3>1, <2>1, <2>2, <1>3, KeyLessTransitive
    <2> QED
      BY <2>2, <2>3, <1>3
  <1>4. \A i \in q + 1 .. Len(items) : KeyLess(items[q].key, items[i].key)
    BY <1>2, ItemsAre
  <1>5. {k \in KeysFrom(items, 1) : KeyLess(items[q].key, k)} = KeysFrom(items, q + 1)
    BY <1>2, <1>3, <1>4 DEF KeysFrom
  <1> QED
    BY <1>5, PresentIs

\* What the leading entries show is what a reader of the function sees.
LEMMA PresentsShows ==
    ASSUME NEW E, Apart(E), NEW items, Presents(items, E), NEW t, Resolves(t, E)
    PROVE  ShownOf(items) = Visible(t)
  <1>1. items \in Seq(Shown) /\ Climbing(items)
    BY DEF Presents
  <1>2. ASSUME NEW k \in Keys PROVE ShownOf(items)[k] = t[k].val
    <2>1. \/ t[k] = NoVersion /\ \A e \in E : e.key # k
          \/ \E e \in E : Leading(e, E) /\ e.key = k /\ t[k] = VersionOf(e)
      BY DEF Resolves
    <2>2. CASE \E i \in 1 .. Len(items) : items[i].key = k
      <3>1. PICK i \in 1 .. Len(items) : items[i].key = k
        BY <2>2
      <3>2. PICK e \in E : Leading(e, E) /\ items[i].key = e.key /\ items[i].val = e.val
        BY DEF Presents
      <3>3. PICK d \in E : Leading(d, E) /\ d.key = k /\ t[k] = VersionOf(d)
        BY <2>1, <3>1, <3>2
      <3>4. d = e
        BY <3>1, <3>2, <3>3, LeadingOnce
      <3>5. ShownOf(items)[k] = items[i].val
        BY <3>1, <1>1, ShownAt
      <3> QED
        BY <3>2, <3>3, <3>4, <3>5 DEF VersionOf
    <2>3. CASE \A i \in 1 .. Len(items) : items[i].key # k
      <3>1. ShownOf(items)[k] = Tombstone
        BY <2>3, <1>1, ShownAt
      <3>2. ASSUME NEW e \in E, Leading(e, E), e.key = k, t[k] = VersionOf(e) PROVE t[k].val = Tombstone
        <4>1. e.val = Tombstone
          BY <2>3, <3>2 DEF Presents
        <4> QED
          BY <4>1, <3>2 DEF VersionOf
      <3> QED
        BY <3>1, <3>2, <2>1 DEF NoVersion
    <2> QED
      BY <2>2, <2>3
  <1>3. ShownOf(items) = [k \in Keys |-> ShownOf(items)[k]]
    BY DEF ShownOf
  <1> QED
    BY <1>2, <1>3 DEF Visible
-----------------------------------------------------------------------------
(* Every step of DataPath is one of TableStore, or none.                     *)

\* The list amounts to what is listed.
LEMMA ListResolves ==
    ASSUME StoreInv
    PROVE  Resolves(ListTable, Listed) /\ MergeTables({ListTable}) = ListTable
  <1>1. ListInv(list)
    BY StoreTypes
  <1>2. PICK N : N = Nodes(list)
    OBVIOUS
  <1>3. PICK en : en = list.entry
    OBVIOUS
  <1>4. N \subseteq Keys /\ en \in [N -> Version]
    BY <1>1, <1>2, <1>3, TypedIs DEF ListInv
  <1>5. PICK t : t = ListTable
    OBVIOUS
  <1>6. t = [k \in Keys |-> IF k \in N THEN en[k] ELSE NoVersion]
    BY <1>1, <1>2, <1>3, <1>5, ListTableIs DEF MemOf
  <1>7. Listed = {EntryOf(k, en[k]) : k \in N}
    BY <1>2, <1>3 DEF Listed, ListedIn
  <1>8. NoVersion \in Version
    BY DEF NoVersion, Version, Contents
  <1>9. t \in Table
    BY <1>4, <1>6, <1>8 DEF Table
  <1>10. \A k \in N : EntryOf(k, en[k]).key = k /\ EntryOf(k, en[k]).seq = en[k].seq
    BY DEF EntryOf
  <1>11. ASSUME NEW k \in Keys
         PROVE  \/ t[k] = NoVersion /\ \A e \in Listed : e.key # k
                \/ \E e \in Listed : Leading(e, Listed) /\ e.key = k /\ t[k] = VersionOf(e)
    <2>1. CASE k \notin N
      BY <2>1, <1>6, <1>7, <1>10
    <2>2. CASE k \in N
      <3>1. PICK e : e = EntryOf(k, en[k])
        OBVIOUS
      <3>2. e \in Listed /\ e.key = k /\ \A d \in Listed : d.key = k => d = e
        BY <3>1, <2>2, <1>7, <1>10
      <3>3. en[k] \in Version /\ e.seq = en[k].seq /\ e.val = en[k].val
        BY <3>1, <2>2, <1>4 DEF EntryOf
      <3>4. e.seq \in Nat
        BY <3>3 DEF Version
      <3>5. Leading(e, Listed)
        BY <3>2, <3>4 DEF Leading
      <3>6. t[k] = VersionOf(e)
        BY <3>3, <2>2, <1>4, <1>6 DEF VersionOf, Version
      <3> QED
        BY <3>2, <3>5, <3>6
    <2> QED
      BY <2>1, <2>2
  <1>12. MergeTables({t}) = t
    <2>1. ASSUME NEW v \in Version PROVE Newest({v}) = v
      <3>1. v.seq =< v.seq
        BY DEF Version
      <3>2. {u \in {v} : \A w \in {v} : w.seq =< u.seq} = {v}
        BY <3>1
      <3> QED
        BY <3>2 DEF Newest
    <2>2. \A k \in Keys : {x[k] : x \in {t}} = {t[k]} /\ t[k] \in Version
      BY <1>9 DEF Table
    <2>3. \A k \in Keys : Newest({x[k] : x \in {t}}) = t[k]
      BY <2>1, <2>2
    <2>4. MergeTables({t}) = [k \in Keys |-> t[k]]
      BY <2>3 DEF MergeTables
    <2>5. t = [k \in Keys |-> t[k]]
      BY <1>6
    <2> QED
      BY <2>4, <2>5
  <1> QED
    BY <1>5, <1>9, <1>11, <1>12 DEF Resolves

LEMMA NewIteratorTo ==
    ASSUME AtOf(iter)' = NoKey, UNCHANGED <<list, frames, nextSeq, tables>>,
           NEW t \in Store!MergedWith({ListTable}, TabsOf(tables)), ShownOf(iter.items)' = Visible(t)
    PROVE  Store!TSNewIterator
  <1>1. UNCHANGED <<nextSeq, frames, ListTable>> /\ TabsOf(tables)' = TabsOf(tables)
    BY DEF ListTable
  <1>2. Store!Visible(t) = Visible(t) /\ Store!NoKey = NoKey
    BY StoreFunctions
  <1> QED
    BY <1>1, <1>2 DEF Store!TSNewIterator, AtOf, ShownOf, TabsOf, Tab

LEMMA NewIteratorIsTSNewIterator ==
    ASSUME ReadInv, NewIterator
    PROVE  Store!TSNewIterator
  <1>1. StoreInv
    BY DEF ReadInv
  <1>2. iter'.idx = 0 /\ Presents(iter'.items, Gathered)
    BY <1>1, NewIteratorIter
  <1>3. PICK n \in Nat : n = Len(tables) /\ DOMAIN tables = 1 .. n
    <2>1. PICK S : tables \in Seq(S)
      BY <1>1, StoreTypes DEF TablesGood
    <2> QED
      BY <2>1
  <1>4. PICK places : places = [i \in 1 .. n |-> i]
    OBVIOUS
  <1>5. PICK D : D = DOMAIN tables
    OBVIOUS
  <1>6. places \in [1 .. n -> D] /\ \A x \in D : \E i \in 1 .. n : places[i] = x
    BY <1>3, <1>4, <1>5
  <1>7. TabsOf(tables) = [i \in 1 .. n |-> Tab(tables[places[i]])]
    BY <1>3, <1>4 DEF TabsOf
  <1>8. Resolves(MergeTables({ListTable}), Listed)
    BY <1>1, ListResolves
  <1>9. \A e \in Listed : e \in Record /\ 0 < e.seq
    BY <1>1, GatheredApart DEF Apart
  <1>10. Reached(Store!MergedWith({ListTable}, TabsOf(tables)), Listed \cup Delivered(D))
    <2>1. PICK others : others = {ListTable}
      OBVIOUS
    <2>2. PICK ts : ts = TabsOf(tables)
      OBVIOUS
    <2>3. PICK B : B = Listed
      OBVIOUS
    <2>4. D \in SUBSET DOMAIN tables /\ n \in Nat
      BY <1>3, <1>5
    <2>5. Resolves(MergeTables(others), B) /\ \A e \in B : e \in Record /\ 0 < e.seq
      BY <2>1, <2>3, <1>8, <1>9
    <2>6. ts = [i \in 1 .. n |-> Tab(tables[places[i]])]
      BY <2>2, <1>7
    <2>7. Reached(Store!MergedWith(others, ts), B \cup Delivered(D))
      BY <2>4, <2>5, <2>6, <1>1, <1>6, TablesMerge
    <2> QED
      BY <2>1, <2>2, <2>3, <2>7
  <1>11. PICK t \in Store!MergedWith({ListTable}, TabsOf(tables)) : Resolves(t, Gathered)
    BY <1>5, <1>10 DEF Reached, Gathered
  <1>12. ShownOf(iter'.items) = Visible(t)
    BY <1>1, <1>2, <1>11, GatheredApart, PresentsShows
  <1>13. AtOf(iter)' = NoKey /\ ShownOf(iter.items)' = Visible(t)
    BY <1>2, <1>12 DEF AtOf
  <1>14. UNCHANGED <<list, frames, nextSeq, tables>>
    BY DEF NewIterator
  <1> QED
    BY <1>11, <1>13, <1>14, NewIteratorTo

\* What Seek and Next of TableStore say.
Sought(at1) ==
    \/ at1 = Store!Least(PresentIn(iter.items))
    \/ \E target \in Targets : at1 = Store!Least({k \in PresentIn(iter.items) : ~KeyLess(k, target)})

LEMMA SeekTo ==
    ASSUME Sought(AtOf(iter)'), iter'.items = iter.items, UNCHANGED <<list, frames, nextSeq, tables>>
    PROVE  Store!TSSeek
  <1>1. /\ UNCHANGED <<nextSeq, frames, ListTable>> /\ TabsOf(tables)' = TabsOf(tables)
        /\ ShownOf(iter.items)' = ShownOf(iter.items)
    BY DEF ListTable
  <1>2. \A target : {k \in PresentIn(iter.items) : ~KeyLess(k, target)} =
                    {k \in PresentIn(iter.items) : ~Store!KeyLess(k, target)}
    BY StoreFunctions
  <1>3. \/ AtOf(iter)' = Store!Least(PresentIn(iter.items))
        \/ \E target \in Targets :
              AtOf(iter)' = Store!Least({k \in PresentIn(iter.items) : ~Store!KeyLess(k, target)})
    BY <1>2 DEF Sought
  <1> QED
    BY <1>1, <1>3 DEF Store!TSSeek, Store!Present, PresentIn, AtOf, ShownOf, TabsOf, Tab

LEMMA NextTo ==
    ASSUME AtOf(iter) # NoKey,
           AtOf(iter)' = Store!Least({k \in PresentIn(iter.items) : KeyLess(AtOf(iter), k)}),
           iter'.items = iter.items, UNCHANGED <<list, frames, nextSeq, tables>>
    PROVE  Store!TSNext
  <1>1. /\ UNCHANGED <<nextSeq, frames, ListTable>> /\ TabsOf(tables)' = TabsOf(tables)
        /\ ShownOf(iter.items)' = ShownOf(iter.items)
    BY DEF ListTable
  <1>2. {k \in PresentIn(iter.items) : KeyLess(AtOf(iter), k)} =
        {k \in PresentIn(iter.items) : Store!KeyLess(AtOf(iter), k)}
    BY StoreFunctions
  <1>3. /\ AtOf(iter) # Store!NoKey
        /\ AtOf(iter)' = Store!Least({k \in PresentIn(iter.items) : Store!KeyLess(AtOf(iter), k)})
    BY <1>2, StoreFunctions
  <1> QED
    BY <1>1, <1>3 DEF Store!TSNext, Store!Present, PresentIn, AtOf, ShownOf, TabsOf, Tab

LEMMA MovesIs ==
    ASSUME ReadInv, (\E target \in Targets : Seek(target)) \/ SeekToFirst \/ IterNext
    PROVE  Store!TSSeek \/ Store!TSNext
  <1>1. PICK items \in Seq(Shown) : items = iter.items /\ Climbing(items)
    BY DEF ReadInv, IterInv
  <1>2. iter.idx \in 0 .. Len(items) /\ Len(items) \in Nat
    BY <1>1 DEF ReadInv, IterInv
  <1>3. ASSUME NEW idx \in 0 .. Len(items), MoveTo(idx)
        PROVE  /\ iter'.items = items /\ AtOf(iter)' = PlaceAt(items, idx)
               /\ UNCHANGED <<list, frames, nextSeq, tables>>
    <2>1. iter'.items = iter.items /\ iter'.idx = idx
      BY <1>1, <1>3, MoveToIter DEF ReadInv, IterType
    <2>2. UNCHANGED <<list, frames, nextSeq, tables>>
      BY <1>3 DEF MoveTo
    <2> QED
      BY <2>1, <2>2, <1>1 DEF AtOf, PlaceAt
  <1>4. CASE \E target \in Targets : Seek(target)
    <2>1. PICK target \in Targets : Seek(target)
      BY <1>4
    <2>2. PICK q : q = PlaceOf(items, target)
      OBVIOUS
    <2>3. FirstItem(items, target, q) /\ q \in 0 .. Len(items)
      BY <2>2, ItemSelected DEF FirstItem
    <2>4. MoveTo(q)
      BY <2>1, <2>2, <1>1 DEF Seek, PlaceOf
    <2>5. target \in Key
      BY <2>1, KeysAreKeys
    <2>6. PICK p : p = IF q = 0 THEN Len(items) + 1 ELSE q
      OBVIOUS
    <2>7. /\ {k \in PresentIn(items) : ~KeyLess(k, target)} = KeysFrom(items, p)
          /\ p \in 1 .. Len(items) + 1 /\ q = IF p > Len(items) THEN 0 ELSE p
      BY <2>3, <2>5, <2>6, <1>1, SeekKeys
    <2>8. Store!Least(KeysFrom(items, p)) = PlaceAt(items, q)
      BY <2>7, <1>1, LeastFrom
    <2>9. Sought(PlaceAt(items, q))
      BY <2>1, <2>7, <2>8, <1>1 DEF Sought
    <2> QED
      BY <2>3, <2>4, <2>9, <1>1, <1>3, SeekTo
  <1>5. CASE SeekToFirst
    <2>1. PICK q : q = IF items = <<>> THEN 0 ELSE 1
      OBVIOUS
    <2>2. MoveTo(q)
      BY <2>1, <1>1, <1>5 DEF SeekToFirst
    <2>3. q \in 0 .. Len(items) /\ 1 \in 1 .. Len(items) + 1 /\ q = IF 1 > Len(items) THEN 0 ELSE 1
      BY <2>1, <1>2
    <2>4. Store!Least(KeysFrom(items, 1)) = PlaceAt(items, q)
      BY <2>3, <1>1, LeastFrom
    <2>5. Sought(PlaceAt(items, q))
      BY <2>4, <1>1, PresentIs DEF Sought
    <2> QED
      BY <2>2, <2>3, <2>5, <1>1, <1>3, SeekTo
  <1>6. CASE IterNext
    <2>1. PICK d \in 1 .. Len(items) : d = iter.idx
      BY <1>2, <1>6 DEF IterNext
    <2>2. PICK q : q = IF d + 1 > Len(items) THEN 0 ELSE d + 1
      OBVIOUS
    <2>3. MoveTo(q)
      BY <2>1, <2>2, <1>1, <1>6 DEF IterNext
    <2>4. q \in 0 .. Len(items) /\ d + 1 \in 1 .. Len(items) + 1
      BY <2>1, <2>2, <1>2
    <2>5. Store!Least(KeysFrom(items, d + 1)) = PlaceAt(items, q)
      BY <2>2, <2>4, <1>1, LeastFrom
    <2>6. {k \in PresentIn(items) : KeyLess(items[d].key, k)} = KeysFrom(items, d + 1)
      BY <2>1, <1>1, NextKeys
    <2>7. AtOf(iter) = items[d].key /\ AtOf(iter) # NoKey
      BY <2>1, <1>1, ItemsAre DEF AtOf
    <2> QED
      BY <2>3, <2>4, <2>5, <2>6, <2>7, <1>1, <1>3, NextTo
  <1> QED
    BY <1>4, <1>5, <1>6
LEMMA WriteIsTSWrite ==
    ASSUME StoreInv, StoreInv', NEW ops \in Batches, NEW heights \in Heights, Write(ops, heights)
    PROVE  Store!TSWrite
  <1>1. LogInv /\ LogInv'
    BY DEF StoreInv, TablesInv
  <1>2. Store!MemWrite
    BY <1>1, WriteIsMemWrite
  <1>3. UNCHANGED <<tables, iter>>
    BY DEF Write
  <1>4. Store!Kept
    BY <1>3, KeptIs
  <1>5. TabsOf(tables)' = TabsOf(tables)
    BY <1>3
  <1> QED
    BY <1>2, <1>4, <1>5 DEF Store!TSWrite, TabsOf, Tab

LEMMA TabsAppend ==
    ASSUME NEW S, NEW s \in Seq(S), NEW t
    PROVE  TabsOf(Append(s, t)) = Append(TabsOf(s), Tab(t))
  <1>1. PICK n \in Nat : n = Len(s) /\ DOMAIN s = 1 .. n
    OBVIOUS
  <1>2. PICK more : more = Append(s, t)
    OBVIOUS
  <1>3. DOMAIN more = 1 .. n + 1 /\ more[n + 1] = t /\ \A i \in 1 .. n : more[i] = s[i]
    BY <1>1, <1>2
  <1>4. PICK T : T = {Tab(s[i]) : i \in 1 .. n}
    OBVIOUS
  <1>5. PICK tabs : tabs = TabsOf(s)
    OBVIOUS
  <1>6. tabs = [i \in 1 .. n |-> Tab(s[i])]
    BY <1>1, <1>5 DEF TabsOf
  <1>7. tabs \in Seq(T) /\ Len(tabs) = n
    BY <1>4, <1>6, <1>1
  <1>8. Append(tabs, Tab(t)) = [i \in 1 .. n + 1 |-> IF i = n + 1 THEN Tab(t) ELSE tabs[i]]
    <2>1. PICK a : a = Append(tabs, Tab(t))
      OBVIOUS
    <2>2. a \in Seq(T \cup {Tab(t)})
      BY <2>1, <1>7
    <2>3. Len(a) = n + 1 /\ \A i \in 1 .. n + 1 : a[i] = IF i = n + 1 THEN Tab(t) ELSE tabs[i]
      BY <2>1, <1>1, <1>7
    <2>4. a = [i \in 1 .. n + 1 |-> a[i]]
      BY <2>2, <2>3
    <2> QED
      BY <2>1, <2>3, <2>4
  <1>9. TabsOf(more) = [i \in 1 .. n + 1 |-> Tab(more[i])]
    BY <1>3 DEF TabsOf
  <1>10. \A i \in 1 .. n + 1 : Tab(more[i]) = IF i = n + 1 THEN Tab(t) ELSE tabs[i]
    BY <1>1, <1>3, <1>6
  <1> QED
    BY <1>2, <1>5, <1>8, <1>9, <1>10

\* Flush: the file has what the list had.
LEMMA FlushTo ==
    ASSUME UNCHANGED iter, Store!MemFlush,
           TabsOf(tables)' = Append(TabsOf(tables), [level |-> 0, data |-> ListTable, sound |-> TRUE])
    PROVE  Store!TSFlush
  <1>1. Store!Kept
    BY KeptIs
  <1> QED
    BY <1>1 DEF Store!TSFlush, TabsOf, Tab

LEMMA FlushIsTSFlush ==
    ASSUME StoreInv, StoreInv', Flush
    PROVE  Store!TSFlush
  <1>1. PICK file : file = WriteFile(Snapshot(list))
    OBVIOUS
  <1>2. PICK es \in Seq(Entry) : es = Snapshot(list) /\ FileOf(file, es)
    BY <1>1, StoreTypes, FlushedIs
  <1>3. file.ok
    BY <1>2, OpenedSound
  <1>4. /\ tables' = Append(tables, Opened(0, file)) /\ list' = NewList
        /\ frames' = <<>> \/ frames' = frames
        /\ nextSeq' = nextSeq /\ list.size > 0 /\ iter' = iter
    BY <1>1, <1>3 DEF Flush
  <1>5. LogInv /\ LogInv'
    BY DEF StoreInv, TablesInv
  <1>6. Store!MemFlush
    BY <1>4, <1>5, ClearIsMemFlush
  <1>7. TableOfEntries(es) = ListTable
    <2>1. es \in Seq(Record) /\ Ascending(es)
      BY <1>2, EntriesAre DEF FileOf
    <2>2. ToSet(es) = Listed
      BY <1>2, SnapshotListed, StoreTypes DEF Listed
    <2>3. Resolves(TableOfEntries(es), Listed)
      BY <2>1, <2>2, TableOfEntriesIs
    <2> QED
      BY <2>3, ListResolves, GatheredApart, ResolvesOnce
  <1>8. Tab(Opened(0, file)) = [level |-> 0, data |-> ListTable, sound |-> TRUE]
    <2>1. Scan(file, {}) = es
      BY <1>2, ScanIs
    <2> QED
      BY <2>1, <1>7 DEF Tab, Opened
  <1>9. TabsOf(tables') = Append(TabsOf(tables), Tab(Opened(0, file)))
    <2>1. PICK S : tables \in Seq(S)
      BY StoreTypes DEF TablesGood
    <2> QED
      BY <2>1, <1>4, TabsAppend
  <1> QED
    BY <1>4, <1>6, <1>8, <1>9, FlushTo

\* The iterator of a process that ended, or that its caller let go.
LEMMA DroppedIs ==
    ASSUME iter' = NoItems
    PROVE  Store!Dropped
  <1>1. <<>> \in Seq(Shown) /\ Len(<<>>) = 0 /\ 1 .. 0 = {}
    OBVIOUS
  <1>2. Climbing(<<>>)
    BY <1>1 DEF Climbing
  <1>3. \A k \in Keys : ShownOf(<<>>)[k] = Tombstone
    BY <1>1, <1>2, ShownAt
  <1>4. ShownOf(<<>>) = [k \in Keys |-> ShownOf(<<>>)[k]]
    BY DEF ShownOf
  <1>5. ShownOf(<<>>) = Store!Nothing
    BY <1>3, <1>4 DEF Store!Nothing
  <1>6. iter'.items = <<>> /\ iter'.idx = 0
    BY DEF NoItems
  <1>7. ShownOf(iter.items)' = Store!Nothing
    BY <1>5, <1>6
  <1>8. AtOf(iter)' = Store!NoKey
    BY <1>6, StoreFunctions DEF AtOf
  <1> QED
    BY <1>7, <1>8 DEF Store!Dropped, ShownOf, AtOf

LEMMA RestartIsTSRestart ==
    ASSUME StoreInv, StoreInv', NEW heights \in Heights, Restart(heights)
    PROVE  Store!TSRestart
  <1>1. LogInv /\ LogInv'
    BY DEF StoreInv, TablesInv
  <1>2. Store!MemRestart
    BY <1>1, RestartIsMemRestart
  <1>3. tables' = tables /\ iter' = NoItems
    BY DEF Restart
  <1>4. Store!Dropped
    BY <1>3, DroppedIs
  <1>5. TabsOf(tables)' = TabsOf(tables)
    BY <1>3
  <1> QED
    BY <1>2, <1>4, <1>5 DEF Store!TSRestart, TabsOf, Tab

LEMMA ExceptSound ==
    ASSUME NEW l, NEW e, NEW s, NEW v
    PROVE  [[level |-> l, data |-> e, sound |-> s] EXCEPT !.sound = v] = [level |-> l, data |-> e, sound |-> v]
  OBVIOUS

LEMMA DamageTo ==
    ASSUME UNCHANGED <<list, frames, nextSeq, iter>>, NEW d \in DOMAIN TabsOf(tables),
           TabsOf(tables)' = [TabsOf(tables) EXCEPT ![d].sound = FALSE]
    PROVE  Store!TSDamage
  <1>1. Store!Kept /\ UNCHANGED <<nextSeq, frames, ListTable>>
    BY KeptIs DEF ListTable
  <1>2. TabsOf(tables)' \in {[TabsOf(tables) EXCEPT ![i].sound = FALSE] : i \in DOMAIN TabsOf(tables)}
    OBVIOUS
  <1> QED
    BY <1>1, <1>2 DEF Store!TSDamage, TabsOf, Tab

LEMMA DamageIsTSDamage ==
    ASSUME StoreInv, NEW d \in DOMAIN tables, Damage(d)
    PROVE  Store!TSDamage
  <1>1. PICK b : tables' = [tables EXCEPT ![d].bad = @ \cup {b}]
    BY DEF Damage
  <1>2. PICK n \in Nat : DOMAIN tables = 1 .. n
    <2>1. PICK S : tables \in Seq(S)
      BY StoreTypes DEF TablesGood
    <2> QED
      BY <2>1
  <1>3. PICK t : t = [tables[d] EXCEPT !.bad = @ \cup {b}]
    OBVIOUS
  <1>4. tables' = [tables EXCEPT ![d] = t]
    BY <1>1, <1>3
  <1>5. PICK old : old = TabsOf(tables)
    OBVIOUS
  <1>6. old = [i \in 1 .. n |-> Tab(tables[i])]
    BY <1>2, <1>5 DEF TabsOf
  <1>7. Tab(t) = [Tab(tables[d]) EXCEPT !.sound = FALSE]
    <2>1. tables[d] = [level |-> tables[d].level, file |-> tables[d].file,
                       bad |-> tables[d].bad, data |-> tables[d].data]
      BY StoreTypes DEF TablesGood, TableSound
    <2>2. t.level = tables[d].level /\ t.data = tables[d].data /\ b \in t.bad
      BY <2>1, <1>3
    <2>3. (t.bad = {}) = FALSE
      BY <2>2
    <2>4. Tab(t) = [level |-> tables[d].level, data |-> tables[d].data, sound |-> FALSE]
      BY <2>2, <2>3 DEF Tab
    <2>5. PICK s : s = (tables[d].bad = {})
      OBVIOUS
    <2>6. PICK v : v = FALSE
      OBVIOUS
    <2>7. Tab(tables[d]) = [level |-> tables[d].level, data |-> tables[d].data, sound |-> s]
      BY <2>5 DEF Tab
    <2>8. [Tab(tables[d]) EXCEPT !.sound = v] = [level |-> tables[d].level, data |-> tables[d].data, sound |-> v]
      BY <2>7, ExceptSound
    <2> QED
      BY <2>4, <2>6, <2>8
  <1>8. TabsOf(tables)' = [i \in 1 .. n |-> IF i = d THEN Tab(t) ELSE Tab(tables[i])]
    BY <1>2, <1>4 DEF TabsOf
  <1>9. [old EXCEPT ![d].sound = FALSE] = [i \in 1 .. n |-> IF i = d THEN Tab(t) ELSE Tab(tables[i])]
    BY <1>2, <1>6, <1>7
  <1>10. UNCHANGED <<list, frames, nextSeq, iter>> /\ d \in DOMAIN TabsOf(tables)
    BY <1>2, <1>5, <1>6 DEF Damage
  <1> QED
    BY <1>5, <1>8, <1>9, <1>10, DamageTo

LEMMA DropTo ==
    ASSUME iter' = NoItems, UNCHANGED <<list, frames, nextSeq, tables>>
    PROVE  Store!TSDrop
  <1>1. UNCHANGED <<nextSeq, frames, ListTable>> /\ TabsOf(tables)' = TabsOf(tables)
    BY DEF ListTable
  <1> QED
    BY <1>1, DroppedIs DEF Store!TSDrop, TabsOf, Tab

LEMMA StutterTo ==
    ASSUME UNCHANGED <<list, frames, nextSeq, tables, iter>>
    PROVE  UNCHANGED Store!tsVars
  <1>1. UNCHANGED <<nextSeq, frames, ListTable>> /\ TabsOf(tables)' = TabsOf(tables)
    BY DEF ListTable
  <1>2. Store!Kept
    BY KeptIs
  <1> QED
    BY <1>1, <1>2 DEF Store!tsVars, Store!Kept, TabsOf, Tab

LEMMA StoreStepIs == ReadInv /\ ReadInv' /\ [Next]_vars => [Store!TSStep]_(Store!tsVars)
  <1> SUFFICES ASSUME ReadInv, ReadInv', [Next]_vars
               PROVE  \/ Store!TSWrite \/ Store!TSFlush \/ Store!TSRestart \/ Store!TSDamage \/ Store!TSCompact
                      \/ Store!TSSeek \/ Store!TSNext \/ Store!TSDrop \/ Store!TSNewIterator
                      \/ UNCHANGED Store!tsVars
    BY DEF Store!TSStep
  <1>1. StoreInv /\ StoreInv'
    BY DEF ReadInv
  <1>2. CASE \E ops \in Batches, heights \in Heights : Write(ops, heights)
    BY <1>1, <1>2, WriteIsTSWrite
  <1>3. CASE \E heights \in Heights : Restart(heights)
    BY <1>1, <1>3, RestartIsTSRestart
  <1>4. CASE \E i \in DOMAIN tables : Damage(i)
    BY <1>1, <1>4, DamageIsTSDamage
  <1>5. CASE Flush
    BY <1>1, <1>5, FlushIsTSFlush
  <1>6. CASE Compact
    BY <1>1, <1>6, CompactIsTSCompact
  <1>7. CASE (\E target \in Targets : Seek(target)) \/ SeekToFirst \/ IterNext
    BY <1>7, MovesIs
  <1>8. CASE NewIterator
    BY <1>8, NewIteratorIsTSNewIterator
  <1>9. CASE (\E target \in Targets : MemSeek(target)) \/ MemNewIterator \/ MemSeekToFirst
    <2>1. iter' = NoItems /\ UNCHANGED <<list, frames, nextSeq, tables>>
      BY <1>9 DEF MemNewIterator, MemSeekToFirst, MemSeek, StandAt
    <2> QED
      BY <2>1, DropTo
  <1>10. CASE MemNext \/ UNCHANGED vars
    <2>1. UNCHANGED <<list, frames, nextSeq, tables, iter>>
      BY <1>10 DEF MemNext, vars
    <2> QED
      BY <2>1, StutterTo
  <1> QED
    BY <1>2, <1>3, <1>4, <1>5, <1>6, <1>7, <1>8, <1>9, <1>10 DEF Next

\* Nothing is stored and nothing is shown.
LEMMA StoreStart == Init => Store!TSInit
  <1> SUFFICES ASSUME Init PROVE Store!TSInit
    OBVIOUS
  <1>1. list = NewList /\ frames = <<>> /\ nextSeq = 0 /\ tables = <<>> /\ iter = NoItems
    BY DEF Init
  <1>2. Store!MemInit
    <2>1. ListInv(list)
      BY <1>1, NewListInv
    <2>2. ListTable = EmptyTable
      BY <2>1, <1>1, ListTableIs, TableOfNewList
    <2> QED
      BY <2>2, <1>1, StoreOperators DEF Store!MemInit
  <1>3. TabsOf(tables) = <<>>
    BY <1>1 DEF TabsOf
  <1>4. ShownOf(iter.items) = Store!Nothing
    <2>1. <<>> \in Seq(Shown) /\ Len(<<>>) = 0 /\ 1 .. 0 = {}
      OBVIOUS
    <2>2. Climbing(<<>>)
      BY <2>1 DEF Climbing
    <2>3. \A k \in Keys : ShownOf(<<>>)[k] = Tombstone
      BY <2>1, <2>2, ShownAt
    <2>4. ShownOf(<<>>) = [k \in Keys |-> ShownOf(<<>>)[k]]
      BY DEF ShownOf
    <2> QED
      BY <2>3, <2>4, <1>1 DEF Store!Nothing, NoItems
  <1>5. AtOf(iter) = Store!NoKey
    BY <1>1, StoreFunctions DEF AtOf, NoItems
  <1> QED
    BY <1>2, <1>3, <1>4, <1>5 DEF Store!TSInit, TabsOf, Tab, ShownOf, AtOf

\* DB over its list, tables, merge and iterators: every step of it is a step of the
\* plain functions of TableStore, which LSMKV takes them for, or none at all; a flush
\* keeps what the list held, a compaction what the merged tables delivered, an
\* iterator shows what all of it amounts to.
THEOREM StoreImplementsTables == Spec => ImplementsTableStore
  <1>1. Init => Store!TSInit
    BY StoreStart
  <1>2. ReadInv /\ ReadInv' /\ [Next]_vars => [Store!TSStep]_(Store!tsVars)
    BY StoreStepIs
  <1> QED
    BY <1>1, <1>2, ReadInvariant, PTL DEF Spec, ImplementsTableStore, Store!TSSpec
-----------------------------------------------------------------------------
(* The numbers of variable length.  A chain of tails, every one the digit of *)
(* a byte and Radix times the next, is what encoding leaves behind and what  *)
(* the reference says; that the loop of DecodeUint64 adds up to the first of *)
(* them is the invariant: what is added so far, and the weight of the next   *)
(* byte times the tail it starts, are the number.                            *)

\* A set of numbers that has 0, and with a number the next, has them all.
LEMMA AllNumbers ==
    ASSUME NEW T, 0 \in T, \A n \in Nat : n \in T => n + 1 \in T
    PROVE  \A n \in Nat : n \in T
  <1> DEFINE Bad == {n \in Nat : n \notin T}
  <1>1. ASSUME NEW b \in Bad PROVE FALSE
    <2>1. Bad \in SUBSET Nat /\ Bad # {}
      BY <1>1
    <2> HIDE DEF Bad
    <2>2. PICK n \in Bad : \A k \in Bad : n =< k
      BY <2>1, SmallestOf
    <2> USE DEF Bad
    <2>3. n \in Nat /\ n # 0
      BY <2>2
    <2>4. n - 1 \in Nat /\ (n - 1) + 1 = n /\ ~(n =< n - 1)
      BY <2>3
    <2> QED
      BY <2>2, <2>4
  <1> QED
    BY <1>1

\* What follows from the sizes of the constants.
LEMMA RadixIs ==
    /\ Radix \in Nat /\ Radix > 1
    /\ MaxUint64Len \in Nat /\ MaxUint64Len >= 1
    /\ LastByte \in Nat /\ LastByte >= 1 /\ LastByte < Radix
  BY VarintAssumption

\* A number is its last digit and Radix times the rest, which is less.
LEMMA DigitsOf ==
    ASSUME NEW x \in Nat
    PROVE  /\ x % Radix \in 0 .. Radix - 1 /\ x \div Radix \in Nat
           /\ x = (x % Radix) + Radix * (x \div Radix)
           /\ x > 0 => x \div Radix < x
  BY RadixIs

LEMMA DigitOf ==
    ASSUME NEW x \in 0 .. Radix - 1
    PROVE  x % Radix = x /\ (Radix + x) % Radix = x
  <1>1. x \in Nat /\ x < Radix /\ Radix \in Nat /\ Radix > 1
    BY RadixIs
  <1>2. x % Radix = x
    BY <1>1
  <1>3. \A q \in Nat : Radix + x = x + Radix * 1
    BY <1>1
  <1>4. (Radix + x) % Radix = x
    BY <1>1, <1>3
  <1> QED
    BY <1>2, <1>4

-----------------------------------------------------------------------------
(* The weights of the bytes.                                                 *)

WeightsUpto(n, w) == w = [i \in 0 .. n |-> IF i = 0 THEN 1 ELSE Radix * w[i - 1]]

LEMMA WeightsExist ==
    ASSUME NEW n \in Nat
    PROVE  \E w : WeightsUpto(n, w)
  <1> DEFINE T == {m \in Nat : \E w : WeightsUpto(m, w)}
  <1>1. 0 \in T
    <2> DEFINE w == [i \in 0 .. 0 |-> 1]
    <2>1. \A i \in 0 .. 0 : i = 0
      OBVIOUS
    <2>2. WeightsUpto(0, w)
      BY <2>1 DEF WeightsUpto
    <2> QED
      BY <2>2
  <1>2. ASSUME NEW m \in Nat, m \in T PROVE m + 1 \in T
    <2>1. PICK w : WeightsUpto(m, w)
      BY <1>2
    <2>2. \A i \in 0 .. m : w[i] = IF i = 0 THEN 1 ELSE Radix * w[i - 1]
      BY <2>1 DEF WeightsUpto
    <2> DEFINE h == [i \in 0 .. m + 1 |-> IF i = m + 1 THEN Radix * w[m] ELSE w[i]]
    <2>3. \A i \in 0 .. m : h[i] = w[i]
      OBVIOUS
    <2>4. h[m + 1] = Radix * w[m]
      OBVIOUS
    <2>5. h = [i \in 0 .. m + 1 |-> h[i]]
      OBVIOUS
    <2> HIDE DEF h
    <2>6. \A i \in 0 .. m + 1 : h[i] = IF i = 0 THEN 1 ELSE Radix * h[i - 1]
      <3> TAKE i \in 0 .. m + 1
      <3>1. CASE i = m + 1
        <4>1. i # 0 /\ i - 1 = m /\ m \in 0 .. m
          BY <3>1
        <4> QED
          BY <3>1, <4>1, <2>3, <2>4
      <3>2. CASE i # m + 1
        <4>1. i \in 0 .. m /\ (i # 0 => i - 1 \in 0 .. m)
          BY <3>2
        <4> QED
          BY <4>1, <2>2, <2>3
      <3> QED
        BY <3>1, <3>2
    <2>7. WeightsUpto(m + 1, h)
      BY <2>5, <2>6 DEF WeightsUpto
    <2> QED
      BY <2>7
  <1> HIDE DEF T
  <1>3. \A m \in Nat : m \in T
    BY <1>1, <1>2, AllNumbers
  <1> QED
    BY <1>3 DEF T

LEMMA WeightIs ==
    /\ Weight[0] = 1
    /\ \A i \in 1 .. MaxUint64Len : Weight[i] = Radix * Weight[i - 1]
    /\ \A i \in 0 .. MaxUint64Len : Weight[i] \in Nat /\ Weight[i] >= 1
  <1>0. MaxUint64Len \in Nat
    BY RadixIs
  <1>1. \E w : WeightsUpto(MaxUint64Len, w)
    BY <1>0, WeightsExist
  <1>2. Weight = CHOOSE w : WeightsUpto(MaxUint64Len, w)
    BY DEF Weight, WeightsUpto
  <1>3. WeightsUpto(MaxUint64Len, Weight)
    BY <1>1, <1>2
  <1>4. \A i \in 0 .. MaxUint64Len : Weight[i] = IF i = 0 THEN 1 ELSE Radix * Weight[i - 1]
    BY <1>3 DEF WeightsUpto
  <1>5. Weight[0] = 1 /\ \A i \in 1 .. MaxUint64Len : Weight[i] = Radix * Weight[i - 1]
    BY <1>0, <1>4
  <1> DEFINE T == {i \in Nat : i =< MaxUint64Len => Weight[i] \in Nat /\ Weight[i] >= 1}
  <1>6. 0 \in T
    BY <1>5
  <1>7. ASSUME NEW i \in Nat, i \in T PROVE i + 1 \in T
    <2> SUFFICES ASSUME i + 1 =< MaxUint64Len
                 PROVE  Weight[i + 1] \in Nat /\ Weight[i + 1] >= 1
      OBVIOUS
    <2>1. Weight[i] \in Nat /\ Weight[i] >= 1
      BY <1>0, <1>7
    <2>2. i + 1 \in 1 .. MaxUint64Len /\ (i + 1) - 1 = i
      BY <1>0
    <2>3. Weight[i + 1] = Radix * Weight[i]
      BY <2>2, <1>5
    <2>4. \A r, w \in Nat : r > 1 /\ w >= 1 => r * w \in Nat /\ r * w >= 1
      OBVIOUS
    <2> QED
      BY <2>1, <2>3, <2>4, RadixIs
  <1> HIDE DEF T
  <1>8. \A i \in Nat : i \in T
    BY <1>6, <1>7, AllNumbers
  <1>9. \A i \in 0 .. MaxUint64Len : i \in Nat /\ i =< MaxUint64Len
    BY <1>0
  <1> QED
    BY <1>5, <1>8, <1>9 DEF T

\* The weights grow, and the words end within the last of them.
LEMMA WeightsGrow ==
    /\ \A k \in 1 .. MaxUint64Len - 1 : Weight[k] =< Weight[MaxUint64Len - 1]
    /\ MaxWord \in Nat
    /\ MaxWord + 1 = (LastByte + 1) * Weight[MaxUint64Len - 1]
    /\ MaxWord < Weight[MaxUint64Len]
    /\ Weight[MaxUint64Len - 1] =< MaxWord
  <1> DEFINE M == MaxUint64Len
             w == Weight[M - 1]
  <1>1. M \in Nat /\ M >= 1 /\ M - 1 \in 0 .. M /\ M \in 1 .. M
    BY RadixIs
  <1>2. w \in Nat /\ w >= 1 /\ Weight[M] = Radix * w
    BY <1>1, WeightIs
  <1> DEFINE T == {j \in Nat : j < M => Weight[M - 1 - j] =< w}
  <1>3. 0 \in T
    BY <1>1, <1>2
  <1>4. ASSUME NEW j \in Nat, j \in T PROVE j + 1 \in T
    <2> SUFFICES ASSUME j + 1 < M PROVE Weight[M - 1 - (j + 1)] =< w
      OBVIOUS
    <2> DEFINE i == M - 1 - j
    <2>1. i \in 1 .. M /\ i - 1 = M - 1 - (j + 1) /\ i - 1 \in 0 .. M
      BY <1>1
    <2>2. Weight[i] =< w
      BY <1>1, <1>4
    <2> HIDE DEF i
    <2>3. Weight[i] = Radix * Weight[i - 1] /\ Weight[i - 1] \in Nat
      BY <2>1, WeightIs
    <2>4. \A r, v \in Nat : r > 1 => v =< r * v
      OBVIOUS
    <2>5. Weight[i - 1] =< Weight[i]
      BY <2>3, <2>4, RadixIs
    <2>6. Weight[i] \in Nat
      BY <2>1, WeightIs
    <2> QED
      BY <2>1, <2>2, <2>3, <2>5, <2>6, <1>2
  <1>5. \A j \in Nat : j \in T
    <2> HIDE DEF T
    <2> QED
      BY <1>3, <1>4, AllNumbers
  <1>6. \A k \in 1 .. M - 1 : Weight[k] =< w
    <2> TAKE k \in 1 .. M - 1
    <2>1. M - 1 - k \in Nat /\ M - 1 - k < M /\ M - 1 - (M - 1 - k) = k
      BY <1>1
    <2> QED
      BY <2>1, <1>5
  <1> HIDE DEF w, M
  <1>7. \A l, r, v \in Nat : v >= 1 /\ l >= 1 /\ l < r =>
            /\ (l + 1) * v - 1 \in Nat
            /\ (l + 1) * v - 1 < r * v
            /\ v =< (l + 1) * v - 1
    <2> TAKE l, r, v \in Nat
    <2> HAVE v >= 1 /\ l >= 1 /\ l < r
    <2>1. PICK d \in Nat : r = l + 1 + d
      <3>1. r - (l + 1) \in Nat /\ r = l + 1 + (r - (l + 1))
        OBVIOUS
      <3> QED
        BY <3>1
    <2>2. PICK c \in Nat : l = c + 1
      <3>1. l - 1 \in Nat /\ l = (l - 1) + 1
        OBVIOUS
      <3> QED
        BY <3>1
    <2>3. d * v \in Nat /\ c * v \in Nat
      OBVIOUS
    <2>4. r * v = (l + 1) * v + d * v /\ (l + 1) * v = v + v + c * v
      BY <2>1, <2>2
    <2> QED
      BY <2>3, <2>4
  <1>8. MaxWord = (LastByte + 1) * w - 1
    BY DEF MaxWord, w, M
  <1>9. MaxWord \in Nat /\ MaxWord < Radix * w /\ w =< MaxWord
    BY <1>2, <1>7, <1>8, RadixIs
  <1>10. MaxWord + 1 = (LastByte + 1) * w
    BY <1>2, <1>8, RadixIs
  <1> QED
    BY <1>2, <1>6, <1>9, <1>10 DEF w, M
-----------------------------------------------------------------------------
(* The loop of DecodeUint64, and the reference.                              *)

\* The number the loop has after each byte, and the number every byte starts.
Adding(b, n, x)   == x = [i \in 0 .. n |-> IF i = 0 THEN 0 ELSE x[i - 1] + (b[i] % Radix) * Weight[i - 1]]
Tails(b, n, from) ==
    from = [i \in 1 .. n + 1 |-> IF i > n THEN 0 ELSE (b[i] % Radix) + Radix * from[i + 1]]

LEMMA LoopExists ==
    ASSUME NEW b, NEW n \in Nat
    PROVE  \E x : Adding(b, n, x)
  <1> DEFINE T == {m \in Nat : \E x : Adding(b, m, x)}
             more(x, m) == x[m] + (b[m + 1] % Radix) * Weight[m]
  <1>1. 0 \in T
    <2> DEFINE x == [i \in 0 .. 0 |-> 0]
    <2>1. \A i \in 0 .. 0 : i = 0
      OBVIOUS
    <2>2. Adding(b, 0, x)
      BY <2>1 DEF Adding
    <2> QED
      BY <2>2
  <1>2. ASSUME NEW m \in Nat, m \in T PROVE m + 1 \in T
    <2>1. PICK x : Adding(b, m, x)
      BY <1>2
    <2>2. \A i \in 0 .. m : x[i] = IF i = 0 THEN 0 ELSE x[i - 1] + (b[i] % Radix) * Weight[i - 1]
      BY <2>1 DEF Adding
    <2> DEFINE h == [i \in 0 .. m + 1 |-> IF i = m + 1 THEN more(x, m) ELSE x[i]]
    <2>3. \A i \in 0 .. m : h[i] = x[i]
      OBVIOUS
    <2>4. h[m + 1] = x[m] + (b[m + 1] % Radix) * Weight[m]
      OBVIOUS
    <2>5. h = [i \in 0 .. m + 1 |-> h[i]]
      OBVIOUS
    <2> HIDE DEF h
    <2>6. \A i \in 0 .. m + 1 :
             h[i] = IF i = 0 THEN 0 ELSE h[i - 1] + (b[i] % Radix) * Weight[i - 1]
      <3> TAKE i \in 0 .. m + 1
      <3>1. CASE i = m + 1
        <4>1. i # 0 /\ i - 1 = m /\ m \in 0 .. m
          BY <3>1
        <4> QED
          BY <3>1, <4>1, <2>3, <2>4
      <3>2. CASE i # m + 1
        <4>1. i \in 0 .. m /\ (i # 0 => i - 1 \in 0 .. m)
          BY <3>2
        <4> QED
          BY <4>1, <2>2, <2>3
      <3> QED
        BY <3>1, <3>2
    <2>7. Adding(b, m + 1, h)
      BY <2>5, <2>6 DEF Adding
    <2> QED
      BY <2>7
  <1> HIDE DEF T
  <1>3. \A m \in Nat : m \in T
    BY <1>1, <1>2, AllNumbers
  <1> QED
    BY <1>3 DEF T

\* The numbers of the loop: the first i bytes stay below the weight of the next.
LoopOf(b, n, x) ==
    /\ x[0] = 0
    /\ \A i \in 1 .. n : x[i] = x[i - 1] + (b[i] % Radix) * Weight[i - 1]
    /\ \A i \in 0 .. n : x[i] \in Nat /\ x[i] < Weight[i]

LEMMA AddedIs ==
    ASSUME NEW b, NEW n \in 0 .. MaxUint64Len, \A i \in 1 .. n : b[i] \in Nat
    PROVE  \E x : Added(b, n) = x[n] /\ LoopOf(b, n, x)
  <1>0. n \in Nat /\ MaxUint64Len \in Nat /\ n =< MaxUint64Len
    BY RadixIs
  <1> DEFINE x == CHOOSE f : Adding(b, n, f)
  <1>1. Added(b, n) = x[n]
    BY DEF Added, Adding
  <1>2. Adding(b, n, x)
    BY <1>0, LoopExists
  <1> HIDE DEF x
  <1>3. \A i \in 0 .. n : x[i] = IF i = 0 THEN 0 ELSE x[i - 1] + (b[i] % Radix) * Weight[i - 1]
    BY <1>2 DEF Adding
  <1>4. x[0] = 0 /\ \A i \in 1 .. n : x[i] = x[i - 1] + (b[i] % Radix) * Weight[i - 1]
    BY <1>0, <1>3
  <1> DEFINE T == {i \in Nat : i =< n => x[i] \in Nat /\ x[i] < Weight[i]}
  <1>5. 0 \in T
    BY <1>4, WeightIs
  <1>6. ASSUME NEW i \in Nat, i \in T PROVE i + 1 \in T
    <2> SUFFICES ASSUME i + 1 =< n PROVE x[i + 1] \in Nat /\ x[i + 1] < Weight[i + 1]
      OBVIOUS
    <2>1. x[i] \in Nat /\ x[i] < Weight[i]
      BY <1>0, <1>6
    <2>2. i + 1 \in 1 .. n /\ i + 1 \in 1 .. MaxUint64Len /\ (i + 1) - 1 = i
          /\ i \in 0 .. MaxUint64Len
      BY <1>0
    <2>3. PICK d \in 0 .. Radix - 1 : d = b[i + 1] % Radix
      BY <2>2, DigitsOf
    <2>4. x[i + 1] = x[i] + d * Weight[i]
      BY <2>2, <2>3, <1>4
    <2>5. Weight[i + 1] = Radix * Weight[i] /\ Weight[i] \in Nat
      BY <2>2, WeightIs
    <2>6. \A r, v, y, e \in Nat :
             e < r /\ y < v => y + e * v \in Nat /\ y + e * v < r * v
      <3> TAKE r, v, y, e \in Nat
      <3> HAVE e < r /\ y < v
      <3>1. PICK c \in Nat : r = e + 1 + c
        <4>1. r - (e + 1) \in Nat /\ r = e + 1 + (r - (e + 1))
          OBVIOUS
        <4> QED
          BY <4>1
      <3>2. e \in Nat /\ e * v \in Nat /\ c * v \in Nat
        OBVIOUS
      <3>3. r * v = e * v + v + c * v
        BY <3>1, <3>2
      <3> QED
        BY <3>2, <3>3
    <2>7. d \in Nat /\ d < Radix /\ Radix \in Nat
      BY RadixIs
    <2> QED
      BY <2>1, <2>4, <2>5, <2>6, <2>7
  <1> HIDE DEF T
  <1>7. \A i \in Nat : i \in T
    BY <1>5, <1>6, AllNumbers
  <1>8. \A i \in 0 .. n : x[i] \in Nat /\ x[i] < Weight[i]
    BY <1>0, <1>7 DEF T
  <1> QED
    BY <1>1, <1>4, <1>8 DEF LoopOf

\* A number that its first n digits make up.
Chain(b, n, from) ==
    /\ \A i \in 1 .. n + 1 : from[i] \in Nat
    /\ from[n + 1] = 0
    /\ \A i \in 1 .. n : from[i] = (b[i] % Radix) + Radix * from[i + 1]

LEMMA AddedChain ==
    ASSUME NEW b, NEW n \in 0 .. MaxUint64Len, \A i \in 1 .. n : b[i] \in Nat,
           NEW from, Chain(b, n, from)
    PROVE  Added(b, n) = from[1]
  <1>0. n \in Nat /\ MaxUint64Len \in Nat /\ n =< MaxUint64Len
    BY RadixIs
  <1>a. PICK x : Added(b, n) = x[n] /\ LoopOf(b, n, x)
    BY AddedIs
  <1>1. /\ Added(b, n) = x[n] /\ x[0] = 0
        /\ \A i \in 1 .. n : x[i] = x[i - 1] + (b[i] % Radix) * Weight[i - 1]
        /\ \A i \in 0 .. n : x[i] \in Nat /\ x[i] < Weight[i]
    BY <1>a DEF LoopOf
  <1> DEFINE T == {i \in Nat : i =< n => x[i] + Weight[i] * from[i + 1] = from[1]}
  <1>2. 0 \in T
    <2>1. from[0 + 1] = from[1] /\ from[1] \in Nat
      BY <1>0 DEF Chain
    <2> QED
      BY <2>1, <1>1, WeightIs
  <1>3. ASSUME NEW i \in Nat, i \in T PROVE i + 1 \in T
    <2> SUFFICES ASSUME i + 1 =< n
                 PROVE  x[i + 1] + Weight[i + 1] * from[(i + 1) + 1] = from[1]
      OBVIOUS
    <2>1. x[i] + Weight[i] * from[i + 1] = from[1]
      BY <1>0, <1>3
    <2>2. i + 1 \in 1 .. n /\ i + 1 \in 1 .. MaxUint64Len /\ (i + 1) - 1 = i
          /\ i \in 0 .. MaxUint64Len /\ i \in 0 .. n /\ i + 1 \in 1 .. n + 1
          /\ (i + 1) + 1 \in 1 .. n + 1
      BY <1>0
    <2>3. PICK d \in 0 .. Radix - 1 : d = b[i + 1] % Radix
      BY <2>2, DigitsOf
    <2>4. x[i + 1] = x[i] + d * Weight[i] /\ x[i] \in Nat
      BY <2>2, <2>3, <1>1
    <2>5. Weight[i + 1] = Radix * Weight[i] /\ Weight[i] \in Nat
      BY <2>2, WeightIs
    <2>6. from[i + 1] = d + Radix * from[(i + 1) + 1] /\ from[(i + 1) + 1] \in Nat
      BY <2>2, <2>3 DEF Chain
    <2>7. \A r, v, y, e, t \in Nat : y + v * (e + r * t) = (y + e * v) + (r * v) * t
      OBVIOUS
    <2>8. d \in Nat /\ Radix \in Nat
      BY RadixIs
    <2> HIDE DEF Chain
    <2> QED
      BY <2>1, <2>4, <2>5, <2>6, <2>7, <2>8
  <1> HIDE DEF T
  <1>4. \A i \in Nat : i \in T
    BY <1>2, <1>3, AllNumbers
  <1>5. x[n] + Weight[n] * from[n + 1] = from[1]
    BY <1>0, <1>4 DEF T
  <1>6. x[n] \in Nat /\ Weight[n] \in Nat /\ from[n + 1] = 0
    BY <1>0, <1>1, WeightIs DEF Chain
  <1> QED
    BY <1>1, <1>5, <1>6
LEMMA TailsExist ==
    ASSUME NEW b, NEW n \in Nat, \A i \in 1 .. n : b[i] \in Nat
    PROVE  \E from : Tails(b, n, from)
  <1> DEFINE Ending(m, y, f) ==
                 /\ f = [i \in 1 .. m + 1 |-> f[i]] /\ f[m + 1] = y
                 /\ \A i \in 1 .. m : f[i] = (b[i] % Radix) + Radix * f[i + 1]
             T == {m \in Nat : m =< n => \A y \in Nat : \E f : Ending(m, y, f)}
  <1>1. 0 \in T
    <2> SUFFICES ASSUME NEW y \in Nat PROVE \E f : Ending(0, y, f)
      OBVIOUS
    <2> DEFINE f == [i \in 1 .. 0 + 1 |-> y]
    <2>1. f[0 + 1] = y /\ f = [i \in 1 .. 0 + 1 |-> f[i]]
      OBVIOUS
    <2>2. Ending(0, y, f)
      BY <2>1
    <2> QED
      BY <2>2
  <1>2. ASSUME NEW m \in Nat, m \in T PROVE m + 1 \in T
    <2> SUFFICES ASSUME m + 1 =< n, NEW y \in Nat PROVE \E f : Ending(m + 1, y, f)
      OBVIOUS
    <2>1. PICK z \in Nat : z = (b[m + 1] % Radix) + Radix * y
      <3>1. m + 1 \in 1 .. n
        OBVIOUS
      <3>2. b[m + 1] % Radix \in Nat
        BY <3>1, DigitsOf
      <3>3. Radix * y \in Nat
        BY RadixIs
      <3> QED
        BY <3>2, <3>3
    <2>2. PICK f : Ending(m, z, f)
      BY <1>2
    <2> DEFINE h == [i \in 1 .. (m + 1) + 1 |-> IF i = (m + 1) + 1 THEN y ELSE f[i]]
    <2>3. /\ h = [i \in 1 .. (m + 1) + 1 |-> h[i]] /\ h[(m + 1) + 1] = y
          /\ \A i \in 1 .. m + 1 : h[i] = f[i]
      OBVIOUS
    <2> HIDE DEF h
    <2>4. ASSUME NEW i \in 1 .. m + 1
          PROVE  h[i] = (b[i] % Radix) + Radix * h[i + 1]
      <3>1. CASE i = m + 1
        BY <3>1, <2>1, <2>2, <2>3
      <3>2. CASE i # m + 1
        <4>1. i \in 1 .. m /\ i + 1 \in 1 .. m + 1
          BY <3>2
        <4> QED
          BY <4>1, <2>2, <2>3
      <3> QED
        BY <3>1, <3>2
    <2>5. Ending(m + 1, y, h)
      BY <2>3, <2>4
    <2> QED
      BY <2>5
  <1>3. \A m \in Nat : m \in T
    <2> HIDE DEF T
    <2> QED
      BY <1>1, <1>2, AllNumbers
  <1>4. PICK f : Ending(n, 0, f)
    <2> HIDE DEF Ending
    <2> QED
      BY <1>3
  <1>5. \A i \in 1 .. n + 1 : f[i] = IF i > n THEN 0 ELSE (b[i] % Radix) + Radix * f[i + 1]
    <2> TAKE i \in 1 .. n + 1
    <2>1. i > n => i = n + 1
      OBVIOUS
    <2>2. ~(i > n) => i \in 1 .. n
      OBVIOUS
    <2> QED
      BY <2>1, <2>2, <1>4
  <1>6. Tails(b, n, f)
    BY <1>4, <1>5 DEF Tails
  <1> QED
    BY <1>6

LEMMA DenotedChain ==
    ASSUME NEW b, NEW n \in Nat, \A i \in 1 .. n : b[i] \in Nat
    PROVE  \E from : Chain(b, n, from) /\ Denoted(b, n) = from[1]
  <1> DEFINE from == CHOOSE f : Tails(b, n, f)
  <1>1. Denoted(b, n) = from[1]
    BY DEF Denoted, Tails
  <1>2. Tails(b, n, from)
    BY TailsExist
  <1> HIDE DEF from
  <1>3. \A i \in 1 .. n + 1 : from[i] = IF i > n THEN 0 ELSE (b[i] % Radix) + Radix * from[i + 1]
    BY <1>2 DEF Tails
  <1>4. from[n + 1] = 0 /\ \A i \in 1 .. n : from[i] = (b[i] % Radix) + Radix * from[i + 1]
    BY <1>3
  <1> DEFINE T == {j \in Nat : j =< n => from[n + 1 - j] \in Nat}
  <1>5. 0 \in T
    BY <1>4
  <1>6. ASSUME NEW j \in Nat, j \in T PROVE j + 1 \in T
    <2> SUFFICES ASSUME j + 1 =< n PROVE from[n + 1 - (j + 1)] \in Nat
      OBVIOUS
    <2>1. PICK i \in 1 .. n : i = n + 1 - (j + 1)
      OBVIOUS
    <2>2. from[n + 1 - j] \in Nat /\ n + 1 - j = i + 1
      BY <1>6, <2>1
    <2>3. PICK d \in 0 .. Radix - 1 : d = b[i] % Radix
      BY DigitsOf
    <2>4. PICK y \in Nat : y = from[i + 1]
      BY <2>2
    <2>5. from[i] = d + Radix * y
      BY <2>3, <2>4, <1>4
    <2>6. Radix * y \in Nat /\ d \in Nat
      BY RadixIs
    <2> QED
      BY <2>1, <2>5, <2>6
  <1>7. \A j \in Nat : j \in T
    <2> HIDE DEF T
    <2> QED
      BY <1>5, <1>6, AllNumbers
  <1>8. ASSUME NEW i \in 1 .. n + 1 PROVE from[i] \in Nat
    <2>1. n + 1 - i \in Nat /\ n + 1 - i =< n /\ n + 1 - (n + 1 - i) = i
      OBVIOUS
    <2> QED
      BY <2>1, <1>7
  <1> QED
    BY <1>1, <1>4, <1>8 DEF Chain

-----------------------------------------------------------------------------
(* The loop of EncodeUint64.                                                 *)

EncodedUpto(n, f) ==
    f = [x \in 0 .. n |-> IF x < Radix THEN <<x>> ELSE <<Radix + (x % Radix)>> \o f[x \div Radix]]

LEMMA EncodedExist ==
    ASSUME NEW n \in Nat
    PROVE  \E f : EncodedUpto(n, f)
  <1> DEFINE T == {m \in Nat : \E f : EncodedUpto(m, f)}
             more(f, x) == IF x < Radix THEN <<x>> ELSE <<Radix + (x % Radix)>> \o f[x \div Radix]
  <1>0. \A x \in Nat : x >= Radix => x \div Radix \in Nat /\ x \div Radix < x
    BY DigitsOf, RadixIs
  <1>1. 0 \in T
    <2> DEFINE f == [x \in 0 .. 0 |-> <<0>>]
    <2>1. \A x \in 0 .. 0 : x = 0 /\ 0 < Radix
      BY RadixIs
    <2>2. EncodedUpto(0, f)
      BY <2>1 DEF EncodedUpto
    <2> QED
      BY <2>2
  <1>2. ASSUME NEW m \in Nat, m \in T PROVE m + 1 \in T
    <2>1. PICK f : EncodedUpto(m, f)
      BY <1>2
    <2>2. \A x \in 0 .. m : f[x] = more(f, x)
      BY <2>1 DEF EncodedUpto
    <2> DEFINE h == [x \in 0 .. m + 1 |-> IF x = m + 1 THEN more(f, m + 1) ELSE f[x]]
    <2>3. \A x \in 0 .. m : h[x] = f[x]
      OBVIOUS
    <2>4. h[m + 1] = more(f, m + 1)
      OBVIOUS
    <2>5. h = [x \in 0 .. m + 1 |-> h[x]]
      OBVIOUS
    <2> HIDE DEF h
    <2>6. ASSUME NEW x \in 0 .. m + 1 PROVE h[x] = more(h, x)
      <3>1. x >= Radix => x \div Radix \in 0 .. m
        BY <1>0, RadixIs
      <3>2. more(h, x) = more(f, x)
        BY <3>1, <2>3, RadixIs
      <3>3. CASE x = m + 1
        BY <3>2, <3>3, <2>4
      <3>4. CASE x # m + 1
        <4>1. x \in 0 .. m
          BY <3>4
        <4> HIDE DEF more
        <4> QED
          BY <4>1, <3>2, <2>2, <2>3
      <3> QED
        BY <3>3, <3>4
    <2>7. EncodedUpto(m + 1, h)
      BY <2>5, <2>6 DEF EncodedUpto
    <2> QED
      BY <2>7
  <1> HIDE DEF T
  <1>3. \A m \in Nat : m \in T
    BY <1>1, <1>2, AllNumbers
  <1> QED
    BY <1>3 DEF T

LEMMA EncodeIs ==
    ASSUME NEW x \in Words
    PROVE  EncodeUint64[x] = IF x < Radix THEN <<x>>
                             ELSE <<Radix + (x % Radix)>> \o EncodeUint64[x \div Radix]
  <1>1. MaxWord \in Nat
    BY WeightsGrow
  <1>2. EncodeUint64 = CHOOSE f : EncodedUpto(MaxWord, f)
    BY DEF EncodeUint64, EncodedUpto, Words
  <1>3. EncodedUpto(MaxWord, EncodeUint64)
    BY <1>1, <1>2, EncodedExist
  <1> QED
    BY <1>3 DEF EncodedUpto, Words

\* An encoding: flagged bytes and one that is not, of which the number is made up,
\* no more of them than its size takes.
Encoding(x, e) ==
    /\ e \in Seq(Bytes) /\ Len(e) >= 1
    /\ \A i \in 1 .. Len(e) - 1 : e[i] >= Radix
    /\ e[Len(e)] < Radix
    /\ \E from : Chain(e, Len(e), from) /\ from[1] = x
    /\ \A k \in 1 .. MaxUint64Len : x < Weight[k] => Len(e) =< k

LEMMA OneByte ==
    ASSUME NEW x \in Nat, x < Radix
    PROVE  Encoding(x, <<x>>)
  <1> DEFINE e == <<x>>
             from == [i \in 1 .. 2 |-> IF i = 1 THEN x ELSE 0]
  <1>1. x \in Bytes
    BY RadixIs DEF Bytes
  <1>2. e \in Seq(Bytes) /\ Len(e) = 1 /\ e[1] = x
    BY <1>1
  <1>3. from[1] = x /\ from[2] = 0
    OBVIOUS
  <1>4. x % Radix = x
    BY DigitOf, RadixIs
  <1> HIDE DEF e, from
  <1>5. /\ \A i \in 1 .. 1 + 1 : from[i] \in Nat
        /\ from[1 + 1] = 0
    BY <1>3
  <1>6. ASSUME NEW i \in 1 .. 1 PROVE from[i] = (e[i] % Radix) + Radix * from[i + 1]
    <2>1. i = 1 /\ i + 1 = 2
      OBVIOUS
    <2>2. (e[i] % Radix) = x /\ from[i] = x /\ from[i + 1] = 0
      BY <2>1, <1>2, <1>3, <1>4
    <2> QED
      BY <2>2, RadixIs
  <1>7. Chain(e, Len(e), from)
    BY <1>2, <1>5, <1>6 DEF Chain
  <1>8. Encoding(x, e)
    BY <1>2, <1>3, <1>7 DEF Encoding
  <1> QED
    BY <1>8 DEF e
LEMMA ByteBefore ==
    ASSUME NEW x \in Nat, x >= Radix, NEW t, Encoding(x \div Radix, t)
    PROVE  Encoding(x, <<Radix + (x % Radix)>> \o t)
  <1>1. PICK d \in 0 .. Radix - 1 : d = x % Radix
    BY DigitsOf
  <1>2. PICK y \in Nat : y = x \div Radix
    BY DigitsOf
  <1>3. x = d + Radix * y /\ d \in Nat /\ d < Radix /\ Radix \in Nat /\ Radix > 1
    BY <1>1, <1>2, DigitsOf, RadixIs
  <1>4. PICK c \in Bytes : c = Radix + d
    BY RadixIs DEF Bytes
  <1>5. c \in Nat /\ c >= Radix /\ c % Radix = d
    BY <1>3, <1>4, DigitOf
  <1>6. Encoding(y, t)
    BY <1>2
  <1>7. /\ t \in Seq(Bytes) /\ Len(t) \in Nat /\ Len(t) >= 1
        /\ \A i \in 1 .. Len(t) - 1 : t[i] >= Radix
        /\ t[Len(t)] < Radix
        /\ \A k \in 1 .. MaxUint64Len : y < Weight[k] => Len(t) =< k
    BY <1>6 DEF Encoding
  <1>8. PICK g : Chain(t, Len(t), g) /\ g[1] = y
    BY <1>6 DEF Encoding
  <1>9. PICK n \in Nat : n = Len(t)
    BY <1>7
  <1>10. PICK e : e = <<c>> \o t
    OBVIOUS
  <1>11. /\ e \in Seq(Bytes) /\ Len(e) = n + 1 /\ e[1] = c
         /\ \A i \in 1 .. n : e[i + 1] = t[i]
    BY <1>7, <1>9, <1>10
  <1>12. ASSUME NEW i \in 1 .. n PROVE e[i] >= Radix
    <2>1. CASE i = 1
      BY <2>1, <1>5, <1>11
    <2>2. CASE i # 1
      <3>1. i - 1 \in 1 .. n - 1 /\ i - 1 \in 1 .. n /\ (i - 1) + 1 = i
        BY <2>2
      <3> QED
        BY <3>1, <1>7, <1>9, <1>11
    <2> QED
      BY <2>1, <2>2
  <1>13. e[n + 1] < Radix
    <2>1. n \in 1 .. n
      BY <1>7, <1>9
    <2> QED
      BY <2>1, <1>7, <1>9, <1>11
  <1> DEFINE f == [i \in 1 .. n + 1 + 1 |-> IF i = 1 THEN x ELSE g[i - 1]]
  <1>14. f[1] = x /\ \A i \in 1 .. n + 1 : f[i + 1] = g[i]
    OBVIOUS
  <1> HIDE DEF f
  <1>15. /\ \A i \in 1 .. n + 1 : g[i] \in Nat
         /\ g[n + 1] = 0
         /\ \A i \in 1 .. n : g[i] = (t[i] % Radix) + Radix * g[i + 1]
    BY <1>8, <1>9 DEF Chain
  <1>16. ASSUME NEW i \in 1 .. n + 1 + 1 PROVE f[i] \in Nat
    <2>1. CASE i = 1
      BY <2>1, <1>14
    <2>2. CASE i # 1
      <3>1. i - 1 \in 1 .. n + 1 /\ (i - 1) + 1 = i
        BY <2>2
      <3> QED
        BY <3>1, <1>14, <1>15
    <2> QED
      BY <2>1, <2>2
  <1>17. ASSUME NEW i \in 1 .. n + 1 PROVE f[i] = (e[i] % Radix) + Radix * f[i + 1]
    <2>1. CASE i = 1
      <3>1. f[i] = x /\ f[i + 1] = y /\ e[i] % Radix = d
        BY <2>1, <1>5, <1>8, <1>11, <1>14
      <3> QED
        BY <3>1, <1>3
    <2>2. CASE i # 1
      <3>1. PICK j \in 1 .. n : i = j + 1
        <4>1. i - 1 \in 1 .. n /\ i = (i - 1) + 1
          BY <2>2
        <4> QED
          BY <4>1
      <3>2. e[i] = t[j] /\ f[i] = g[j]
        BY <3>1, <1>11, <1>14
      <3>3. f[i + 1] = g[j + 1]
        <4>1. j + 1 \in 1 .. n + 1 /\ i + 1 = (j + 1) + 1
          BY <3>1
        <4> QED
          BY <4>1, <1>14
      <3> QED
        BY <3>1, <3>2, <3>3, <1>15
    <2> QED
      BY <2>1, <2>2
  <1>18. f[n + 1 + 1] = 0
    <2>1. n + 1 \in 1 .. n + 1
      OBVIOUS
    <2> QED
      BY <2>1, <1>14, <1>15
  <1>19. Chain(e, n + 1, f)
    BY <1>16, <1>17, <1>18 DEF Chain
  <1>20. ASSUME NEW k \in 1 .. MaxUint64Len, x < Weight[k] PROVE n + 1 =< k
    <2>1. PICK v \in Nat : v = Weight[k - 1]
      BY WeightIs, RadixIs
    <2>2. Weight[k] = Radix * v /\ MaxUint64Len \in Nat
      BY <2>1, WeightIs, RadixIs
    <2>3. \A r, p, q, s \in Nat : s + r * p < r * q /\ r > 1 => p < q
      <3> TAKE r, p, q, s \in Nat
      <3> SUFFICES ASSUME r > 1, q =< p PROVE r * q =< s + r * p
        OBVIOUS
      <3>1. PICK c2 \in Nat : p = q + c2
        <4>1. p - q \in Nat /\ p = q + (p - q)
          OBVIOUS
        <4> QED
          BY <4>1
      <3>2. r * p = r * q + r * c2 /\ r * c2 \in Nat /\ r * q \in Nat
        BY <3>1
      <3> QED
        BY <3>2
    <2>4. y < v
      BY <2>2, <2>3, <1>3, <1>20
    <2>5. k # 1
      <3> SUFFICES ASSUME k = 1 PROVE FALSE
        OBVIOUS
      <3>1. k - 1 = 0
        OBVIOUS
      <3>2. v = 1
        BY <3>1, <2>1, WeightIs
      <3>3. x < Radix
        BY <3>2, <2>2, <1>20, <1>3
      <3> QED
        BY <3>3, <1>3
    <2>6. k - 1 \in 1 .. MaxUint64Len
      BY <2>2, <2>5
    <2>7. n =< k - 1
      BY <2>1, <2>4, <2>6, <1>7, <1>9
    <2> QED
      BY <2>2, <2>6, <2>7
  <1>21. Encoding(x, e)
    <2>1. Len(e) >= 1 /\ Len(e) - 1 = n
      BY <1>11
    <2>2. \E from : Chain(e, Len(e), from) /\ from[1] = x
      BY <1>11, <1>14, <1>19
    <2> QED
      BY <2>1, <2>2, <1>11, <1>12, <1>13, <1>20 DEF Encoding
  <1> QED
    BY <1>1, <1>4, <1>10, <1>21

LEMMA EncodedIs ==
    ASSUME NEW w \in Words
    PROVE  Encoding(w, EncodeUint64[w])
  <1> DEFINE Bad == {x \in Words : ~Encoding(x, EncodeUint64[x])}
  <1>1. MaxWord \in Nat /\ Words \in SUBSET Nat
    BY WeightsGrow DEF Words
  <1>2. ASSUME NEW z \in Bad PROVE FALSE
    <2>1. Bad \in SUBSET Nat /\ Bad # {}
      BY <1>1, <1>2
    <2> HIDE DEF Bad
    <2>2. PICK x \in Bad : \A y \in Bad : x =< y
      BY <2>1, SmallestOf
    <2> USE DEF Bad
    <2>3. x \in Words /\ x \in Nat /\ ~Encoding(x, EncodeUint64[x])
      BY <2>2, <1>1
    <2> HIDE DEF Bad
    <2>4. CASE x < Radix
      <3>1. EncodeUint64[x] = <<x>>
        BY <2>3, <2>4, EncodeIs
      <3> QED
        BY <3>1, <2>3, <2>4, OneByte
    <2>5. CASE x >= Radix
      <3>0. ~(x < Radix)
        BY <2>3, <2>5, RadixIs
      <3>1. EncodeUint64[x] = <<Radix + (x % Radix)>> \o EncodeUint64[x \div Radix]
        BY <2>3, <3>0, EncodeIs
      <3>2. PICK y \in Nat : y = x \div Radix
        BY <2>3, DigitsOf
      <3>3. y < x
        BY <3>2, <2>3, <2>5, DigitsOf, RadixIs
      <3>4. y \in Words /\ ~(x =< y)
        BY <3>3, <2>3, <1>1 DEF Words
      <3>5. Encoding(y, EncodeUint64[y])
        BY <3>4, <2>2 DEF Bad
      <3> QED
        BY <3>1, <3>2, <3>5, <2>3, <2>5, ByteBefore
    <2> QED
      BY <2>3, <2>4, <2>5, RadixIs
  <1> QED
    BY <1>2
-----------------------------------------------------------------------------
(* What DecodeUint64 returns.                                                *)

LEMMA ByteIs == \A c \in Bytes : c \in Nat
  BY RadixIs DEF Bytes

LEMMA ShortEnds ==
    ASSUME NEW b \in Seq(Bytes), NEW n \in 1 .. Len(b),
           \A i \in 1 .. n - 1 : b[i] >= Radix, b[n] < Radix
    PROVE  Ends(b) # {} /\ Min(Ends(b)) = n
  <1>1. Ends(b) \in SUBSET Nat /\ n \in Ends(b) /\ n \in Nat
    BY DEF Ends
  <1>2. PICK m : m = Min(Ends(b))
    OBVIOUS
  <1>3. m \in Ends(b) /\ \A i \in Ends(b) : m =< i
    BY <1>1, <1>2, LeastOrZero
  <1>4. m \in 1 .. Len(b) /\ b[m] < Radix /\ m =< n
    BY <1>1, <1>3 DEF Ends
  <1>5. b[m] \in Nat
    BY <1>4, ByteIs
  <1>6. m = n
    <2> SUFFICES ASSUME m # n PROVE FALSE
      OBVIOUS
    <2>1. m \in 1 .. n - 1
      BY <1>1, <1>4
    <2> QED
      BY <2>1, <1>4, <1>5, RadixIs
  <1> QED
    BY <1>1, <1>2, <1>6

LEMMA DecodeOf ==
    ASSUME NEW b \in Seq(Bytes), NEW n \in 1 .. Len(b), n =< MaxUint64Len,
           \A i \in 1 .. n - 1 : b[i] >= Radix, b[n] < Radix
    PROVE  DecodeUint64(b) = IF n = MaxUint64Len /\ b[n] > LastByte THEN Failed("overflow")
                             ELSE Decoded(Added(b, n), n)
  <1>1. Ends(b) # {} /\ Min(Ends(b)) = n
    BY ShortEnds
  <1>2. n \in 1 .. MaxUint64Len /\ b[n] \in Nat /\ ~(b[n] >= Radix)
    BY ByteIs, RadixIs
  <1>3. ~TooLong(b)
    BY <1>2 DEF TooLong
  <1>4. TooLarge(b) <=> n = MaxUint64Len /\ b[n] > LastByte
    BY <1>1 DEF TooLarge
  <1> QED
    BY <1>1, <1>3, <1>4 DEF DecodeUint64

LEMMA NoEnd ==
    ASSUME NEW b \in Seq(Bytes), \A i \in 1 .. Len(b) : b[i] >= Radix
    PROVE  DecodeUint64(b) = IF Len(b) > MaxUint64Len THEN Failed("overflow")
                             ELSE Failed("truncated")
  <1>1. Ends(b) = {}
    <2> SUFFICES ASSUME NEW i \in 1 .. Len(b), b[i] < Radix PROVE FALSE
      BY DEF Ends
    <2>1. b[i] \in Nat /\ b[i] >= Radix
      BY ByteIs
    <2> QED
      BY <2>1, RadixIs
  <1>2. CASE Len(b) > MaxUint64Len
    <2>1. \A i \in 1 .. MaxUint64Len : i \in 1 .. Len(b)
      BY <1>2, RadixIs
    <2>2. TooLong(b)
      BY <1>2, <2>1 DEF TooLong
    <2> QED
      BY <1>2, <2>2 DEF DecodeUint64
  <1>3. CASE ~(Len(b) > MaxUint64Len)
    BY <1>1, <1>3 DEF DecodeUint64, TooLong
  <1> QED
    BY <1>2, <1>3

\* What the bytes up to the first without a flag add up to is a word, unless there are
\* as many as a word takes and the last of them is too large.
LEMMA AddedWord ==
    ASSUME NEW b, NEW n \in 1 .. MaxUint64Len, \A i \in 1 .. n : b[i] \in Nat, b[n] < Radix
    PROVE  Added(b, n) \in Words <=> ~(n = MaxUint64Len /\ b[n] > LastByte)
  <1> DEFINE M == MaxUint64Len
  <1>0. n \in Nat /\ M \in Nat /\ n =< M /\ n >= 1 /\ n \in 0 .. M
    BY RadixIs
  <1>1. PICK x : Added(b, n) = x[n] /\ LoopOf(b, n, x)
    BY <1>0, AddedIs
  <1>2. PICK y \in Nat : y = x[n]
    BY <1>0, <1>1 DEF LoopOf
  <1>3. y < Weight[n]
    BY <1>0, <1>1, <1>2 DEF LoopOf
  <1>4. PICK w \in Nat : w = Weight[M - 1]
    BY <1>0, WeightIs
  <1>5. MaxWord \in Nat /\ MaxWord + 1 = (LastByte + 1) * w /\ w =< MaxWord
    BY <1>4, WeightsGrow
  <1>6. CASE n # M
    <2>1. n \in 1 .. M - 1
      BY <1>0, <1>6
    <2>2. Weight[n] =< w /\ Weight[n] \in Nat
      BY <2>1, <1>0, <1>4, WeightsGrow, WeightIs
    <2>3. y =< MaxWord
      BY <2>2, <1>3, <1>5
    <2> QED
      BY <2>3, <1>1, <1>2, <1>6 DEF Words
  <1>7. CASE n = M
    <2>1. PICK z \in Nat : z = x[M - 1]
      BY <1>0, <1>1, <1>7 DEF LoopOf
    <2>2. z < w
      BY <2>1, <1>0, <1>1, <1>4, <1>7 DEF LoopOf
    <2>3. PICK d \in Nat : d = b[n]
      BY <1>0
    <2>4. d % Radix = d
      BY <2>3, DigitOf, RadixIs
    <2>5. y = z + d * w
      <3>1. n \in 1 .. n /\ n - 1 = M - 1
        BY <1>0, <1>7
      <3>2. x[n] = x[n - 1] + (b[n] % Radix) * Weight[n - 1]
        BY <3>1, <1>1 DEF LoopOf
      <3> QED
        BY <3>1, <3>2, <2>1, <2>3, <2>4, <1>2, <1>4
    <2>6. \A v, c, l, s \in Nat : s < v => (s + c * v =< (l + 1) * v - 1 <=> c =< l)
      <3> TAKE v, c, l, s \in Nat
      <3> HAVE s < v
      <3>1. CASE c =< l
        <4>1. PICK r \in Nat : l = c + r
          <5>1. l - c \in Nat /\ l = c + (l - c)
            BY <3>1
          <5> QED
            BY <5>1
        <4>2. (l + 1) * v = c * v + r * v + v /\ r * v \in Nat /\ c * v \in Nat
          BY <4>1
        <4> QED
          BY <4>2, <3>1
      <3>2. CASE ~(c =< l)
        <4>1. PICK r \in Nat : c = l + 1 + r
          <5>1. c - (l + 1) \in Nat /\ c = l + 1 + (c - (l + 1))
            BY <3>2
          <5> QED
            BY <5>1
        <4>2. c * v = (l + 1) * v + r * v /\ r * v \in Nat /\ (l + 1) * v \in Nat
          BY <4>1
        <4> QED
          BY <4>2, <3>2
      <3> QED
        BY <3>1, <3>2
    <2>7. LastByte \in Nat
      BY RadixIs
    <2>8. y =< (LastByte + 1) * w - 1 <=> d =< LastByte
      BY <2>2, <2>5, <2>6, <2>7
    <2>9. y =< MaxWord <=> d =< LastByte
      BY <2>8, <1>5
    <2> QED
      BY <2>3, <2>7, <2>9, <1>1, <1>2, <1>5, <1>7 DEF Words
  <1> QED
    BY <1>6, <1>7
LEMMA EncodedReadBack ==
    ASSUME NEW x \in Words, NEW e, e = EncodeUint64[x], NEW c \in Bytes
    PROVE  DecodeUint64(e \o <<c>>) = Decoded(x, Len(e))
  <1> DEFINE M == MaxUint64Len
  <1>1. Encoding(x, e)
    BY EncodedIs
  <1>2. PICK n \in Nat : n = Len(e)
    BY <1>1 DEF Encoding
  <1>3. /\ e \in Seq(Bytes) /\ n >= 1
        /\ \A i \in 1 .. n - 1 : e[i] >= Radix
        /\ e[n] < Radix
        /\ \A k \in 1 .. M : x < Weight[k] => n =< k
    BY <1>1, <1>2 DEF Encoding
  <1>4. PICK from : Chain(e, n, from) /\ from[1] = x
    BY <1>1, <1>2 DEF Encoding
  <1>5. PICK b : b = e \o <<c>>
    OBVIOUS
  <1>6. /\ b \in Seq(Bytes) /\ Len(b) = n + 1
        /\ \A i \in 1 .. n : b[i] = e[i]
    BY <1>2, <1>3, <1>5
  <1>7. x \in Nat /\ x =< MaxWord /\ M \in Nat /\ M \in 1 .. M
    BY WeightsGrow, RadixIs DEF Words
  <1>8. n =< M
    <2>1. MaxWord \in Nat /\ MaxWord < Weight[M] /\ Weight[M] \in Nat
      BY <1>7, WeightsGrow, WeightIs
    <2>2. x < Weight[M]
      BY <2>1, <1>7
    <2> QED
      BY <2>2, <1>3, <1>7
  <1>9. n \in 1 .. Len(b) /\ n \in 1 .. M /\ n \in 0 .. M /\ n \in 1 .. n
    BY <1>3, <1>6, <1>7, <1>8
  <1>10. (\A i \in 1 .. n - 1 : b[i] >= Radix) /\ b[n] < Radix
    <2>1. \A i \in 1 .. n - 1 : i \in 1 .. n
      OBVIOUS
    <2> QED
      BY <2>1, <1>3, <1>6, <1>9
  <1>11. \A i \in 1 .. n : b[i] \in Nat
    BY <1>6, ByteIs
  <1>12. Chain(b, n, from)
    BY <1>4, <1>6 DEF Chain
  <1>13. Added(b, n) = x
    BY <1>4, <1>9, <1>11, <1>12, AddedChain
  <1>14. ~(n = M /\ b[n] > LastByte)
    BY <1>9, <1>10, <1>11, <1>13, AddedWord
  <1>15. DecodeUint64(b) = Decoded(x, n)
    BY <1>6, <1>8, <1>9, <1>10, <1>13, <1>14, DecodeOf
  <1> QED
    BY <1>2, <1>5, <1>15

LEMMA PartTruncated ==
    ASSUME NEW x \in Words, NEW e, e = EncodeUint64[x], NEW n \in 0 .. Len(e) - 1
    PROVE  DecodeUint64(SubSeq(e, 1, n)) = Failed("truncated")
  <1> DEFINE M == MaxUint64Len
  <1>1. Encoding(x, e)
    BY EncodedIs
  <1>2. PICK l \in Nat : l = Len(e)
    BY <1>1 DEF Encoding
  <1>3. /\ e \in Seq(Bytes)
        /\ \A i \in 1 .. l - 1 : e[i] >= Radix
        /\ \A k \in 1 .. M : x < Weight[k] => l =< k
    BY <1>1, <1>2 DEF Encoding
  <1>4. x \in Nat /\ x =< MaxWord /\ M \in Nat /\ M \in 1 .. M
    BY WeightsGrow, RadixIs DEF Words
  <1>5. l =< M
    <2>1. MaxWord \in Nat /\ MaxWord < Weight[M] /\ Weight[M] \in Nat
      BY <1>4, WeightsGrow, WeightIs
    <2>2. x < Weight[M]
      BY <2>1, <1>4
    <2> QED
      BY <2>2, <1>3, <1>4
  <1>6. PICK b : b = SubSeq(e, 1, n)
    OBVIOUS
  <1>7. b \in Seq(Bytes) /\ Len(b) = n /\ \A i \in 1 .. n : b[i] = e[i]
    BY <1>2, <1>3, <1>6
  <1>8. \A i \in 1 .. Len(b) : b[i] >= Radix
    <2>1. \A i \in 1 .. n : i \in 1 .. l - 1
      BY <1>2
    <2> QED
      BY <2>1, <1>3, <1>7
  <1>9. ~(Len(b) > M)
    BY <1>2, <1>4, <1>5, <1>7
  <1> QED
    BY <1>6, <1>7, <1>8, <1>9, NoEnd

LEMMA AnyBytes ==
    ASSUME NEW b \in TupleOf(Bytes, MaxUint64Len + 1),
           NEW n, n = Min(Ends(b) \cup {MaxUint64Len + 1})
    PROVE  DecodeUint64(b) = IF n =< MaxUint64Len /\ Denoted(b, n) \in Words
                               THEN Decoded(Denoted(b, n), n)
                               ELSE Failed("overflow")
  <1> DEFINE M == MaxUint64Len
  <1>0. M \in Nat /\ M >= 1
    BY RadixIs
  <1>1. b \in Seq(Bytes) /\ Len(b) = M + 1 /\ DOMAIN b = 1 .. M + 1
    BY <1>0 DEF TupleOf
  <1>2. PICK I : I = Ends(b) \cup {M + 1}
    OBVIOUS
  <1>3. I \in SUBSET Nat /\ I # {}
    BY <1>0, <1>1, <1>2 DEF Ends
  <1>4. n \in I /\ \A i \in I : n =< i
    BY <1>2, <1>3, LeastOrZero
  <1>5. n \in Nat /\ n >= 1 /\ n =< M + 1
    BY <1>0, <1>1, <1>2, <1>4 DEF Ends
  <1>6. ASSUME NEW i \in 1 .. n - 1 PROVE b[i] >= Radix
    <2>1. i \in 1 .. M + 1 /\ ~(n =< i)
      BY <1>0, <1>5
    <2>2. i \notin Ends(b)
      BY <2>1, <1>2, <1>4
    <2>3. ~(b[i] < Radix) /\ b[i] \in Nat
      BY <2>1, <2>2, <1>1, ByteIs DEF Ends
    <2> QED
      BY <2>3, RadixIs
  <1>7. CASE n =< M
    <2>1. n \in 1 .. Len(b) /\ n \in 1 .. M /\ n \in 0 .. M
      BY <1>0, <1>1, <1>5, <1>7
    <2>2. b[n] < Radix
      BY <1>0, <1>1, <1>2, <1>4, <1>7 DEF Ends
    <2>3. \A i \in 1 .. n : b[i] \in Nat
      BY <1>0, <1>1, <2>1, ByteIs
    <2>4. PICK from : Chain(b, n, from) /\ Denoted(b, n) = from[1]
      BY <1>5, <2>3, DenotedChain
    <2>5. Added(b, n) = Denoted(b, n)
      BY <2>1, <2>3, <2>4, AddedChain
    <2>6. Denoted(b, n) \in Words <=> ~(n = M /\ b[n] > LastByte)
      BY <2>1, <2>2, <2>3, <2>5, AddedWord
    <2>7. DecodeUint64(b) = IF n = M /\ b[n] > LastByte THEN Failed("overflow")
                            ELSE Decoded(Added(b, n), n)
      BY <1>1, <1>6, <1>7, <2>1, <2>2, DecodeOf
    <2> QED
      BY <1>7, <2>5, <2>6, <2>7
  <1>8. CASE ~(n =< M)
    <2>1. n = M + 1
      BY <1>0, <1>5, <1>8
    <2>3. TooLong(b)
      <3>1. \A i \in 1 .. M : i \in 1 .. n - 1
        BY <1>0, <2>1
      <3>2. Len(b) > M
        BY <1>0, <1>1
      <3> QED
        BY <3>1, <3>2, <1>6 DEF TooLong
    <2> QED
      BY <2>3, <1>8 DEF DecodeUint64
  <1> QED
    BY <1>7, <1>8

LEMMA NumbersReadBack == WordsReadBack
  <1>1. \A x \in Words, c \in Bytes :
           /\ DecodeUint64(EncodeUint64[x] \o <<c>>) = Decoded(x, Len(EncodeUint64[x]))
           /\ \A n \in 0 .. Len(EncodeUint64[x]) - 1 :
                 DecodeUint64(SubSeq(EncodeUint64[x], 1, n)) = Failed("truncated")
    BY EncodedReadBack, PartTruncated
  <1>2. ASSUME NEW b \in TupleOf(Bytes, MaxUint64Len + 1)
        PROVE  LET n == Min(Ends(b) \cup {MaxUint64Len + 1})
               IN  DecodeUint64(b) = IF n =< MaxUint64Len /\ Denoted(b, n) \in Words
                                       THEN Decoded(Denoted(b, n), n)
                                       ELSE Failed("overflow")
    <2>1. PICK n : n = Min(Ends(b) \cup {MaxUint64Len + 1})
      OBVIOUS
    <2> QED
      BY <2>1, AnyBytes
  <1> QED
    BY <1>1, <1>2 DEF WordsReadBack

\* Every number the engine writes into a file is read back, and a part of it is an
\* error: EncodeUint64 and DecodeUint64 are inverse, and no bit is dropped, for every
\* radix, every length and every bound on the last byte.
THEOREM NumbersExact == Spec => []VarintExact
  <1>1. VarintExact
    BY NumbersReadBack DEF VarintExact
  <1> QED
    BY <1>1, PTL
=============================================================================
