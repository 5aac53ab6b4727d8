------------------------------- MODULE DataPath -----------------------------
(***************************************************************************)
(* The data structures under lsmkv.DB put together: writes go into the     *)
(* skip list, a flush turns it into an SSTable, a compaction merges        *)
(* SSTables, Get and the iterators read them all.                          *)
(*                                                                         *)
(* Each operation runs under db.mu and is one action here; LSMKV has the   *)
(* same operations cut into their file operations, over tables that are    *)
(* plain functions.  Two kinds of cursor live across operations: a         *)
(* memtable.Iterator, which walks the list itself, and a DB.Iterator,      *)
(* which has copied what it shows.  One of either kind is alive.           *)
(***************************************************************************)
EXTENDS SkipList, Merge, Varint

CONSTANTS
    Batches,        \* what Write is given: sequences of [key, val]
    Targets,        \* what Get and Seek are given: keys, stored ones or not
    Heights,        \* what randomLevel may give: functions from keys to heights
    MaxSeq,         \* bound: sequence numbers given out
    MaxTables,      \* bound: tables at a time
    MaxFaults       \* bound: blocks that go bad, and logs that are not truncated

\* A key has a byte or more, as Put and Delete demand.  A WriteBatch lets in keys
\* of no bytes too: they are not here, where <<>> is no key (nil, the head of the
\* list), but in LSMKV.
ASSUME DataPathAssumption ==
    /\ Batches \subseteq Seq([key : Keys, val : Contents]) \ {<<>>}
    /\ Keys \subseteq Targets /\ Targets \subseteq Seq(Nat) \ {NoKey}
    /\ Heights \subseteq [Keys -> 1 .. MaxLevel]
    /\ MaxSeq \in Nat /\ MaxTables \in Nat /\ MaxFaults \in Nat

VARIABLES
    list,       \* DB.mem
    frames,     \* the frames in wal.log
    nextSeq,    \* Log.nextSeq
    tables,     \* DB.tables in their order: [level, file, bad, data], where data
                \* is history: what the file reads as from end to end
    refused,    \* the last flush or compaction ended in an error of Writer.Add
    cursor,     \* a memtable.Iterator
    due,        \* history: the keys its caller has to be shown yet
    iter,       \* a DB.Iterator: [items, idx]
    faults      \* counted against MaxFaults

vars     == <<list, frames, nextSeq, tables, refused, cursor, due, iter, faults>>

NoCursor == CursorOn(NoKey)
NoItems  == [items |-> <<>>, idx |-> 0]

Init ==
    /\ list = NewList
    /\ frames = <<>>
    /\ nextSeq = 0
    /\ tables = <<>>
    /\ refused = FALSE
    /\ cursor = NoCursor /\ due = {}
    /\ iter = NoItems
    /\ faults = 0

Fault == faults < MaxFaults /\ faults' = faults + 1

-----------------------------------------------------------------------------
(* DB: writing, flushing, restarting, compacting.                            *)

FrameOf(ops) ==
    [i \in DOMAIN ops |-> [key |-> ops[i].key, seq |-> nextSeq + i, val |-> ops[i].val]]

\* Put, Delete and Write: the log, then the list.
Write(ops, heights) ==
    /\ nextSeq + Len(ops) =< MaxSeq
    /\ frames' = Append(frames, FrameOf(ops))
    /\ nextSeq' = nextSeq + Len(ops)
    /\ list' = SetFrame(list, FrameOf(ops), heights)
    /\ UNCHANGED <<tables, refused, cursor, due, iter, faults>>

\* A file and a Reader for it.
Opened(level, file) ==
    [level |-> level, file |-> file, bad |-> {}, data |-> TableOfEntries(Scan(file, {}))]

\* flushLocked; the truncation of the log that ends it may fail.
Flush ==
    LET file == WriteFile(Snapshot(list))
    IN  /\ list.size > 0
        /\ Len(tables) < MaxTables
        /\ refused' = ~file.ok
        /\ IF file.ok
             THEN /\ tables' = Append(tables, Opened(0, file))
                  /\ list' = NewList
                  /\ cursor' = Detach(list, cursor)
                  /\ \/ frames' = <<>> /\ UNCHANGED faults
                     \/ Fault /\ UNCHANGED frames
             ELSE UNCHANGED <<tables, list, cursor, frames, faults>>
        /\ UNCHANGED <<nextSeq, due, iter>>

\* The process ends, and the next one replays the log.
Restart(heights) ==
    /\ list' = SetFrame(NewList, FlattenSeq(frames), heights)
    /\ cursor' = NoCursor /\ due' = {}
    /\ iter' = NoItems
    /\ refused' = FALSE
    /\ UNCHANGED <<frames, nextSeq, tables, faults>>

\* A block of a table can no longer be read.
Damage(i) ==
    /\ Fault
    /\ \E n \in DOMAIN tables[i].file.blocks : tables' = [tables EXCEPT ![i].bad = @ \cup {n}]
    /\ UNCHANGED <<list, frames, nextSeq, refused, cursor, due, iter>>

Levels == [i \in DOMAIN tables |-> tables[i].level]

ScanOf(t) == Scan(t.file, t.bad)

\* Compact.  Inputs and output are never both read; an input's read error is
\* not looked at.
Compact ==
    LET merged == Planned(Levels)
        inputs == InOrder(merged, <)
        file   == MergeFiles([i \in DOMAIN inputs |-> ScanOf(tables[inputs[i]])])
        kept   == InOrder(DOMAIN tables \ merged, <)
    IN  /\ Len(tables) >= 2
        /\ refused' = ~file.ok
        /\ tables' = IF file.ok
                       THEN Append([i \in DOMAIN kept |-> tables[kept[i]]],
                                   Opened(1, file))
                       ELSE tables
        /\ UNCHANGED <<list, frames, nextSeq, cursor, due, iter, faults>>

-----------------------------------------------------------------------------
(* DB: reading.                                                              *)

\* Mutant of Newer: the sequence numbers are not compared.
NewerOrLast(best, e) == TRUE

\* The answer of a table is taken over one found before only if it is newer.
Newer(best, e) == ~best.found \/ e.seq > best.entry.seq

\* The better of two answers, a that of the table asked last.
Better(best, a) == IF a.found /\ Newer(best, a.entry) THEN a ELSE best

\* DB.Get: the list answers alone for a key it holds; otherwise every table is
\* asked, the newest first, and an error of any is the answer.
DBGet(key) ==
    LET mine    == MemGet(list, key)
        answers == [i \in DOMAIN tables |->
                       Get(tables[Len(tables) + 1 - i].file, tables[Len(tables) + 1 - i].bad, key)]
    IN  IF mine.seq > 0 THEN Found(EntryOf(key, mine))
        ELSE IF \E i \in DOMAIN answers : answers[i].err THEN ReadError
        ELSE FoldLeft(Better, NotFound, answers)

\* collectMerged: a map from keys to candidates, updated by every entry of the
\* list and then of each table; what is deleted is dropped, the rest is sorted.
Update(m, e) ==
    IF e.key \in DOMAIN m /\ m[e.key].seq >= e.seq THEN m
    ELSE [k \in DOMAIN m \cup {e.key} |-> IF k = e.key THEN e ELSE m[k]]

CollectMerged ==
    LET all == FoldLeft(Update, [k \in {} |-> EntryOf(k, NoVersion)],
                        Snapshot(list) \o FlattenSeq([i \in DOMAIN tables |-> ScanOf(tables[i])]))
        keys == InOrder({k \in DOMAIN all : all[k].val # Tombstone}, KeyLess)
    IN  [i \in DOMAIN keys |-> [key |-> keys[i], val |-> all[keys[i]].val]]

\* The caller lets go of the cursor it had.
NewIterator ==
    /\ iter' = [items |-> CollectMerged, idx |-> 0]
    /\ cursor' = NoCursor /\ due' = {}
    /\ UNCHANGED <<list, frames, nextSeq, tables, refused, faults>>

MoveTo(idx) ==
    /\ iter' = [iter EXCEPT !.idx = idx]
    /\ UNCHANGED <<list, frames, nextSeq, tables, refused, cursor, due, faults>>

SeekToFirst == MoveTo(IF iter.items = <<>> THEN 0 ELSE 1)
Seek(target) == MoveTo(SelectInSeq(iter.items, LAMBDA x : ~KeyLess(x.key, target)))

\* Mutant of IterNext: the end is not looked at.
IterNextPast  == iter.idx > 0 /\ MoveTo(iter.idx + 1)
IterNext      == iter.idx > 0 /\ MoveTo(IF iter.idx + 1 > Len(iter.items) THEN 0 ELSE iter.idx + 1)

-----------------------------------------------------------------------------
(* memtable.Iterator.                                                        *)

\* due: the keys the list has now, from where the cursor stands on.
StandAt(c) ==
    /\ cursor' = c
    /\ due' = IF c.valid THEN {k \in Nodes(list) : KeyLess(c.at, k)} ELSE {}
    /\ iter' = NoItems
    /\ UNCHANGED <<list, frames, nextSeq, tables, refused, faults>>

MemNewIterator  == StandAt(NewCursor)
MemSeekToFirst  == StandAt(ToFirst(list))
MemSeek(target) == StandAt(ToNode(list, target))

MemNext ==
    /\ cursor.valid
    /\ cursor' = Advance(list, cursor)
    /\ due' = due \ {cursor'.at}
    /\ UNCHANGED <<list, frames, nextSeq, tables, refused, iter, faults>>

-----------------------------------------------------------------------------
Next ==
    \/ \E ops \in Batches, heights \in Heights : Write(ops, heights)
    \/ \E heights \in Heights : Restart(heights)
    \/ \E i \in DOMAIN tables : Damage(i)
    \/ Flush \/ Compact
    \/ \E target \in Targets : Seek(target) \/ MemSeek(target)
    \/ NewIterator \/ SeekToFirst \/ IterNext
    \/ MemNewIterator \/ MemSeekToFirst \/ MemNext

Spec == Init /\ [][Next]_vars

-----------------------------------------------------------------------------
(* Properties.                                                               *)

Entry == [key : Keys, seq : 1 .. MaxSeq, val : Contents]

TypeOK ==
    /\ Nodes(list) \subseteq Keys
    /\ list.entry \in [Nodes(list) -> Version]
    /\ nextSeq \in 0 .. MaxSeq
    /\ frames \in Seq(Frame)
    /\ \A i \in DOMAIN tables :
          /\ tables[i].level \in {0, 1}
          /\ tables[i].bad \subseteq DOMAIN tables[i].file.blocks
          /\ ToSet(Scan(tables[i].file, {})) \subseteq Entry
    /\ due \subseteq Keys
    /\ iter.idx \in 0 .. Len(iter.items)

\* The list is ordered at every level and each level is a part of the one below,
\* whatever heights were drawn and however writes, flushes and replays mixed.
TowersAgree == LevelsNested(list)

\* The size that decides when to flush is the size of what is held.
BytesAgree == Accounted(list)

\* No flush and no compaction is ever refused by the Writer for the order of its
\* entries: no key is below the one before it, whatever was replayed and merged.
\* (Keys have a byte or more here.  For the other refusal of Writer.Add, that of a
\* nil key, which does happen, see LSMKV!FlushFinish.)
NeverRefused == ~refused

\* In every table, written by a flush or a merge, a lookup through the filter,
\* the index and the restart points finds what reading the whole table finds,
\* for keys that are there and keys that are not, and so does a Seek; a block
\* that cannot be read makes a lookup fail, and never makes it lie.
SearchAgrees ==
    \A i \in DOMAIN tables, key \in Targets :
        LET f    == tables[i].file
            all  == Scan(f, {})
            from == SelectInSeq(all, LAMBDA e : ~KeyLess(e.key, key))
            hit  == from # 0 /\ all[from].key = key
            got  == Get(f, tables[i].bad, key)
        IN  /\ got.err => tables[i].bad # {}
            /\ ~got.err => got = IF hit THEN Found(all[from]) ELSE NotFound
            /\ ScanFrom(f, {}, key) = IF from = 0 THEN <<>> ELSE SubSeq(all, from, Len(all))

\* What the Writer reports of a table, and the manifest keeps of it (the numbering
\* of a restart starts above maxSeq): its bounds, its size, its highest number.
MetaAgrees ==
    \A i \in DOMAIN tables :
        LET f == tables[i].file
            all == Scan(f, {})
        IN  /\ f.entries = Len(all) /\ f.entries = Cardinality({e.key : e \in ToSet(all)})
            /\ f.maxSeq = HighestSeq({e.seq : e \in ToSet(all)})
            /\ all # <<>> => f.minKey = all[1].key /\ f.maxKey = all[Len(all)].key

\* Get answers for every key, stored or not, with the newest version that the list
\* or any table holds, whatever the order of the tables, or fails because a block
\* is damaged: no lookup hides a version that a full read would find.
GetExact ==
    \A key \in Targets :
        LET newest == Newest({MemGet(list, key)} \cup
                             {VersionOf(e) : e \in {x \in UNION {ToSet(Scan(tables[i].file, {})) :
                                                        i \in DOMAIN tables} : x.key = key}})
            got == DBGet(key)
        IN  IF got.err THEN \E i \in DOMAIN tables : tables[i].bad # {}
            ELSE got.entry.val = newest.val

\* A walk along the list with the lock released between its calls shows every
\* key that was there when it started, although writes, flushes and the Clear
\* that ends them come in between.
CursorComplete ==
    IF cursor.valid THEN \A k \in due : KeyLess(cursor.at, k) ELSE due = {}

\* Every word is read back from its encoding, whatever byte follows it in the
\* file, and a part of the encoding is an error; any bytes at all decode to the
\* number they denote, or, if that is no word, to an overflow: no bit is dropped.
\* (A fact about constants, looked at before the first write.)
VarintExact == nextSeq = 0 => WordsReadBack

-----------------------------------------------------------------------------
(* The refinement.                                                           *)

ListTable == [k \in Keys |-> MemGet(list, k)]

Store == INSTANCE TableStore WITH
    Writes <- Batches, mem <- ListTable, log <- frames, seq <- nextSeq,
    tabs   <- [i \in DOMAIN tables |->
                 [level |-> tables[i].level,
                  data  |-> tables[i].data,
                  sound |-> tables[i].bad = {}]],
    shown  <- [k \in Keys |->
                 LET n == SelectInSeq(iter.items, LAMBDA x : x.key = k)
                 IN  IF n = 0 THEN Tombstone ELSE iter.items[n].val],
    at     <- IF iter.idx = 0 THEN NoKey ELSE iter.items[iter.idx].key

\* The skip list, the tables, the merge and the iterators are, step by step, the
\* functions LSMKV works with: nothing is lost, invented, resurrected or out of
\* order in any chain of writes, flushes, replays and compactions, and an
\* unreadable block costs a merge the end of its own table only.
ImplementsTableStore == Store!TSSpec
=============================================================================
