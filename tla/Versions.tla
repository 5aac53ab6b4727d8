------------------------------ MODULE Versions ------------------------------
(***************************************************************************)
(* Keys, values, versions and tables: the data every component of the      *)
(* engine moves around.  A write is stamped with a sequence number when it *)
(* enters the write-ahead log, and from then on every component resolves   *)
(* conflicts by that number: the skip list (internal/memtable), the merge  *)
(* of SSTables (internal/compact) and the readers of lsmkv.DB.             *)
(*                                                                         *)
(* Keys and values are opaque: no code below looks inside them except for  *)
(* their order, which no definition here depends on.                       *)
(***************************************************************************)
EXTENDS Integers, FiniteSets, SequencesExt

CONSTANTS
    Keys,       \* the user keys
    Vals,       \* the user values
    Tombstone   \* what a Delete records in the place of a value

ASSUME VersionsAssumption == IsFiniteSet(Keys) /\ Tombstone \notin Vals

Contents == Vals \cup {Tombstone}

\* A version of one key.  Sequence numbers start at 1 (allocSeq increments
\* before it returns), so 0 marks a key a table holds nothing for.
Version   == [seq : Nat, val : Contents]
NoVersion == [seq |-> 0, val |-> Tombstone]

\* A table maps every key to the one version it holds for it: the content of
\* the memtable, and of an SSTable, which has one entry per key.
Table      == [Keys -> Version]
EmptyTable == [k \in Keys |-> NoVersion]

\* A record of the log, and a frame: one record of a Put or a Delete, several of
\* a WriteBatch.  The records of a frame are stored and replayed together.
Record == [key : Keys, seq : Nat, val : Contents]
Frame  == Seq(Record) \ {<<>>}

VersionOf(r) == [seq |-> r.seq, val |-> r.val]

\* The version with the highest sequence number, NoVersion if there is none.
Newest(versions) ==
    LET top == {v \in versions : \A w \in versions : w.seq =< v.seq}
    IN  IF top = {} THEN NoVersion ELSE CHOOSE v \in top : TRUE

\* The highest of a set of sequence numbers, 0 if there is none.
HighestSeq(seqs) ==
    LET top == {s \in seqs : \A t \in seqs : t =< s}
    IN  IF top = {} THEN 0 ELSE CHOOSE s \in top : TRUE

Larger(m, n) == IF m < n THEN n ELSE m

Holds(t, k)  == t[k].seq > 0
KeysIn(t)    == {k \in Keys : Holds(t, k)}
MaxSeqOf(t)  == HighestSeq({t[k].seq : k \in Keys})

\* What a reader of one set of records, or of one set of tables, must answer.
TableOf(records) ==
    [k \in Keys |-> Newest({VersionOf(r) : r \in {s \in records : s.key = k}})]
\* Mutant of MergeTables: tombstones are left out of the merge, and what they
\* hide is back.
MergeValuesOnly(ts) ==
    [k \in Keys |-> Newest({v \in {t[k] : t \in ts} : v.val # Tombstone})]
MergeTables(ts) == [k \in Keys |-> Newest({t[k] : t \in ts})]

\* Mutant of MemApply: the version held first stays.
MemApplyFirstWins(t, frame) ==
    [k \in Keys |-> IF Holds(t, k) THEN t[k] ELSE TableOf(ToSet(frame))[k]]

\* Put and Delete on the skip list, for all the records of a frame in order: a
\* version replaces the one held unless that one is newer.
MemApply(t, frame) ==
    [k \in Keys |-> Newest({t[k]} \cup
                           {VersionOf(r) : r \in {s \in ToSet(frame) : s.key = k}})]

\* MemTable.Bytes: one unit per key held and one more per value held, since a
\* tombstone is charged for its key only.
MemBytes(t) ==
    Cardinality(KeysIn(t)) + Cardinality({k \in KeysIn(t) : t[k].val # Tombstone})

\* The value a reader sees: tombstones and unknown keys both read as not found.
Visible(t) == [k \in Keys |-> t[k].val]

\* The sequence number that ends a frame, the highest it carries.
LastSeq(frame) == frame[Len(frame)].seq

FrameRecords(fs) == UNION {ToSet(f) : f \in fs}
=============================================================================
