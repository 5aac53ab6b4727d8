------------------------------ MODULE TableStore ----------------------------
(***************************************************************************)
(* What LSMKV takes the memtable and the SSTables to be, with no skip      *)
(* list, block, index, filter or heap in sight: functions from keys to     *)
(* versions, written by MemApply and merged by MergeTables, and iterators  *)
(* that go through the keys of such a function in order.                   *)
(***************************************************************************)
EXTENDS Versions, KeyOrder

CONSTANTS
    Writes,     \* the sequences of [key, val] clients may write
    Targets     \* the keys they may seek to

VARIABLES
    mem,        \* the memtable
    log,        \* the frames in the log
    seq,        \* the last sequence number given out
    tabs,       \* the tables, oldest first: [level, data, sound]
    shown,      \* what the iterator shows: the content of each key
    at          \* the key the iterator stands on, NoKey for none

tsVars == <<mem, log, seq, tabs, shown, at>>

Nothing == [k \in Keys |-> Tombstone]

MemInit == mem = EmptyTable /\ log = <<>> /\ seq = 0

TSInit ==
    /\ MemInit /\ tabs = <<>>
    /\ shown = Nothing /\ at = NoKey

Numbered(ops, last) ==
    [i \in DOMAIN ops |-> [key |-> ops[i].key, seq |-> last + i, val |-> ops[i].val]]

\* The memtable and the log: a write goes to both; a flush empties the one, and
\* truncates the other or fails to; a restart replays the log.
MemWrite ==
    \E ops \in Writes :
       /\ seq' = seq + Len(ops)
       /\ log' = Append(log, Numbered(ops, seq))
       /\ mem' = MemApply(mem, Numbered(ops, seq))

MemFlush ==
    /\ KeysIn(mem) # {}
    /\ mem' = EmptyTable
    /\ log' \in {<<>>, log}
    /\ UNCHANGED seq

MemRestart ==
    /\ mem' = TableOf(FrameRecords(ToSet(log)))
    /\ UNCHANGED <<seq, log>>

\* What the tables and the iterators are built upon.
MemSpec == MemInit /\ [][MemWrite \/ MemFlush \/ MemRestart]_<<mem, log, seq>>

\* Write, Flush, Restart, Damage and Compact do not touch the iterator, or end it.
Kept    == UNCHANGED <<shown, at>>
Dropped == shown' = Nothing /\ at' = NoKey

TSWrite == Kept /\ MemWrite /\ UNCHANGED tabs

TSFlush ==
    /\ Kept
    /\ MemFlush
    /\ tabs' = Append(tabs, [level |-> 0, data |-> mem, sound |-> TRUE])

\* The iterators of the process that ended are gone.
TSRestart ==
    /\ Dropped
    /\ MemRestart
    /\ UNCHANGED tabs

TSDamage ==
    /\ Kept
    /\ UNCHANGED <<seq, log, mem>>
    /\ LET old == tabs
       IN  tabs' \in {[old EXCEPT ![i].sound = FALSE] : i \in DOMAIN old}

\* What one pass over a table may deliver: all of it, or, if a part of it cannot
\* be read, what comes before some key.
Passes(tab) ==
    {tab.data} \cup
    {[k \in Keys |-> IF KeyLess(k, end) THEN tab.data[k] ELSE NoVersion] :
        end \in IF tab.sound THEN {} ELSE Keys}

\* What a merge of tables and of other data may come to, one pass over each.
MergedWith(others, tables) ==
    LET merged[i \in 0 .. Len(tables)] ==
            IF i = 0 THEN {MergeTables(others)}
            ELSE {MergeTables({t, pass}) : t \in merged[i - 1], pass \in Passes(tables[i])}
    IN  merged[Len(tables)]

\* The merged tables are replaced by one of a higher level.
TSCompact ==
    /\ Kept
    /\ UNCHANGED <<seq, log, mem>>
    /\ LET old == tabs  new == tabs'
       IN  /\ Len(new) < Len(old)
           /\ \E idxs \in SUBSET DOMAIN old :
                 LET Rest(S) == [i \in 1 .. Cardinality(S) |-> old[InOrder(S, <)[i]]]
                 IN  /\ Cardinality(idxs) = Len(old) - Len(new) + 1
                     /\ Front(new) = Rest(DOMAIN old \ idxs)
                     /\ Last(new).level = 1 /\ Last(new).sound
                     /\ Last(new).data \in MergedWith({}, Rest(idxs))

-----------------------------------------------------------------------------
(* The iterator: a snapshot of what a reader sees, and a place in it.        *)

Least(ks) == IF ks = {} THEN NoKey ELSE CHOOSE k \in ks : \A j \in ks \ {k} : KeyLess(k, j)
Present   == {k \in Keys : shown[k] # Tombstone}

TSNewIterator ==
    /\ at' = NoKey
    /\ UNCHANGED <<seq, log, mem, tabs>>
    /\ \E t \in MergedWith({mem}, tabs) : shown' = Visible(t)

TSSeek ==
    /\ UNCHANGED <<seq, log, shown, mem, tabs>>
    /\ at' = Least(Present)
       \/ \E target \in Targets : at' = Least({k \in Present : ~KeyLess(k, target)})

TSNext ==
    /\ at # NoKey
    /\ UNCHANGED <<seq, log, shown, mem, tabs>>
    /\ at' = Least({k \in Present : KeyLess(at, k)})

\* The caller lets go of the iterator.
TSDrop == Dropped /\ UNCHANGED <<seq, log, mem, tabs>>

TSStep ==
    \/ TSWrite \/ TSFlush \/ TSRestart \/ TSDamage \/ TSCompact
    \/ TSSeek \/ TSNext \/ TSDrop \/ TSNewIterator

TSSpec == TSInit /\ [][TSStep]_tsVars
=============================================================================
