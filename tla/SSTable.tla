-------------------------------- MODULE SSTable -----------------------------
(***************************************************************************)
(* internal/sstable: a sorted table in a file, as its Writer builds it and *)
(* its Reader reads it.                                                    *)
(*                                                                         *)
(* A file is a sequence of blocks, an index that has the last key of each, *)
(* and a Bloom filter.  Inside a block an entry stores only the bytes its  *)
(* key does not share with the key before it, except at restart points,    *)
(* which a lookup finds by binary search and decodes forward from.         *)
(* Offsets are counted in entries and blocks, not in bytes; a block whose  *)
(* checksum fails, or that cannot be read, is one of the file's "bad"      *)
(* blocks.                                                                 *)
(***************************************************************************)
EXTENDS Versions, KeyOrder, Bloom

CONSTANTS
    BlockSize,          \* WriterOptions.BlockSize, in the units of CellSize
    RestartInterval     \* WriterOptions.RestartInterval

ASSUME SSTableAssumption == BlockSize \in Nat \ {0} /\ RestartInterval \in Nat \ {0}

\* What an SSTable is made from: Entry.  A table of Versions as entries.
EntryOf(key, version) == [key |-> key, seq |-> version.seq, val |-> version.val]
\* Back again: one entry per key.
TableOfEntries(es) ==
    [k \in Keys |->
        LET n == SelectInSeq(es, LAMBDA e : e.key = k)
        IN  IF n = 0 THEN NoVersion ELSE VersionOf(es[n])]

-----------------------------------------------------------------------------
(* Writing.                                                                  *)

NewWriter ==
    [ok |-> TRUE,                           \* no Add was refused
     blocks |-> <<>>, index |-> <<>>,       \* what is in the file
     cells |-> <<>>, restarts |-> <<>>,     \* the block being built
     lastKey |-> NoKey, minKey |-> NoKey,
     keys |-> {}, maxSeq |-> 0, entries |-> 0]

\* The bytes of a cell: its header, the rest of its key, its value.
CellSize(cell) == 1 + Len(cell.suffix) + (IF cell.val = Tombstone THEN 0 ELSE 1)
BufSize(w)     == MapThenSumSet(LAMBDA i : CellSize(w.cells[i]), DOMAIN w.cells)

FlushBlock(w) ==
    IF w.cells = <<>> THEN w ELSE
    [w EXCEPT !.blocks = Append(@, [cells |-> w.cells, restarts |-> w.restarts]),
              !.index = Append(@, w.lastKey),
              !.cells = <<>>, !.restarts = <<>>]

\* A restart point every RestartInterval entries of the block, the first included.
AtRestart(w) == Len(w.cells) % RestartInterval = 0 \/ w.lastKey = NoKey

\* Add refuses nil and what is below the last key.  (It takes a key of length 0 that
\* is not nil; the keys here have a byte or more.)
Accepts(w, e) == e.key # NoKey /\ (w.lastKey = NoKey \/ ~KeyLess(e.key, w.lastKey))

Shared(w, e) == IF AtRestart(w) THEN 0 ELSE SharedPrefixLen(w.lastKey, e.key)

CellOf(e, shared) ==
    [shared |-> shared, suffix |-> SubSeq(e.key, shared + 1, Len(e.key)),
     seq |-> e.seq, val |-> e.val]

Add(w, e) ==
    LET added == [w EXCEPT !.cells = Append(@, CellOf(e, Shared(w, e))),
                           !.restarts = IF AtRestart(w) THEN Append(@, Len(w.cells) + 1) ELSE @,
                           !.lastKey = e.key,
                           !.minKey = IF @ = NoKey THEN e.key ELSE @,
                           !.keys = @ \cup {e.key},
                           !.maxSeq = Larger(@, e.seq),
                           !.entries = @ + 1]
    IN  CASE ~w.ok \/ ~Accepts(w, e)    -> [w EXCEPT !.ok = FALSE]
          [] BufSize(added) >= BlockSize -> FlushBlock(added)
          [] OTHER                       -> added

\* The file, and the Meta that goes into the manifest.
Finish(w) ==
    LET f == FlushBlock(w)
    IN  [ok |-> f.ok, blocks |-> f.blocks, index |-> f.index,
         filter |-> Build(f.keys, f.entries),
         minKey |-> f.minKey, maxKey |-> f.lastKey, maxSeq |-> f.maxSeq, entries |-> f.entries]

WriteFile(es) == Finish(FoldLeft(Add, NewWriter, es))

-----------------------------------------------------------------------------
(* Reading a block: blockIter.                                               *)

\* The key grows out of the key before it.
BlockNext(b, it) ==
    IF it.off > Len(b.cells) THEN [it EXCEPT !.valid = FALSE] ELSE
    LET c == b.cells[it.off]
    IN  [off |-> it.off + 1, valid |-> TRUE,
         key |-> SubSeq(it.key, 1, c.shared) \o c.suffix, seq |-> c.seq, val |-> c.val]

\* Decoding starts at a restart point, with no key.
BlockAt(b, off) ==
    BlockNext(b, [off |-> off, valid |-> FALSE, key |-> NoKey, seq |-> 0, val |-> Tombstone])

\* Every entry of the block from offset off on.
BlockFrom(b, off) ==
    LET at[i \in off .. Len(b.cells)] ==
            IF i = off THEN BlockAt(b, off) ELSE BlockNext(b, at[i - 1])
    IN  [i \in 1 .. Len(b.cells) + 1 - off |-> at[off + i - 1]]

\* Mutant of SeekTurn: the search moves right of the last restart point not above
\* the target.
SeekTurnAfter(b, target, s) ==
    IF s.lo >= s.hi THEN s ELSE
    LET mid == (s.lo + s.hi) \div 2
    IN  IF KeyLess(target, BlockAt(b, b.restarts[mid]).key)
          THEN [s EXCEPT !.hi = mid] ELSE [s EXCEPT !.lo = mid + 1]

\* A turn of the binary search of blockIter.Seek, for the last restart point not
\* above the target: it is one from lo to hi.
SeekTurn(b, target, s) ==
    IF s.lo >= s.hi THEN s ELSE
    LET mid == (s.lo + s.hi + 1) \div 2
    IN  IF KeyLess(target, BlockAt(b, b.restarts[mid]).key)
          THEN [s EXCEPT !.hi = mid - 1] ELSE [s EXCEPT !.lo = mid]

\* The search ends after as many turns as there are restart points, or before.
RestartFor(b, target) ==
    LET n == Len(b.restarts)
        after[t \in 0 .. n] ==
            IF t = 0 THEN [lo |-> 1, hi |-> n] ELSE SeekTurn(b, target, after[t - 1])
    IN  after[n].lo

\* blockIter.Seek: the entries from the first one not below the target on.
BlockSeek(b, target) ==
    LET from == BlockFrom(b, b.restarts[RestartFor(b, target)])
        n    == SelectInSeq(from, LAMBDA it : ~KeyLess(it.key, target))
    IN  IF n = 0 THEN <<>> ELSE SubSeq(from, n, Len(from))

EntryAt(it) == [key |-> it.key, seq |-> it.seq, val |-> it.val]
EntriesAt(its) == [i \in DOMAIN its |-> EntryAt(its[i])]

-----------------------------------------------------------------------------
(* Reading a file.  f is the file, bad the numbers of its unreadable blocks. *)

\* The first block whose last key is not below the target, 0 if there is none.
BlockFor(f, target) == SelectInSeq(f.index, LAMBDA last : ~KeyLess(last, target))

Found(e)  == [err |-> FALSE, found |-> TRUE, entry |-> e]
NotFound  == [err |-> FALSE, found |-> FALSE, entry |-> EntryOf(NoKey, NoVersion)]
ReadError == [err |-> TRUE, found |-> FALSE, entry |-> EntryOf(NoKey, NoVersion)]

\* Reader.Get.
Get(f, bad, key) ==
    LET n == BlockFor(f, key)
    IN  IF ~MayContain(f.filter, key) \/ n = 0 THEN NotFound
        ELSE IF n \in bad THEN ReadError
        ELSE LET its == BlockSeek(f.blocks[n], key)
             IN  IF its # <<>> /\ its[1].key = key THEN Found(EntryAt(its[1])) ELSE NotFound

\* The blocks an Iterator reads from block n on: it ends at the first it cannot
\* read, and Valid no more tells that from the end of the file.
ReadableFrom(f, bad, n) == n .. Min({m \in bad : m >= n} \cup {Len(f.blocks) + 1}) - 1

EntriesFrom(f, bad, n) ==
    LET blocks == ReadableFrom(f, bad, n)
    IN  FlattenSeq([i \in 1 .. Cardinality(blocks) |-> EntriesAt(BlockFrom(f.blocks[n + i - 1], 1))])

\* NewIterator and Next, up to the end.
Scan(f, bad) == EntriesFrom(f, bad, 1)

\* Iterator.Seek, and Next up to the end.
ScanFrom(f, bad, target) ==
    LET n == BlockFor(f, target)
    IN  IF n = 0 \/ n \in bad THEN <<>>
        ELSE EntriesAt(BlockSeek(f.blocks[n], target)) \o EntriesFrom(f, bad, n + 1)
=============================================================================
