----------------------------- MODULE TableProofs ---------------------------
(***************************************************************************)
(* The tables of DataPath, for every set of keys, batches, heights, sizes  *)
(* of blocks and distances of restart points: what the Writer puts into a  *)
(* file, what a reader gets back out of it, and what a merge delivers.     *)
(*                                                                         *)
(* A file that holds the entries es is described by the places its blocks  *)
(* end at: block b holds es[cuts[b - 1] + 1] to es[cuts[b]].               *)
(***************************************************************************)
EXTENDS ListProofs

-----------------------------------------------------------------------------
(* A block and the entries it was made from.                                 *)

Cell  == [shared : Nat, suffix : Seq(Nat), seq : Nat, val : Contents]
Block == [cells : Seq(Cell), restarts : Seq(Nat)]

\* The jth cell of a block that starts after es[lo]: what it leaves out of its
\* key is what that key shares with the one before it.
Fits(c, es, lo, j) ==
    LET e == es[lo + j]
    IN  /\ c.shared \in 0 .. Len(e.key) /\ c = CellOf(e, c.shared)
        /\ c.shared # 0 => /\ j > 1 /\ c.shared =< Len(es[lo + j - 1].key)
                           /\ SubSeq(es[lo + j - 1].key, 1, c.shared) = SubSeq(e.key, 1, c.shared)

\* The block b holds the entries after es[lo], up to es[hi]; the first is a
\* restart point, and restart points leave nothing out.
Encodes(b, es, lo, hi) ==
    /\ b \in Block /\ Len(b.cells) = hi - lo
    /\ \A j \in 1 .. hi - lo : Fits(b.cells[j], es, lo, j)
    /\ hi > lo => Len(b.restarts) >= 1 /\ b.restarts[1] = 1
    /\ \A r \in 1 .. Len(b.restarts) :
          b.restarts[r] \in 1 .. hi - lo /\ b.cells[b.restarts[r]].shared = 0

Ascending(es) == \A i \in 2 .. Len(es) : KeyLess(es[i - 1].key, es[i].key)

LEMMA RecordsAre ==
    ASSUME NEW es \in Seq(Record)
    PROVE  /\ Len(es) \in Nat /\ DOMAIN es = 1 .. Len(es)
           /\ \A i \in 1 .. Len(es) :
                 /\ es[i] \in Record /\ es[i].key \in Keys /\ es[i].seq \in Nat /\ es[i].val \in Contents
                 /\ es[i].key \in Key /\ es[i].key # NoKey /\ Len(es[i].key) \in Nat
  <1>1. /\ Len(es) \in Nat /\ DOMAIN es = 1 .. Len(es)
        /\ \A i \in 1 .. Len(es) : es[i] \in Record
    OBVIOUS
  <1>2. \A r \in Record : r.key \in Keys /\ r.seq \in Nat /\ r.val \in Contents
    BY DEF Record
  <1>3. \A k \in Keys : k \in Key /\ k # NoKey
    BY KeysAreKeys
  <1>4. \A k \in Key : Len(k) \in Nat
    BY DEF Key
  <1> QED
    BY <1>1, <1>2, <1>3, <1>4

\* More entries leave the blocks that are there as they are.
LEMMA EncodesMore ==
    ASSUME NEW es \in Seq(Record), NEW e \in Record, NEW b, NEW lo \in Nat, NEW hi \in Nat,
           hi =< Len(es), Encodes(b, es, lo, hi)
    PROVE  Encodes(b, Append(es, e), lo, hi)
  <1> DEFINE fs == Append(es, e)
  <1>1. Len(es) \in Nat /\ \A i \in 1 .. Len(es) : fs[i] = es[i]
    OBVIOUS
  <1> HIDE DEF fs
  <1>2. \A j \in 1 .. hi - lo : Fits(b.cells[j], fs, lo, j)
    <2> TAKE j \in 1 .. hi - lo
    <2>1. Fits(b.cells[j], es, lo, j)
      BY DEF Encodes
    <2>2. lo + j \in 1 .. Len(es) /\ (j > 1 => lo + j - 1 \in 1 .. Len(es))
      BY <1>1
    <2>3. fs[lo + j] = es[lo + j] /\ (j > 1 => fs[lo + j - 1] = es[lo + j - 1])
      BY <1>1, <2>2
    <2> QED
      BY <2>1, <2>3 DEF Fits
  <1> QED
    BY <1>2 DEF Encodes, fs

-----------------------------------------------------------------------------
(* The Writer.                                                               *)

WriterType ==
    [ok : BOOLEAN, blocks : Seq(Block), index : Seq(Keys), cells : Seq(Cell),
     restarts : Seq(Nat), lastKey : Places, minKey : Places, keys : SUBSET Keys,
     maxSeq : Nat, entries : Nat]

Building(w) == [cells |-> w.cells, restarts |-> w.restarts]

\* The blocks and the index hold es up to the last of the cuts.
Cut(blocks, index, es, cuts) ==
    /\ Len(index) = Len(blocks)
    /\ cuts \in [0 .. Len(blocks) -> 0 .. Len(es)] /\ cuts[0] = 0
    /\ \A b \in 1 .. Len(blocks) :
          /\ cuts[b - 1] < cuts[b] /\ index[b] = es[cuts[b]].key
          /\ Encodes(blocks[b], es, cuts[b - 1], cuts[b])

\* What the Writer keeps of es beside the blocks.
LastOf(es)  == IF es = <<>> THEN NoKey ELSE es[Len(es)].key
FirstOf(es) == IF es = <<>> THEN NoKey ELSE es[1].key
KeysOf(es)  == {es[i].key : i \in 1 .. Len(es)}
TopOf(es, n) ==
    /\ \A i \in 1 .. Len(es) : es[i].seq =< n
    /\ n = 0 \/ \E i \in 1 .. Len(es) : es[i].seq = n

\* The Writer w accepted es.
Built(w, es, cuts) ==
    /\ w \in WriterType /\ w.ok
    /\ Cut(w.blocks, w.index, es, cuts)
    /\ Encodes(Building(w), es, cuts[Len(w.blocks)], Len(es))
    /\ w.lastKey = LastOf(es) /\ w.minKey = FirstOf(es) /\ w.keys = KeysOf(es)
    /\ w.entries = Len(es) /\ TopOf(es, w.maxSeq)

Taken(w, es) == es \in Seq(Record) /\ Ascending(es) /\ \E cuts : Built(w, es, cuts)

LEMMA CellOfType ==
    ASSUME NEW e \in Record, NEW s \in 0 .. Len(e.key)
    PROVE  CellOf(e, s) \in Cell /\ CellOf(e, s).shared = s
  <1>1. e.key \in Seq(Nat) /\ e.seq \in Nat /\ e.val \in Contents
    BY KeysAreKeys DEF Record, Key
  <1>2. SubSeq(e.key, s + 1, Len(e.key)) \in Seq(Nat)
    <2>1. Len(e.key) \in Nat /\ \A i \in s + 1 .. Len(e.key) : e.key[i] \in Nat
      BY <1>1
    <2> QED
      BY <2>1, SubSeqProperties
  <1> QED
    BY <1>1, <1>2 DEF CellOf, Cell

LEMMA SharedPrefixes ==
    ASSUME NEW a \in Key, NEW b \in Key
    PROVE  LET n == SharedPrefixLen(a, b)
           IN  /\ n \in 0 .. Len(b) /\ n =< Len(a)
               /\ SubSeq(a, 1, n) = SubSeq(b, 1, n)
  <1>1. PICK n : n = SharedPrefixLen(a, b)
    OBVIOUS
  <1>2. /\ n \in Nat /\ n =< Len(a) /\ n =< Len(b)
        /\ \A i \in 1 .. n : a[i] = b[i]
        /\ Len(a) \in Nat /\ Len(b) \in Nat
    BY <1>1, KeyLessIs
  <1>3. \A i \in 1 .. n : a[i] \in Nat /\ b[i] \in Nat
    BY <1>2 DEF Key
  <1>4. /\ SubSeq(a, 1, n) \in Seq(Nat) /\ Len(SubSeq(a, 1, n)) = n
        /\ \A i \in 1 .. n : SubSeq(a, 1, n)[i] = a[i]
    <2>1. /\ SubSeq(a, 1, n) \in Seq(Nat)
          /\ Len(SubSeq(a, 1, n)) = (IF 1 <= n THEN n - 1 + 1 ELSE 0)
          /\ \A i \in 1 .. n - 1 + 1 : SubSeq(a, 1, n)[i] = a[1 + i - 1]
      BY <1>2, <1>3, SubSeqProperties
    <2> QED
      BY <2>1, <1>2
  <1>5. /\ SubSeq(b, 1, n) \in Seq(Nat) /\ Len(SubSeq(b, 1, n)) = n
        /\ \A i \in 1 .. n : SubSeq(b, 1, n)[i] = b[i]
    <2>1. /\ SubSeq(b, 1, n) \in Seq(Nat)
          /\ Len(SubSeq(b, 1, n)) = (IF 1 <= n THEN n - 1 + 1 ELSE 0)
          /\ \A i \in 1 .. n - 1 + 1 : SubSeq(b, 1, n)[i] = b[1 + i - 1]
      BY <1>2, <1>3, SubSeqProperties
    <2> QED
      BY <2>1, <1>2
  <1>6. SubSeq(a, 1, n) = SubSeq(b, 1, n)
    BY <1>2, <1>4, <1>5, SeqEqual
  <1> QED
    BY <1>1, <1>2, <1>6

\* The first cell of a block leaves nothing out of its key.
LEMMA SharedFits ==
    ASSUME NEW w, NEW es \in Seq(Record), NEW e \in Record, NEW lo \in 0 .. Len(es),
           w.cells \in Seq(Cell), Len(w.cells) = Len(es) - lo, w.lastKey = LastOf(es)
    PROVE  LET fs == Append(es, e)
               c  == CellOf(e, Shared(w, e))
           IN  /\ c \in Cell /\ Fits(c, fs, lo, Len(es) + 1 - lo)
               /\ AtRestart(w) => c.shared = 0
               /\ lo = Len(es) => AtRestart(w)
  <1>1. PICK fs : fs = Append(es, e)
    OBVIOUS
  <1>2. PICK s : s = Shared(w, e)
    OBVIOUS
  <1>3. PICK n : n = Len(es)
    OBVIOUS
  <1>4. n \in Nat /\ fs[n + 1] = e /\ \A i \in 1 .. n : fs[i] = es[i]
    BY <1>1, <1>3
  <1>5. e.key \in Key /\ Len(e.key) \in Nat
    BY KeysAreKeys DEF Record, Key
  <1>6. lo = n => AtRestart(w)
    <2>1. 0 % RestartInterval = 0
      BY SSTableAssumption
    <2> QED
      BY <2>1, <1>3, <1>4 DEF AtRestart
  <1>7. CASE AtRestart(w)
    <2>1. s = 0 /\ s \in 0 .. Len(e.key)
      BY <1>2, <1>5, <1>7 DEF Shared
    <2>2. CellOf(e, s) \in Cell /\ CellOf(e, s).shared = 0
      BY <2>1, CellOfType
    <2>3. lo + (n + 1 - lo) = n + 1
      BY <1>3, <1>4
    <2>4. Fits(CellOf(e, s), fs, lo, n + 1 - lo)
      BY <2>1, <2>2, <2>3, <1>4 DEF Fits
    <2> QED
      BY <2>2, <2>4, <1>1, <1>2, <1>3, <1>6
  <1>8. CASE ~AtRestart(w)
    <2>1. w.lastKey # NoKey /\ lo # n /\ s = SharedPrefixLen(w.lastKey, e.key)
      BY <1>2, <1>6, <1>8 DEF AtRestart, Shared
    <2>2. lo < n /\ n \in 1 .. n /\ lo \in Nat
      BY <2>1, <1>3, <1>4
    <2>3. w.lastKey = es[n].key /\ w.lastKey \in Key /\ fs[n] = es[n]
      BY <2>1, <2>2, <1>3, <1>4, RecordsAre DEF LastOf
    <2>4. /\ s \in 0 .. Len(e.key) /\ s =< Len(w.lastKey)
          /\ SubSeq(w.lastKey, 1, s) = SubSeq(e.key, 1, s)
      BY <2>1, <2>3, <1>5, SharedPrefixes
    <2>5. CellOf(e, s) \in Cell /\ CellOf(e, s).shared = s
      BY <2>4, CellOfType
    <2>6. lo + (n + 1 - lo) = n + 1 /\ lo + (n + 1 - lo) - 1 = n /\ n + 1 - lo > 1
      BY <2>2, <1>4
    <2>7. Fits(CellOf(e, s), fs, lo, n + 1 - lo)
      BY <2>3, <2>4, <2>5, <2>6, <1>4 DEF Fits
    <2> QED
      BY <2>5, <2>7, <1>1, <1>2, <1>3, <1>6, <1>8
  <1> QED
    BY <1>7, <1>8

\* A cell more in the block being built.
LEMMA CellMore ==
    ASSUME NEW es \in Seq(Record), NEW e \in Record, NEW lo \in 0 .. Len(es), NEW b,
           Encodes(b, es, lo, Len(es)), NEW c \in Cell, NEW at \in BOOLEAN,
           Fits(c, Append(es, e), lo, Len(es) + 1 - lo), at => c.shared = 0, lo = Len(es) => at
    PROVE  Encodes([cells |-> Append(b.cells, c),
                    restarts |-> IF at THEN Append(b.restarts, Len(b.cells) + 1) ELSE b.restarts],
                   Append(es, e), lo, Len(es) + 1)
  <1>1. PICK fs : fs = Append(es, e)
    OBVIOUS
  <1>2. PICK n : n = Len(es)
    OBVIOUS
  <1>3. PICK cells : cells = Append(b.cells, c)
    OBVIOUS
  <1>4. PICK rs : rs = IF at THEN Append(b.restarts, Len(b.cells) + 1) ELSE b.restarts
    OBVIOUS
  <1>5. n \in Nat /\ lo \in 0 .. n
    BY <1>2
  <1>6. Encodes(b, fs, lo, n)
    BY <1>1, <1>2, <1>5, EncodesMore
  <1>7. b.cells \in Seq(Cell) /\ b.restarts \in Seq(Nat) /\ Len(b.cells) = n - lo
    BY <1>6 DEF Encodes, Block
  <1>8. /\ cells \in Seq(Cell) /\ Len(cells) = n + 1 - lo /\ cells[n + 1 - lo] = c
        /\ \A j \in 1 .. n - lo : cells[j] = b.cells[j]
    <2>1. /\ cells \in Seq(Cell) /\ Len(cells) = Len(b.cells) + 1 /\ cells[Len(b.cells) + 1] = c
          /\ \A j \in 1 .. Len(b.cells) : cells[j] = b.cells[j]
      BY <1>3, <1>7, AppendProperties
    <2>2. (n - lo) + 1 = n + 1 - lo
      BY <1>5
    <2> QED
      BY <2>1, <2>2, <1>7
  <1>9. \A j \in 1 .. n + 1 - lo : Fits(cells[j], fs, lo, j)
    <2> TAKE j \in 1 .. n + 1 - lo
    <2>1. CASE j = n + 1 - lo
      BY <2>1, <1>1, <1>2, <1>8
    <2>2. CASE j # n + 1 - lo
      <3>1. j \in 1 .. n - lo
        BY <2>2, <1>5
      <3> QED
        BY <3>1, <1>6, <1>8 DEF Encodes
    <2> QED
      BY <2>1, <2>2
  <1>10. /\ \A r \in 1 .. Len(b.restarts) :
               b.restarts[r] \in 1 .. n - lo /\ b.cells[b.restarts[r]].shared = 0
         /\ n > lo => Len(b.restarts) >= 1 /\ b.restarts[1] = 1
    BY <1>6 DEF Encodes
  <1>11. \A r \in 1 .. Len(b.restarts) :
            b.restarts[r] \in 1 .. n + 1 - lo /\ cells[b.restarts[r]].shared = 0
    <2> TAKE r \in 1 .. Len(b.restarts)
    <2>1. b.restarts[r] \in 1 .. n - lo /\ b.cells[b.restarts[r]].shared = 0
      BY <1>10
    <2>2. b.restarts[r] \in 1 .. n + 1 - lo
      BY <2>1, <1>5
    <2> QED
      BY <2>1, <2>2, <1>8
  <1>12. /\ rs \in Seq(Nat) /\ Len(rs) >= 1 /\ rs[1] = 1
         /\ \A r \in 1 .. Len(rs) : rs[r] \in 1 .. n + 1 - lo /\ cells[rs[r]].shared = 0
    <2>1. CASE at
      <3>1. /\ rs \in Seq(Nat) /\ Len(rs) = Len(b.restarts) + 1 /\ rs[Len(b.restarts) + 1] = n + 1 - lo
            /\ \A r \in 1 .. Len(b.restarts) : rs[r] = b.restarts[r]
        <4>1. Len(b.cells) + 1 = n + 1 - lo /\ n + 1 - lo \in Nat
          BY <1>5, <1>7
        <4>2. rs = Append(b.restarts, n + 1 - lo)
          BY <2>1, <4>1, <1>4
        <4> QED
          BY <4>1, <4>2, <1>7, AppendProperties
      <3>2. Len(b.restarts) \in Nat
        BY <1>7
      <3>3. rs[1] = 1
        <4>1. CASE n > lo
          <5>1. 1 \in 1 .. Len(b.restarts)
            BY <4>1, <3>2, <1>10
          <5> QED
            BY <5>1, <4>1, <3>1, <1>10
        <4>2. CASE ~(n > lo)
          <5>1. Len(b.restarts) = 0
            <6> SUFFICES ASSUME Len(b.restarts) # 0 PROVE FALSE
              OBVIOUS
            <6>1. 1 \in 1 .. Len(b.restarts)
              BY <3>2
            <6>2. b.restarts[1] \in 1 .. n - lo
              BY <6>1, <1>10
            <6> QED
              BY <6>2, <4>2, <1>5
          <5>2. n + 1 - lo = 1
            BY <4>2, <1>5
          <5> QED
            BY <5>1, <5>2, <3>1
        <4> QED
          BY <4>1, <4>2
      <3>4. \A r \in 1 .. Len(rs) : rs[r] \in 1 .. n + 1 - lo /\ cells[rs[r]].shared = 0
        <4> TAKE r \in 1 .. Len(rs)
        <4>1. CASE r = Len(b.restarts) + 1
          <5>1. n + 1 - lo \in 1 .. n + 1 - lo
            BY <1>5
          <5> QED
            BY <4>1, <5>1, <3>1, <2>1, <1>8
        <4>2. CASE r # Len(b.restarts) + 1
          <5>1. r \in 1 .. Len(b.restarts)
            BY <4>2, <3>1, <3>2
          <5> QED
            BY <5>1, <3>1, <1>11
        <4> QED
          BY <4>1, <4>2
      <3> QED
        BY <3>1, <3>2, <3>3, <3>4
    <2>2. CASE ~at
      <3>1. rs = b.restarts /\ n > lo
        BY <2>2, <1>2, <1>4, <1>5
      <3> QED
        BY <3>1, <1>7, <1>10, <1>11
    <2> QED
      BY <2>1, <2>2
  <1>13. [cells |-> cells, restarts |-> rs] \in Block
    BY <1>8, <1>12 DEF Block
  <1>14. Encodes([cells |-> cells, restarts |-> rs], fs, lo, n + 1)
    <2>1. PICK d : d = [cells |-> cells, restarts |-> rs]
      OBVIOUS
    <2>2. d.cells = cells /\ d.restarts = rs
      BY <2>1
    <2>3. PICK h : h = n + 1 - lo
      OBVIOUS
    <2>4. (n + 1) - lo = h
      BY <2>3, <1>5
    <2>5. Encodes(d, fs, lo, n + 1)
      BY <2>1, <2>2, <2>3, <2>4, <1>8, <1>9, <1>12, <1>13 DEF Encodes
    <2> QED
      BY <2>1, <2>5
  <1> QED
    BY <1>1, <1>2, <1>3, <1>4, <1>14

LEMMA CutMore ==
    ASSUME NEW es \in Seq(Record), NEW e \in Record, NEW blocks \in Seq(Block),
           NEW index, NEW cuts, Cut(blocks, index, es, cuts)
    PROVE  Cut(blocks, index, Append(es, e), cuts)
  <1>1. PICK fs : fs = Append(es, e)
    OBVIOUS
  <1>2. PICK n : n = Len(es)
    OBVIOUS
  <1>3. n \in Nat /\ Len(fs) = n + 1 /\ Len(blocks) \in Nat /\ \A i \in 1 .. n : fs[i] = es[i]
    BY <1>1, <1>2
  <1>4. cuts \in [0 .. Len(blocks) -> 0 .. n] /\ cuts[0] = 0
    BY <1>2 DEF Cut
  <1>5. \A b \in 1 .. Len(blocks) :
          /\ cuts[b - 1] < cuts[b] /\ index[b] = fs[cuts[b]].key
          /\ Encodes(blocks[b], fs, cuts[b - 1], cuts[b])
    <2> TAKE b \in 1 .. Len(blocks)
    <2>1. /\ cuts[b - 1] < cuts[b] /\ index[b] = es[cuts[b]].key
          /\ Encodes(blocks[b], es, cuts[b - 1], cuts[b])
      BY DEF Cut
    <2>2. b \in 0 .. Len(blocks) /\ b - 1 \in 0 .. Len(blocks)
      BY <1>3
    <2>3. cuts[b] \in 0 .. n /\ cuts[b - 1] \in 0 .. n
      BY <1>4, <2>2
    <2>4. cuts[b] \in 1 .. n /\ cuts[b] \in Nat /\ cuts[b - 1] \in Nat /\ cuts[b] =< n
      BY <2>1, <2>3, <1>3
    <2> QED
      BY <2>1, <2>4, <1>1, <1>2, <1>3, EncodesMore
  <1>6. cuts \in [0 .. Len(blocks) -> 0 .. n + 1]
    <2>1. \A i \in 0 .. n : i \in 0 .. n + 1
      BY <1>3
    <2> QED
      BY <2>1, <1>4
  <1>7. Len(index) = Len(blocks)
    BY DEF Cut
  <1>8. Cut(blocks, index, fs, cuts)
    BY <1>3, <1>4, <1>5, <1>6, <1>7 DEF Cut
  <1> QED
    BY <1>1, <1>8

\* A block that is full, or the last, goes into the file.
LEMMA FlushBlockBuilt ==
    ASSUME NEW w, NEW es \in Seq(Record), NEW cuts, Built(w, es, cuts)
    PROVE  /\ \E ends : Built(FlushBlock(w), es, ends)
           /\ FlushBlock(w).cells = <<>>
  <1>1. CASE w.cells = <<>>
    BY <1>1 DEF FlushBlock
  <1>2. CASE w.cells # <<>>
    <2>1. PICK p : p = Len(w.blocks)
      OBVIOUS
    <2>2. PICK n : n = Len(es)
      OBVIOUS
    <2>3. PICK f : f = FlushBlock(w)
      OBVIOUS
    <2>4. w \in WriterType /\ Cut(w.blocks, w.index, es, cuts)
      BY DEF Built
    <2>5. f = [w EXCEPT !.blocks = Append(w.blocks, Building(w)), !.index = Append(w.index, w.lastKey),
                        !.cells = <<>>, !.restarts = <<>>]
      BY <1>2, <2>3 DEF FlushBlock, Building
    <2>6. /\ w.blocks \in Seq(Block) /\ w.index \in Seq(Keys) /\ w.cells \in Seq(Cell)
          /\ w.restarts \in Seq(Nat)
      BY <2>4 DEF WriterType
    <2>7. p \in Nat /\ n \in Nat /\ Len(w.index) = p /\ cuts \in [0 .. p -> 0 .. n] /\ cuts[0] = 0
      BY <2>1, <2>2, <2>4, <2>6 DEF Cut
    <2>8. Encodes(Building(w), es, cuts[p], n) /\ Building(w) \in Block
      BY <2>1, <2>2 DEF Built, Encodes
    <2>9. cuts[p] \in 0 .. n /\ cuts[p] < n
      <3>1. cuts[p] \in 0 .. n
        BY <2>7
      <3>2. Len(w.cells) = n - cuts[p]
        BY <2>8 DEF Encodes, Building
      <3>3. Len(w.cells) # 0
        BY <1>2, <2>6
      <3> QED
        BY <3>1, <3>2, <3>3, <2>7
    <2>10. w.lastKey = es[n].key /\ w.lastKey \in Keys
      <3>1. n \in 1 .. n /\ es # <<>>
        BY <2>2, <2>7, <2>9
      <3> QED
        BY <3>1, <2>2, RecordsAre DEF Built, LastOf
    <2> DEFINE ends == [i \in 0 .. p + 1 |-> IF i = p + 1 THEN n ELSE cuts[i]]
    <2>11. /\ ends \in [0 .. p + 1 -> 0 .. n] /\ ends[p + 1] = n
           /\ \A i \in 0 .. p : ends[i] = cuts[i]
      <3>1. p + 1 \in 0 .. p + 1 /\ n \in 0 .. n
        BY <2>7
      <3>2. \A i \in 0 .. p + 1 : i # p + 1 => i \in 0 .. p
        BY <2>7
      <3>3. \A i \in 0 .. p : i \in 0 .. p + 1 /\ i # p + 1
        BY <2>7
      <3>4. \A i \in 0 .. p + 1 : ends[i] \in 0 .. n
        BY <3>1, <3>2, <2>7
      <3> QED
        BY <3>1, <3>3, <3>4
    <2> HIDE DEF ends
    <2>12. /\ f.blocks \in Seq(Block) /\ Len(f.blocks) = p + 1 /\ f.blocks[p + 1] = Building(w)
           /\ \A b \in 1 .. p : f.blocks[b] = w.blocks[b]
           /\ f.index \in Seq(Keys) /\ Len(f.index) = p + 1 /\ f.index[p + 1] = w.lastKey
           /\ \A b \in 1 .. p : f.index[b] = w.index[b]
      <3>1. f.blocks = Append(w.blocks, Building(w)) /\ f.index = Append(w.index, w.lastKey)
        BY <2>4, <2>5 DEF WriterType
      <3>2. Building(w) \in Block /\ w.lastKey \in Keys
        BY <2>8, <2>10
      <3> QED
        BY <3>1, <3>2, <2>1, <2>6, <2>7, AppendProperties
    <2>13. Cut(f.blocks, f.index, es, ends)
      <3>1. \A b \in 1 .. p + 1 :
              /\ ends[b - 1] < ends[b] /\ f.index[b] = es[ends[b]].key
              /\ Encodes(f.blocks[b], es, ends[b - 1], ends[b])
        <4> TAKE b \in 1 .. p + 1
        <4>1. CASE b = p + 1
          <5>1. b - 1 = p /\ p \in 0 .. p
            BY <4>1, <2>7
          <5> QED
            BY <4>1, <5>1, <2>8, <2>9, <2>10, <2>11, <2>12
        <4>2. CASE b # p + 1
          <5>1. b \in 1 .. p /\ b \in 0 .. p /\ b - 1 \in 0 .. p
            BY <4>2, <2>7
          <5>2. /\ cuts[b - 1] < cuts[b] /\ w.index[b] = es[cuts[b]].key
                /\ Encodes(w.blocks[b], es, cuts[b - 1], cuts[b])
            BY <5>1, <2>1, <2>4 DEF Cut
          <5> QED
            BY <5>1, <5>2, <2>11, <2>12
        <4> QED
          BY <4>1, <4>2
      <3>2. ends[0] = 0
        <4>1. 0 \in 0 .. p
          BY <2>7
        <4> QED
          BY <4>1, <2>7, <2>11
      <3> QED
        BY <3>1, <3>2, <2>2, <2>11, <2>12 DEF Cut
    <2>14. /\ f \in WriterType /\ f.cells = <<>> /\ f.restarts = <<>>
           /\ f.ok = w.ok /\ f.lastKey = w.lastKey /\ f.minKey = w.minKey /\ f.keys = w.keys
           /\ f.maxSeq = w.maxSeq /\ f.entries = w.entries
      <3>1. <<>> \in Seq(Cell) /\ <<>> \in Seq(Nat)
        OBVIOUS
      <3>2. Append(w.blocks, Building(w)) \in Seq(Block) /\ Append(w.index, w.lastKey) \in Seq(Keys)
        BY <2>6, <2>8, <2>10, AppendProperties
      <3> QED
        BY <3>1, <3>2, <2>4, <2>5 DEF WriterType
    <2>15. Encodes(Building(f), es, n, n)
      <3>1. Building(f) = [cells |-> <<>>, restarts |-> <<>>]
        BY <2>14 DEF Building
      <3>2. <<>> \in Seq(Cell) /\ <<>> \in Seq(Nat)
        OBVIOUS
      <3>3. 1 .. n - n = {} /\ Len(<<>>) = n - n /\ ~(n > n) /\ 1 .. Len(<<>>) = {}
        BY <2>7
      <3>4. PICK d : d = Building(f)
        OBVIOUS
      <3>5. d.cells = <<>> /\ d.restarts = <<>> /\ d \in Block
        BY <3>1, <3>2, <3>4 DEF Block
      <3>6. Encodes(d, es, n, n)
        BY <3>3, <3>5 DEF Encodes
      <3> QED
        BY <3>4, <3>6
    <2>16. Built(f, es, ends)
      <3>1. /\ w.ok /\ w.lastKey = LastOf(es) /\ w.minKey = FirstOf(es) /\ w.keys = KeysOf(es)
            /\ w.entries = Len(es) /\ TopOf(es, w.maxSeq)
        BY DEF Built
      <3> QED
        BY <3>1, <2>2, <2>11, <2>12, <2>13, <2>14, <2>15 DEF Built
    <2> QED
      BY <2>3, <2>14, <2>16
  <1> QED
    BY <1>1, <1>2

LEMMA NewWriterTaken == Taken(NewWriter, <<>>)
  <1> DEFINE cuts == [i \in 0 .. 0 |-> 0]
  <1>1. NewWriter \in WriterType /\ NewWriter.ok
    <2>1. <<>> \in Seq(Block) /\ <<>> \in Seq(Keys) /\ <<>> \in Seq(Cell) /\ <<>> \in Seq(Nat)
      OBVIOUS
    <2> QED
      BY <2>1 DEF NewWriter, WriterType, Places
  <1>2. <<>> \in Seq(Record) /\ Len(<<>>) = 0 /\ 1 .. 0 = {} /\ 2 .. 0 = {}
    OBVIOUS
  <1>3. cuts \in [0 .. 0 -> 0 .. 0] /\ cuts[0] = 0
    OBVIOUS
  <1> HIDE DEF cuts
  <1>4. Cut(NewWriter.blocks, NewWriter.index, <<>>, cuts)
    BY <1>2, <1>3 DEF Cut, NewWriter
  <1>5. Encodes(Building(NewWriter), <<>>, 0, 0)
    <2>1. PICK d : d = Building(NewWriter)
      OBVIOUS
    <2>2. <<>> \in Seq(Cell) /\ <<>> \in Seq(Nat)
      OBVIOUS
    <2>3. d.cells = <<>> /\ d.restarts = <<>> /\ d \in Block
      BY <2>1, <2>2 DEF Building, NewWriter, Block
    <2>4. 1 .. 0 - 0 = {} /\ 0 - 0 = 0 /\ ~(0 > 0)
      OBVIOUS
    <2> QED
      BY <2>1, <2>3, <2>4, <1>2 DEF Encodes
  <1>6. Ascending(<<>>)
    BY <1>2 DEF Ascending
  <1>7. NewWriter.lastKey = LastOf(<<>>) /\ NewWriter.minKey = FirstOf(<<>>)
        /\ NewWriter.keys = KeysOf(<<>>) /\ NewWriter.entries = Len(<<>>)
        /\ TopOf(<<>>, NewWriter.maxSeq)
    BY <1>2 DEF NewWriter, LastOf, FirstOf, KeysOf, TopOf
  <1>8. NewWriter.blocks = <<>>
    BY DEF NewWriter
  <1>9. Built(NewWriter, <<>>, cuts)
    BY <1>1, <1>2, <1>3, <1>4, <1>5, <1>7, <1>8 DEF Built
  <1> QED
    BY <1>2, <1>6, <1>9 DEF Taken

\* What the Writer keeps beside the blocks, with an entry more.
LEMMA ToldMore ==
    ASSUME NEW es \in Seq(Record), NEW e \in Record, NEW n \in Nat, TopOf(es, n)
    PROVE  LET fs == Append(es, e)
           IN  /\ LastOf(fs) = e.key
               /\ FirstOf(fs) = IF FirstOf(es) = NoKey THEN e.key ELSE FirstOf(es)
               /\ KeysOf(fs) = KeysOf(es) \cup {e.key}
               /\ TopOf(fs, Larger(n, e.seq)) /\ Larger(n, e.seq) \in Nat
  <1>1. PICK fs : fs = Append(es, e)
    OBVIOUS
  <1>2. PICK m : m = Len(es)
    OBVIOUS
  <1>3. /\ m \in Nat /\ fs \in Seq(Record) /\ Len(fs) = m + 1 /\ fs[m + 1] = e /\ fs # <<>>
        /\ \A i \in 1 .. m : fs[i] = es[i]
    BY <1>1, <1>2, AppendProperties
  <1>4. 1 .. m + 1 = (1 .. m) \cup {m + 1}
    BY <1>3
  <1>5. LastOf(fs) = e.key
    BY <1>3 DEF LastOf
  <1>6. FirstOf(fs) = IF FirstOf(es) = NoKey THEN e.key ELSE FirstOf(es)
    <2>1. CASE m = 0
      BY <2>1, <1>2, <1>3 DEF FirstOf
    <2>2. CASE m # 0
      <3>1. es # <<>> /\ 1 \in 1 .. m
        BY <2>2, <1>2, <1>3
      <3>2. es[1].key # NoKey
        BY <3>1, <1>2, RecordsAre
      <3> QED
        BY <3>1, <3>2, <1>3 DEF FirstOf
    <2> QED
      BY <2>1, <2>2
  <1>7. KeysOf(fs) = KeysOf(es) \cup {e.key}
    <2>1. KeysOf(fs) = {fs[i].key : i \in 1 .. m + 1} /\ KeysOf(es) = {es[i].key : i \in 1 .. m}
      BY <1>2, <1>3 DEF KeysOf
    <2> QED
      BY <2>1, <1>3, <1>4
  <1>8. e.seq \in Nat /\ \A i \in 1 .. m : es[i].seq \in Nat
    BY <1>2, RecordsAre DEF Record
  <1>9. TopOf(fs, Larger(n, e.seq)) /\ Larger(n, e.seq) \in Nat
    <2>1. PICK x : x = Larger(n, e.seq)
      OBVIOUS
    <2>2. x \in Nat /\ n =< x /\ e.seq =< x /\ (x = n \/ x = e.seq)
      BY <2>1, <1>8 DEF Larger
    <2>3. \A i \in 1 .. m : es[i].seq =< n
      BY <1>2 DEF TopOf
    <2>4. \A i \in 1 .. m + 1 : fs[i].seq =< x
      <3>1. \A i \in 1 .. m : fs[i].seq =< x
        <4> TAKE i \in 1 .. m
        <4>1. es[i].seq =< n /\ es[i].seq \in Nat /\ fs[i] = es[i]
          BY <2>3, <1>3, <1>8
        <4> QED
          BY <4>1, <2>2
      <3>2. fs[m + 1].seq =< x
        BY <2>2, <1>3
      <3> QED
        BY <3>1, <3>2, <1>4
    <2>5. x = 0 \/ \E i \in 1 .. m + 1 : fs[i].seq = x
      <3>1. CASE x = e.seq
        BY <3>1, <1>3, <1>4
      <3>2. CASE x = n
        BY <3>2, <1>2, <1>3, <1>4 DEF TopOf
      <3> QED
        BY <3>1, <3>2, <2>2
    <2> QED
      BY <2>1, <2>2, <2>4, <2>5, <1>3 DEF TopOf
  <1> QED
    BY <1>1, <1>5, <1>6, <1>7, <1>9

LEMMA AscendingMore ==
    ASSUME NEW es \in Seq(Record), NEW e \in Record, Ascending(es),
           LastOf(es) = NoKey \/ KeyLess(LastOf(es), e.key)
    PROVE  Ascending(Append(es, e)) /\ Append(es, e) \in Seq(Record)
  <1>1. PICK fs : fs = Append(es, e)
    OBVIOUS
  <1>2. PICK m : m = Len(es)
    OBVIOUS
  <1>3. /\ m \in Nat /\ fs \in Seq(Record) /\ Len(fs) = m + 1 /\ fs[m + 1] = e
        /\ \A i \in 1 .. m : fs[i] = es[i]
    BY <1>1, <1>2, AppendProperties
  <1>4. ASSUME NEW i \in 2 .. m + 1 PROVE KeyLess(fs[i - 1].key, fs[i].key)
    <2>1. CASE i = m + 1
      <3>1. m \in 1 .. m /\ i - 1 = m /\ es # <<>>
        BY <2>1, <1>2, <1>3
      <3>2. LastOf(es) = es[m].key /\ es[m].key # NoKey
        BY <3>1, <1>2, RecordsAre DEF LastOf
      <3> QED
        BY <2>1, <3>1, <3>2, <1>3
    <2>2. CASE i # m + 1
      <3>1. i \in 2 .. m /\ i \in 1 .. m /\ i - 1 \in 1 .. m
        BY <2>2, <1>3
      <3> QED
        BY <3>1, <1>2, <1>3 DEF Ascending
    <2> QED
      BY <2>1, <2>2
  <1> QED
    BY <1>1, <1>3, <1>4 DEF Ascending

\* The Writer takes every entry whose key is above the last one.
LEMMA AddTaken ==
    ASSUME NEW w, NEW es, Taken(w, es), NEW e \in Record,
           LastOf(es) = NoKey \/ KeyLess(LastOf(es), e.key)
    PROVE  Taken(Add(w, e), Append(es, e))
  <1>1. es \in Seq(Record) /\ Ascending(es)
    BY DEF Taken
  <1>2. PICK cuts : Built(w, es, cuts)
    BY DEF Taken
  <1>3. PICK fs : fs = Append(es, e)
    OBVIOUS
  <1>4. PICK n : n = Len(es)
    OBVIOUS
  <1>5. fs \in Seq(Record) /\ Ascending(fs)
    BY <1>1, <1>3, AscendingMore
  <1>6. n \in Nat /\ Len(fs) = n + 1
    BY <1>1, <1>3, <1>4
  <1>7. w \in WriterType /\ w.ok /\ w.lastKey = LastOf(es) /\ Cut(w.blocks, w.index, es, cuts)
    BY <1>2 DEF Built
  <1>8. Accepts(w, e)
    <2>1. e.key \in Key /\ e.key # NoKey
      BY KeysAreKeys DEF Record
    <2>2. LastOf(es) # NoKey => LastOf(es) \in Key
      <3>1. es # <<>> => n \in 1 .. n
        BY <1>1, <1>4, <1>6
      <3> QED
        BY <3>1, <1>1, <1>4, RecordsAre DEF LastOf
    <2>3. LastOf(es) # NoKey => ~KeyLess(e.key, LastOf(es))
      BY <2>1, <2>2, KeyLessTransitive, KeyLessIrreflexive
    <2> QED
      BY <2>1, <2>3, <1>7 DEF Accepts
  <1> DEFINE added == [w EXCEPT !.cells = Append(@, CellOf(e, Shared(w, e))),
                           !.restarts = IF AtRestart(w) THEN Append(@, Len(w.cells) + 1) ELSE @,
                           !.lastKey = e.key,
                           !.minKey = IF @ = NoKey THEN e.key ELSE @,
                           !.keys = @ \cup {e.key},
                           !.maxSeq = Larger(@, e.seq),
                           !.entries = @ + 1]
  <1>9. Add(w, e) = added \/ Add(w, e) = FlushBlock(added)
    BY <1>7, <1>8 DEF Add
  <1>10. PICK p : p = Len(w.blocks)
    OBVIOUS
  <1>11. w.blocks \in Seq(Block) /\ w.cells \in Seq(Cell) /\ w.restarts \in Seq(Nat) /\ p \in Nat
    BY <1>7, <1>10 DEF WriterType
  <1>12. PICK lo : lo = cuts[p]
    OBVIOUS
  <1>13. lo \in 0 .. n
    <2>1. p \in 0 .. p
      BY <1>11
    <2> QED
      BY <2>1, <1>4, <1>7, <1>10, <1>12 DEF Cut
  <1>14. Encodes(Building(w), es, lo, n)
    BY <1>2, <1>4, <1>10, <1>12 DEF Built
  <1>15. Len(w.cells) = n - lo
    BY <1>14 DEF Encodes, Building
  <1>16. PICK c : c = CellOf(e, Shared(w, e))
    OBVIOUS
  <1>17. PICK at \in BOOLEAN : at = AtRestart(w)
    BY DEF AtRestart
  <1>18. /\ c \in Cell /\ Fits(c, fs, lo, n + 1 - lo)
         /\ at => c.shared = 0
         /\ lo = n => at
    BY <1>1, <1>3, <1>4, <1>7, <1>11, <1>13, <1>15, <1>16, <1>17, SharedFits
  <1>19. PICK x : x = added
    OBVIOUS
  <1>20. /\ x.cells = Append(w.cells, c)
         /\ x.restarts = IF at THEN Append(w.restarts, Len(w.cells) + 1) ELSE w.restarts
         /\ x.blocks = w.blocks /\ x.index = w.index /\ x.ok
         /\ x.lastKey = e.key /\ x.minKey = (IF w.minKey = NoKey THEN e.key ELSE w.minKey)
         /\ x.keys = w.keys \cup {e.key} /\ x.maxSeq = Larger(w.maxSeq, e.seq)
         /\ x.entries = w.entries + 1
    BY <1>7, <1>16, <1>17, <1>19 DEF WriterType
  <1>21. x = [ok |-> x.ok, blocks |-> x.blocks, index |-> x.index, cells |-> x.cells,
              restarts |-> x.restarts, lastKey |-> x.lastKey, minKey |-> x.minKey,
              keys |-> x.keys, maxSeq |-> x.maxSeq, entries |-> x.entries]
    BY <1>7, <1>19 DEF WriterType
  <1> HIDE DEF added
  <1>22. Encodes(Building(x), fs, lo, n + 1)
    <2>1. Building(w).cells = w.cells /\ Building(w).restarts = w.restarts
      BY DEF Building
    <2>2. Building(x) = [cells |-> Append(w.cells, c),
                         restarts |-> IF at THEN Append(w.restarts, Len(w.cells) + 1) ELSE w.restarts]
      BY <1>20 DEF Building
    <2>3. lo \in 0 .. Len(es)
      BY <1>4, <1>13
    <2> QED
      BY <2>1, <2>2, <2>3, <1>1, <1>3, <1>4, <1>14, <1>18, CellMore
  <1>23. Cut(x.blocks, x.index, fs, cuts)
    BY <1>1, <1>3, <1>7, <1>11, <1>20, CutMore
  <1>24. w.minKey = FirstOf(es) /\ w.keys = KeysOf(es) /\ w.entries = n /\ TopOf(es, w.maxSeq)
         /\ w.maxSeq \in Nat
    BY <1>2, <1>4 DEF Built, WriterType
  <1>25. /\ x.lastKey = LastOf(fs) /\ x.minKey = FirstOf(fs) /\ x.keys = KeysOf(fs)
         /\ x.entries = Len(fs) /\ TopOf(fs, x.maxSeq) /\ x.maxSeq \in Nat
    BY <1>1, <1>3, <1>6, <1>20, <1>24, ToldMore
  <1>26. x \in WriterType
    <2>1. x.cells \in Seq(Cell) /\ x.restarts \in Seq(Nat)
      BY <1>22 DEF Encodes, Building, Block
    <2>2. e.key \in Keys
      BY DEF Record
    <2>3. w.minKey \in Places /\ w.keys \in SUBSET Keys /\ w.index \in Seq(Keys) /\ w.entries \in Nat
      BY <1>7 DEF WriterType
    <2>4. x.lastKey \in Places /\ x.minKey \in Places /\ x.keys \in SUBSET Keys /\ x.entries \in Nat
      BY <2>2, <2>3, <1>20 DEF Places
    <2>5. x.ok \in BOOLEAN
      BY <1>7, <1>20 DEF WriterType
    <2> QED
      BY <2>1, <2>3, <2>4, <2>5, <1>11, <1>20, <1>21, <1>25 DEF WriterType
  <1>27. Built(x, fs, cuts)
    BY <1>6, <1>10, <1>12, <1>20, <1>22, <1>23, <1>25, <1>26 DEF Built
  <1>28. \E ends : Built(FlushBlock(x), fs, ends)
    BY <1>5, <1>27, FlushBlockBuilt
  <1> QED
    BY <1>3, <1>5, <1>9, <1>19, <1>27, <1>28 DEF Taken

\* What the Writer is after each of es.
WriterSteps(es, done) ==
    /\ done[0] = NewWriter /\ done[Len(es)] = FoldLeft(Add, NewWriter, es)
    /\ \A i \in 1 .. Len(es) : done[i] = Add(done[i - 1], es[i])

LEMMA WriterStepsExist ==
    ASSUME NEW es \in Seq(Record)
    PROVE  \E done : WriterSteps(es, done)
  <1> DEFINE n == Len(es)
             D == 1 .. n
             Then(m, r) == Add(m, r)
             Solves(f) == f = [s \in SUBSET D |->
                                 IF s = {} THEN NewWriter ELSE Then(f[s \ {Max(s)}], es[Max(s)])]
             f == CHOOSE g : Solves(g)
             Upto(g, i) == g = [s \in SUBSET (1 .. i) |->
                                  IF s = {} THEN NewWriter ELSE Then(g[s \ {Max(s)}], es[Max(s)])]
             Bad == {i \in Nat : \A g : ~Upto(g, i)}
  <1>1. n \in Nat /\ DOMAIN es = D
    OBVIOUS
  <1>2. \A i \in Nat : \A s \in SUBSET (1 .. i) : i \in s => Max(s) = i
    <2> SUFFICES ASSUME NEW i \in Nat, NEW s \in SUBSET (1 .. i), i \in s PROVE Max(s) = i
      OBVIOUS
    <2>1. \A y \in s : i >= y
      OBVIOUS
    <2>2. \A x \in s : (\A y \in s : x >= y) => x = i
      OBVIOUS
    <2> QED
      BY <2>1, <2>2 DEF Max
  <1> HIDE DEF Then
  <1>3. 0 \notin Bad
    <2> DEFINE g == [s \in {{}} |-> NewWriter]
    <2>1. SUBSET (1 .. 0) = {{}}
      OBVIOUS
    <2>2. Upto(g, 0)
      BY <2>1
    <2> QED
      BY <2>2
  <1>4. ASSUME NEW i \in Nat, i \notin Bad PROVE i + 1 \notin Bad
    <2>1. PICK g : Upto(g, i)
      BY <1>4
    <2> DEFINE h == [s \in SUBSET (1 .. i + 1) |->
                       IF i + 1 \in s THEN Then(g[s \ {i + 1}], es[i + 1]) ELSE g[s]]
    <2>2. \A s \in SUBSET (1 .. i) : s \in SUBSET (1 .. i + 1) /\ i + 1 \notin s
      OBVIOUS
    <2>3. \A s \in SUBSET (1 .. i + 1) :
             /\ i + 1 \notin s => s \in SUBSET (1 .. i)
             /\ s \ {i + 1} \in SUBSET (1 .. i)
      OBVIOUS
    <2>4. \A s \in SUBSET (1 .. i) : h[s] = g[s]
      BY <2>2
    <2>5. \A s \in SUBSET (1 .. i + 1) :
             h[s] = IF i + 1 \in s THEN Then(g[s \ {i + 1}], es[i + 1]) ELSE g[s]
      OBVIOUS
    <2>6. h = [s \in SUBSET (1 .. i + 1) |-> h[s]]
      OBVIOUS
    <2> HIDE DEF h
    <2>7. \A s \in SUBSET (1 .. i) :
             g[s] = IF s = {} THEN NewWriter ELSE Then(g[s \ {Max(s)}], es[Max(s)])
      BY <2>1
    <2>8. \A s \in SUBSET (1 .. i + 1) :
             h[s] = IF s = {} THEN NewWriter ELSE Then(h[s \ {Max(s)}], es[Max(s)])
      <3> TAKE s \in SUBSET (1 .. i + 1)
      <3>1. CASE i + 1 \in s
        <4>1. Max(s) = i + 1
          BY <3>1, <1>2
        <4>2. h[s \ {i + 1}] = g[s \ {i + 1}]
          BY <2>3, <2>4
        <4> QED
          BY <3>1, <4>1, <4>2, <2>5
      <3>2. CASE i + 1 \notin s
        <4>1. s \in SUBSET (1 .. i) /\ s \ {Max(s)} \in SUBSET (1 .. i)
          BY <3>2, <2>3
        <4>2. h[s \ {Max(s)}] = g[s \ {Max(s)}] /\ h[s] = g[s]
          BY <4>1, <2>4
        <4> QED
          BY <4>1, <4>2, <2>7
      <3> QED
        BY <3>1, <3>2
    <2>9. Upto(h, i + 1)
      BY <2>6, <2>8
    <2> QED
      BY <2>9
  <1>5. ASSUME NEW b \in Bad PROVE FALSE
    <2>1. PICK i \in Bad : \A k \in Bad : i =< k
      BY <1>5, SmallestOf
    <2>2. i # 0 /\ i \in Nat
      BY <2>1, <1>3
    <2> HIDE DEF Bad
    <2>3. i - 1 \in Nat /\ (i - 1) + 1 = i /\ ~(i =< i - 1)
      BY <2>2
    <2>4. i - 1 \notin Bad
      BY <2>1, <2>3
    <2> QED
      BY <2>1, <2>3, <2>4, <1>4
  <1>6. Solves(f)
    <2>1. n \notin Bad
      BY <1>5
    <2>2. \E g : Upto(g, n)
      BY <2>1, <1>1
    <2>3. \A g : Upto(g, n) <=> Solves(g)
      OBVIOUS
    <2> HIDE DEF Upto, Solves
    <2>4. \E g : Solves(g)
      BY <2>2, <2>3
    <2> QED
      BY <2>4
  <1>7. FoldLeft(Add, NewWriter, es) = f[D]
    BY <1>1 DEF FoldLeft, MapThenFoldSet, Then
  <1> HIDE DEF f
  <1>8. \A s \in SUBSET D : f[s] = IF s = {} THEN NewWriter ELSE Then(f[s \ {Max(s)}], es[Max(s)])
    BY <1>6
  <1> DEFINE done == [i \in 0 .. n |-> f[1 .. i]]
  <1>9. done[0] = NewWriter
    <2>1. 1 .. 0 = {} /\ {} \in SUBSET D /\ 0 \in 0 .. n
      BY <1>1
    <2> QED
      BY <2>1, <1>8
  <1>10. ASSUME NEW i \in 1 .. n
         PROVE  done[i] = Then(done[i - 1], es[i])
    <2>1. 1 .. i \in SUBSET D /\ i \in 1 .. i /\ i \in 0 .. n /\ i - 1 \in 0 .. n /\ i \in Nat
      BY <1>1
    <2>2. (1 .. i) \ {i} = 1 .. (i - 1)
      BY <1>1
    <2>3. Max(1 .. i) = i
      BY <2>1, <1>2
    <2>4. f[1 .. i] = Then(f[1 .. (i - 1)], es[i])
      BY <2>1, <2>2, <2>3, <1>8
    <2> QED
      BY <2>1, <2>4
  <1>11. done[n] = f[D]
    BY <1>1
  <1> HIDE DEF done
  <1> QED
    BY <1>7, <1>9, <1>10, <1>11 DEF Then, WriterSteps

LEMMA SliceMore ==
    ASSUME NEW S, NEW es \in Seq(S), NEW i \in 1 .. Len(es)
    PROVE  /\ SubSeq(es, 1, i) = Append(SubSeq(es, 1, i - 1), es[i])
           /\ SubSeq(es, 1, i - 1) \in Seq(S) /\ Len(SubSeq(es, 1, i - 1)) = i - 1
           /\ \A j \in 1 .. i - 1 : SubSeq(es, 1, i - 1)[j] = es[j]
  <1>1. 1 \in 1 .. Len(es) /\ i \in 1 .. Len(es) /\ i - 1 \in Int /\ Len(es) \in Nat
    OBVIOUS
  <1>2. SubSeq(es, 1, i) = SubSeq(es, 1, i - 1) \o <<es[i]>>
    BY <1>1, SubSeqRecursiveSecond
  <1>3. \A j \in 1 .. i - 1 : es[j] \in S
    BY <1>1
  <1>4. /\ SubSeq(es, 1, i - 1) \in Seq(S)
        /\ Len(SubSeq(es, 1, i - 1)) = (IF 1 <= i - 1 THEN (i - 1) - 1 + 1 ELSE 0)
        /\ \A j \in 1 .. (i - 1) - 1 + 1 : SubSeq(es, 1, i - 1)[j] = es[1 + j - 1]
    BY <1>1, <1>3, SubSeqProperties
  <1>5. es[i] \in S
    BY <1>1
  <1>6. Append(SubSeq(es, 1, i - 1), es[i]) = SubSeq(es, 1, i - 1) \o <<es[i]>>
    BY <1>4, <1>5, AppendIsConcat
  <1>7. (i - 1) - 1 + 1 = i - 1 /\ \A j \in 1 .. i - 1 : 1 + j - 1 = j
    BY <1>1
  <1> QED
    BY <1>1, <1>2, <1>4, <1>6, <1>7

\* The file f holds es.
Holding(f, es, cuts) ==
    /\ f.ok /\ f.blocks \in Seq(Block) /\ f.index \in Seq(Keys)
    /\ Cut(f.blocks, f.index, es, cuts) /\ cuts[Len(f.blocks)] = Len(es)
    /\ f.filter = Build(KeysOf(es), Len(es))
    /\ f.minKey = FirstOf(es) /\ f.maxKey = LastOf(es) /\ f.entries = Len(es)
    /\ TopOf(es, f.maxSeq) /\ f.maxSeq \in Nat

FileOf(f, es) == es \in Seq(Record) /\ Ascending(es) /\ \E cuts : Holding(f, es, cuts)

LEMMA FinishIs ==
    ASSUME NEW w, NEW es, Taken(w, es)
    PROVE  FileOf(Finish(w), es)
  <1>1. es \in Seq(Record) /\ Ascending(es) /\ \E cuts : Built(w, es, cuts)
    BY DEF Taken
  <1>2. PICK g : g = FlushBlock(w)
    OBVIOUS
  <1>3. g.cells = <<>> /\ \E cuts : Built(g, es, cuts)
    BY <1>1, <1>2, FlushBlockBuilt
  <1>4. PICK cuts : Built(g, es, cuts)
    BY <1>3
  <1>5. PICK f : f = Finish(w)
    OBVIOUS
  <1>6. /\ f.ok = g.ok /\ f.blocks = g.blocks /\ f.index = g.index
        /\ f.filter = Build(g.keys, g.entries) /\ f.minKey = g.minKey /\ f.maxKey = g.lastKey
        /\ f.maxSeq = g.maxSeq /\ f.entries = g.entries
    BY <1>2, <1>5 DEF Finish
  <1>7. cuts[Len(g.blocks)] = Len(es)
    <2>1. PICK n : n = Len(es)
      OBVIOUS
    <2>2. PICK lo : lo = cuts[Len(g.blocks)]
      OBVIOUS
    <2>3. Len(g.cells) = n - lo
      BY <1>4, <2>1, <2>2 DEF Built, Encodes, Building
    <2>4. Len(g.cells) = 0
      BY <1>3
    <2>5. n \in Nat
      BY <1>1, <2>1
    <2>6. lo \in 0 .. n
      <3>1. g.blocks \in Seq(Block) /\ cuts \in [0 .. Len(g.blocks) -> 0 .. n]
        BY <1>4, <2>1 DEF Built, WriterType, Cut
      <3>2. Len(g.blocks) \in 0 .. Len(g.blocks)
        BY <3>1
      <3> QED
        BY <3>1, <3>2, <2>2
    <2> QED
      BY <2>1, <2>2, <2>3, <2>4, <2>5, <2>6
  <1>8. Holding(f, es, cuts)
    BY <1>4, <1>6, <1>7 DEF Holding, Built, WriterType
  <1> QED
    BY <1>1, <1>5, <1>8 DEF FileOf

\* A flush: the Writer accepts whatever is given to it in order.
LEMMA WriteFileIs ==
    ASSUME NEW es \in Seq(Record), Ascending(es)
    PROVE  FileOf(WriteFile(es), es)
  <1>1. PICK done : WriterSteps(es, done)
    BY WriterStepsExist
  <1>2. PICK n : n = Len(es)
    OBVIOUS
  <1>3. n \in Nat
    BY <1>2
  <1> DEFINE Wrong == {i \in 0 .. n : ~Taken(done[i], SubSeq(es, 1, i))}
  <1>4. 0 \notin Wrong
    <2>1. SubSeq(es, 1, 0) = <<>>
      BY SubSeqEmpty
    <2> QED
      BY <2>1, <1>1, NewWriterTaken DEF WriterSteps
  <1>5. ASSUME Wrong # {} PROVE FALSE
    <2>1. Wrong \in SUBSET Nat
      BY <1>3
    <2>2. PICK i \in Wrong : \A k \in Wrong : i =< k
      <3> HIDE DEF Wrong
      <3> QED
        BY <2>1, <1>5, SmallestOf
    <2>3. i \in 1 .. n /\ i - 1 \in 0 .. n /\ ~(i =< i - 1)
      BY <2>2, <1>3, <1>4
    <2>4. Taken(done[i - 1], SubSeq(es, 1, i - 1))
      BY <2>2, <2>3
    <2>5. PICK fs : fs = SubSeq(es, 1, i - 1)
      OBVIOUS
    <2>6. /\ SubSeq(es, 1, i) = Append(fs, es[i]) /\ fs \in Seq(Record) /\ Len(fs) = i - 1
          /\ \A j \in 1 .. i - 1 : fs[j] = es[j]
      BY <2>3, <2>5, <1>2, SliceMore
    <2>7. LastOf(fs) = NoKey \/ KeyLess(LastOf(fs), es[i].key)
      <3>1. CASE fs = <<>>
        BY <3>1 DEF LastOf
      <3>2. CASE fs # <<>>
        <4>1. i - 1 \in 1 .. i - 1 /\ i \in 2 .. n
          BY <3>2, <2>3, <2>6, <1>3
        <4>2. LastOf(fs) = es[i - 1].key
          BY <3>2, <4>1, <2>6 DEF LastOf
        <4> QED
          BY <4>1, <4>2, <1>2 DEF Ascending
      <3> QED
        BY <3>1, <3>2
    <2>8. es[i] \in Record /\ done[i] = Add(done[i - 1], es[i])
      BY <2>3, <1>1, <1>2, RecordsAre DEF WriterSteps
    <2>9. Taken(done[i], SubSeq(es, 1, i))
      BY <2>4, <2>5, <2>6, <2>7, <2>8, AddTaken
    <2> QED
      BY <2>2, <2>9
  <1>6. Taken(done[n], SubSeq(es, 1, n))
    <2>1. n \in 0 .. n
      BY <1>3
    <2> QED
      BY <2>1, <1>5
  <1>7. SubSeq(es, 1, n) = es
    BY <1>2, SubSeqFull
  <1> QED
    BY <1>1, <1>2, <1>6, <1>7, FinishIs DEF WriterSteps, WriteFile

-----------------------------------------------------------------------------
(* Reading a block.                                                          *)

\* What a blockIter is when it has read the jth cell.
Item(es, lo, j) ==
    [off |-> j + 1, valid |-> TRUE, key |-> es[lo + j].key, seq |-> es[lo + j].seq,
     val |-> es[lo + j].val]

\* A block of a file of es.
Held(b, es, lo, hi) ==
    /\ es \in Seq(Record) /\ lo \in Nat /\ hi \in Nat /\ lo =< hi /\ hi =< Len(es)
    /\ Encodes(b, es, lo, hi)

LEMMA EncodesIs ==
    ASSUME NEW b, NEW es, NEW lo, NEW hi, Held(b, es, lo, hi), NEW j \in 1 .. hi - lo
    PROVE  /\ Fits(b.cells[j], es, lo, j) /\ lo + j \in 1 .. Len(es) /\ es[lo + j] \in Record
           /\ es[lo + j].key \in Key /\ Len(es[lo + j].key) \in Nat /\ Len(b.cells) = hi - lo
           /\ Len(es) \in Nat /\ lo \in Nat /\ hi \in Nat
  <1>1. Len(es) \in Nat /\ lo + j \in 1 .. Len(es)
    BY DEF Held
  <1> QED
    BY <1>1, RecordsAre DEF Held, Encodes

\* Next: the key grows out of the key before it.
LEMMA BlockNextIs ==
    ASSUME NEW b, NEW es, NEW lo, NEW hi, Held(b, es, lo, hi), NEW j \in 1 .. hi - lo,
           NEW it, it.off = j,
           b.cells[j].shared = 0 \/ (j > 1 /\ it.key = es[lo + j - 1].key)
    PROVE  BlockNext(b, it) = Item(es, lo, j)
  <1>1. PICK c : c = b.cells[j]
    OBVIOUS
  <1>2. PICK e : e = es[lo + j]
    OBVIOUS
  <1>3. /\ Fits(c, es, lo, j) /\ e \in Record /\ e.key \in Key /\ Len(e.key) \in Nat
        /\ Len(b.cells) = hi - lo
    BY <1>1, <1>2, EncodesIs
  <1>4. PICK s : s = c.shared
    OBVIOUS
  <1>5. s \in 0 .. Len(e.key) /\ c = CellOf(e, s)
    BY <1>2, <1>3, <1>4 DEF Fits
  <1>6. SubSeq(it.key, 1, s) = SubSeq(e.key, 1, s)
    <2>1. CASE s = 0
      <3>1. \A k : SubSeq(k, 1, 0) = <<>>
        BY SubSeqEmpty
      <3> QED
        BY <2>1, <3>1
    <2>2. CASE s # 0
      BY <2>2, <1>1, <1>2, <1>3, <1>4 DEF Fits
    <2> QED
      BY <2>1, <2>2
  <1>7. SubSeq(e.key, 1, s) \o SubSeq(e.key, s + 1, Len(e.key)) = e.key
    <2>1. e.key \in Seq(Nat) /\ 1 \in 1 .. Len(e.key) + 1 /\ s \in 1 - 1 .. Len(e.key)
          /\ Len(e.key) \in s .. Len(e.key)
      BY <1>3, <1>5 DEF Key
    <2>2. SubSeq(e.key, 1, s) \o SubSeq(e.key, s + 1, Len(e.key)) = SubSeq(e.key, 1, Len(e.key))
      BY <2>1, ConcatAdjacentSubSeq
    <2> QED
      BY <2>1, <2>2, SubSeqFull
  <1>8. c.suffix = SubSeq(e.key, s + 1, Len(e.key)) /\ c.seq = e.seq /\ c.val = e.val
    BY <1>5 DEF CellOf
  <1>9. ~(it.off > Len(b.cells))
    BY <1>3
  <1>10. BlockNext(b, it) = [off |-> it.off + 1, valid |-> TRUE,
                             key |-> SubSeq(it.key, 1, c.shared) \o c.suffix,
                             seq |-> c.seq, val |-> c.val]
    BY <1>1, <1>9 DEF BlockNext
  <1> QED
    BY <1>2, <1>4, <1>6, <1>7, <1>8, <1>10 DEF Item

LEMMA BlockAtIs ==
    ASSUME NEW b, NEW es, NEW lo, NEW hi, Held(b, es, lo, hi), NEW j \in 1 .. hi - lo, b.cells[j].shared = 0
    PROVE  BlockAt(b, j) = Item(es, lo, j)
  <1>1. PICK it : it = [off |-> j, valid |-> FALSE, key |-> NoKey, seq |-> 0, val |-> Tombstone]
    OBVIOUS
  <1>2. it.off = j
    BY <1>1
  <1>3. BlockNext(b, it) = Item(es, lo, j)
    BY <1>2, BlockNextIs
  <1> QED
    BY <1>1, <1>3 DEF BlockAt

\* From a restart point on, decoding gives back what was put in.
LEMMA BlockFromIs ==
    ASSUME NEW b, NEW es, NEW lo, NEW hi, Held(b, es, lo, hi), NEW p \in 1 .. hi - lo + 1,
           p \in 1 .. hi - lo => b.cells[p].shared = 0
    PROVE  BlockFrom(b, p) = [i \in 1 .. hi - lo + 1 - p |-> Item(es, lo, p + i - 1)]
  <1>1. PICK n : n = hi - lo
    OBVIOUS
  <1>2. n \in Nat /\ p \in 1 .. n + 1 /\ Len(b.cells) = n
    BY <1>1 DEF Held, Encodes
  <1> DEFINE D == p .. n
             Solves(f) == f = [i \in D |-> IF i = p THEN BlockAt(b, p) ELSE BlockNext(b, f[i - 1])]
             g == [i \in D |-> Item(es, lo, i)]
             at == CHOOSE f : Solves(f)
  <1>3. BlockFrom(b, p) = [i \in 1 .. n + 1 - p |-> at[p + i - 1]]
    BY <1>2 DEF BlockFrom
  <1>4. \A i \in D : i \in 1 .. hi - lo /\ (i # p => i - 1 \in D /\ i > 1)
    BY <1>1, <1>2 DEF Held
  <1>5. \A i \in D : g[i] = Item(es, lo, i)
    OBVIOUS
  <1>6. p \in D => BlockAt(b, p) = Item(es, lo, p)
    BY <1>4, BlockAtIs
  <1>7. \A i \in D : i # p => BlockNext(b, Item(es, lo, i - 1)) = Item(es, lo, i)
    <2> TAKE i \in D
    <2> HAVE i # p
    <2>1. PICK it : it = Item(es, lo, i - 1)
      OBVIOUS
    <2>2. i \in 1 .. hi - lo /\ i > 1 /\ lo + (i - 1) = lo + i - 1 /\ (i - 1) + 1 = i
      BY <1>4 DEF Held
    <2>3. it.off = i /\ it.key = es[lo + i - 1].key
      BY <2>1, <2>2 DEF Item
    <2>4. BlockNext(b, it) = Item(es, lo, i)
      BY <2>2, <2>3, BlockNextIs
    <2> QED
      BY <2>1, <2>4
  <1>8. g = [i \in D |-> IF i = p THEN BlockAt(b, p) ELSE BlockNext(b, g[i - 1])]
    <2>1. \A i \in D : Item(es, lo, i) = IF i = p THEN BlockAt(b, p) ELSE BlockNext(b, g[i - 1])
      BY <1>4, <1>5, <1>6, <1>7
    <2> HIDE DEF D
    <2>2. \A i \in D : g[i] = IF i = p THEN BlockAt(b, p) ELSE BlockNext(b, g[i - 1])
      BY <2>1
    <2>3. g = [i \in D |-> g[i]]
      OBVIOUS
    <2> HIDE DEF g
    <2> QED
      BY <2>2, <2>3
  <1>9. Solves(at)
    <2>1. \E f : Solves(f)
      <3> HIDE DEF g
      <3> QED
        BY <1>8
    <2> HIDE DEF Solves
    <2> QED
      BY <2>1
  <1>10. \A i \in D : at[i] = IF i = p THEN BlockAt(b, p) ELSE BlockNext(b, at[i - 1])
    BY <1>9
  <1> HIDE DEF at
  <1> DEFINE Wrong == {i \in D : at[i] # Item(es, lo, i)}
  <1>11. ASSUME Wrong # {} PROVE FALSE
    <2>1. Wrong \in SUBSET Nat
      BY <1>2
    <2>2. PICK i \in Wrong : \A k \in Wrong : i =< k
      <3> HIDE DEF Wrong
      <3> QED
        BY <2>1, <1>11, SmallestOf
    <2>3. i # p
      BY <2>2, <1>6, <1>10
    <2>4. i - 1 \in D /\ i \in D /\ ~(i =< i - 1)
      BY <2>2, <2>3, <1>2, <1>4
    <2>5. at[i - 1] = Item(es, lo, i - 1)
      BY <2>2, <2>4
    <2> QED
      BY <2>2, <2>3, <2>4, <2>5, <1>7, <1>10
  <1>12. \A i \in 1 .. n + 1 - p : p + i - 1 \in D
    BY <1>2
  <1>13. \A i \in 1 .. n + 1 - p : at[p + i - 1] = Item(es, lo, p + i - 1)
    BY <1>11, <1>12
  <1>14. BlockFrom(b, p) = [i \in 1 .. n + 1 - p |-> Item(es, lo, p + i - 1)]
    BY <1>3, <1>13
  <1>15. n + 1 - p = hi - lo + 1 - p
    BY <1>1, <1>2 DEF Held
  <1> QED
    BY <1>14, <1>15

LEMMA EntryAtItem ==
    ASSUME NEW es \in Seq(Record), NEW lo, NEW j, lo + j \in 1 .. Len(es)
    PROVE  EntryAt(Item(es, lo, j)) = es[lo + j]
  <1>1. es[lo + j] \in Record
    OBVIOUS
  <1>2. es[lo + j] = [key |-> es[lo + j].key, seq |-> es[lo + j].seq, val |-> es[lo + j].val]
    BY <1>1 DEF Record
  <1> QED
    BY <1>2 DEF EntryAt, Item

\* A block that is read from end to end.
LEMMA BlockEntries ==
    ASSUME NEW b, NEW es, NEW lo, NEW hi, Held(b, es, lo, hi)
    PROVE  EntriesAt(BlockFrom(b, 1)) = SubSeq(es, lo + 1, hi)
  <1>1. PICK n : n = hi - lo
    OBVIOUS
  <1>2. /\ n \in Nat /\ Len(es) \in Nat /\ hi - lo + 1 - 1 = n
        /\ es \in Seq(Record) /\ lo \in Nat /\ hi \in Nat /\ lo =< hi /\ hi =< Len(es)
    BY <1>1 DEF Held
  <1>3. 1 \in 1 .. hi - lo => b.cells[1].shared = 0
    <2> HAVE 1 \in 1 .. hi - lo
    <2>1. Fits(b.cells[1], es, lo, 1)
      BY EncodesIs
    <2> QED
      BY <2>1 DEF Fits
  <1>4. BlockFrom(b, 1) = [i \in 1 .. n |-> Item(es, lo, 1 + i - 1)]
    <2>1. PICK p : p = 1
      OBVIOUS
    <2>2. p \in 1 .. hi - lo + 1
      BY <2>1, <1>2
    <2>3. p \in 1 .. hi - lo => b.cells[p].shared = 0
      BY <2>1, <1>3
    <2>4. BlockFrom(b, p) = [i \in 1 .. hi - lo + 1 - p |-> Item(es, lo, p + i - 1)]
      BY <2>2, <2>3, BlockFromIs
    <2> QED
      BY <2>1, <2>4, <1>2
  <1>5. EntriesAt(BlockFrom(b, 1)) = [i \in 1 .. n |-> EntryAt(Item(es, lo, 1 + i - 1))]
    BY <1>4 DEF EntriesAt
  <1>6. \A i \in 1 .. n : EntryAt(Item(es, lo, 1 + i - 1)) = es[lo + i]
    <2> TAKE i \in 1 .. n
    <2>1. 1 + i - 1 = i /\ lo + i \in 1 .. Len(es)
      BY <1>1, <1>2
    <2> QED
      BY <1>2, <2>1, EntryAtItem
  <1>7. EntriesAt(BlockFrom(b, 1)) = [i \in 1 .. n |-> es[lo + i]]
    BY <1>5, <1>6
  <1>8. \A i \in lo + 1 .. hi : es[i] \in Record
    BY <1>2
  <1>9. /\ SubSeq(es, lo + 1, hi) \in Seq(Record)
        /\ Len(SubSeq(es, lo + 1, hi)) = (IF lo + 1 <= hi THEN hi - (lo + 1) + 1 ELSE 0)
        /\ \A i \in 1 .. hi - (lo + 1) + 1 : SubSeq(es, lo + 1, hi)[i] = es[(lo + 1) + i - 1]
    BY <1>2, <1>8, SubSeqProperties
  <1>10. hi - (lo + 1) + 1 = n /\ \A i \in 1 .. n : (lo + 1) + i - 1 = lo + i
    BY <1>1, <1>2
  <1>11. \A i \in 1 .. n : es[lo + i] \in Record
    BY <1>1, <1>2
  <1>12. [i \in 1 .. n |-> es[lo + i]] \in Seq(Record) /\ Len([i \in 1 .. n |-> es[lo + i]]) = n
    BY <1>2, <1>11
  <1>13. Len(SubSeq(es, lo + 1, hi)) = n
    BY <1>1, <1>2, <1>9
  <1> QED
    BY <1>7, <1>9, <1>10, <1>12, <1>13, SeqEqual

-----------------------------------------------------------------------------
(* Reading a file from end to end.                                           *)

LEMMA SlicePlaces ==
    ASSUME NEW x \in Nat, NEW y \in Nat, NEW z \in Nat, NEW n \in Nat, x =< y, y =< z, z =< n
    PROVE  x + 1 \in 1 .. n + 1 /\ y \in (x + 1) - 1 .. n /\ z \in y .. n
  OBVIOUS

\* Slices of a sequence one after the other.
LEMMA FlattenSlices ==
    ASSUME NEW S, NEW es \in Seq(S), NEW p \in Nat, NEW c \in [0 .. p -> 0 .. Len(es)],
           \A i \in 1 .. p : c[i - 1] =< c[i],
           NEW seqs, seqs = [i \in 1 .. p |-> SubSeq(es, c[i - 1] + 1, c[i])]
    PROVE  FlattenSeq(seqs) = SubSeq(es, c[0] + 1, c[p])
  <1> DEFINE slice(j) == SubSeq(es, c[0] + 1, c[j])
             Solves(f) == f = [i \in 1 .. p |-> IF i = 1 THEN seqs[i] ELSE f[i - 1] \o seqs[i]]
             g == [i \in 1 .. p |-> slice(i)]
             flat == CHOOSE f : Solves(f)
  <1>1. \A i \in 0 .. p : c[i] \in 0 .. Len(es)
    OBVIOUS
  <1>2. 0 \in 0 .. p /\ Len(es) \in Nat /\ \A i \in 1 .. p : i \in 0 .. p /\ i - 1 \in 0 .. p
    OBVIOUS
  <1>3. \A i \in 0 .. p : c[0] =< c[i]
    <2> DEFINE Wrong == {i \in 0 .. p : ~(c[0] =< c[i])}
    <2> SUFFICES ASSUME Wrong # {} PROVE FALSE
      OBVIOUS
    <2>1. Wrong \in SUBSET Nat
      OBVIOUS
    <2>2. PICK i \in Wrong : \A k \in Wrong : i =< k
      <3> HIDE DEF Wrong
      <3> QED
        BY <2>1, SmallestOf
    <2>3. i # 0
      BY <2>2, <1>1, <1>2
    <2>4. i \in 1 .. p /\ i - 1 \in 0 .. p /\ ~(i =< i - 1)
      BY <2>2, <2>3
    <2>5. c[0] =< c[i - 1] /\ c[i - 1] =< c[i]
      BY <2>2, <2>4
    <2>6. c[0] \in Nat /\ c[i - 1] \in Nat /\ c[i] \in Nat
      BY <2>4, <1>1, <1>2
    <2>7. ~(c[0] =< c[i])
      BY <2>2
    <2> HIDE DEF Wrong
    <2> QED
      BY <2>5, <2>6, <2>7
  <1>4. CASE p = 0
    <2>1. seqs = <<>> /\ Len(seqs) = 0
      BY <1>4
    <2>2. FlattenSeq(seqs) = <<>>
      BY <2>1 DEF FlattenSeq
    <2>3. c[0] \in Int /\ c[0] + 1 \in Int /\ c[p] < c[0] + 1
      BY <1>1, <1>2, <1>4
    <2>4. c[p] \in Int
      BY <1>4, <2>3
    <2> QED
      BY <2>2, <2>3, <2>4, SubSeqEmpty
  <1>5. CASE p # 0
    <2>1. \A i \in 1 .. p : seqs[i] = SubSeq(es, c[i - 1] + 1, c[i])
      OBVIOUS
    <2>2. \A i \in 1 .. p : i # 1 => slice(i - 1) \o seqs[i] = slice(i)
      <3> TAKE i \in 1 .. p
      <3> HAVE i # 1
      <3>1. /\ c[0] + 1 \in 1 .. Len(es) + 1 /\ c[i - 1] \in (c[0] + 1) - 1 .. Len(es)
            /\ c[i] \in c[i - 1] .. Len(es)
        <4>1. c[0] \in 0 .. Len(es) /\ c[i - 1] \in 0 .. Len(es) /\ c[i] \in 0 .. Len(es)
          BY <1>1, <1>2
        <4>2. c[0] =< c[i - 1] /\ c[i - 1] =< c[i]
          BY <1>2, <1>3
        <4>3. PICK n \in Nat : n = Len(es)
          BY <1>2
        <4>4. /\ c[0] \in Nat /\ c[i - 1] \in Nat /\ c[i] \in Nat /\ c[i] =< n
          BY <4>1, <4>3
        <4> HIDE DEF slice
        <4> QED
          BY <4>2, <4>3, <4>4, SlicePlaces
      <3>2. SubSeq(es, c[0] + 1, c[i - 1]) \o SubSeq(es, c[i - 1] + 1, c[i]) = SubSeq(es, c[0] + 1, c[i])
        BY <3>1, ConcatAdjacentSubSeq
      <3> QED
        BY <3>2, <2>1
    <2>3. 1 \in 1 .. p => seqs[1] = slice(1)
      <3>1. 1 - 1 = 0
        OBVIOUS
      <3> QED
        BY <2>1, <3>1
    <2> HIDE DEF slice
    <2>4. \A i \in 1 .. p : i # 1 => i - 1 \in 1 .. p
      OBVIOUS
    <2>5. \A i \in 1 .. p : g[i] = IF i = 1 THEN seqs[i] ELSE g[i - 1] \o seqs[i]
      BY <2>2, <2>3, <2>4
    <2>6. Solves(g)
      BY <2>5
    <2>7. Solves(flat)
      <3> HIDE DEF Solves, g
      <3> QED
        BY <2>6
    <2>8. \A i \in 1 .. p : flat[i] = IF i = 1 THEN seqs[i] ELSE flat[i - 1] \o seqs[i]
      <3> HIDE DEF flat
      <3> QED
        BY <2>7
    <2>9. FlattenSeq(seqs) = flat[p]
      <3>1. Len(seqs) = p
        OBVIOUS
      <3> QED
        BY <3>1, <1>5 DEF FlattenSeq
    <2> HIDE DEF flat
    <2> DEFINE Wrong == {i \in 1 .. p : flat[i] # slice(i)}
    <2>10. ASSUME Wrong # {} PROVE FALSE
      <3>1. Wrong \in SUBSET Nat
        OBVIOUS
      <3>2. PICK i \in Wrong : \A k \in Wrong : i =< k
        <4> HIDE DEF Wrong
        <4> QED
          BY <3>1, <2>10, SmallestOf
      <3>3. i # 1
        BY <3>2, <2>3, <2>8
      <3>4. i - 1 \in 1 .. p /\ ~(i =< i - 1)
        BY <3>2, <3>3
      <3>5. flat[i - 1] = slice(i - 1)
        BY <3>2, <3>4
      <3>6. i \in 1 .. p /\ flat[i] # slice(i)
        BY <3>2
      <3> HIDE DEF Wrong
      <3>7. slice(i - 1) \o seqs[i] = slice(i)
        BY <3>3, <3>6, <2>2
      <3>8. flat[i] = flat[i - 1] \o seqs[i]
        BY <3>3, <3>6, <2>8
      <3> QED
        BY <3>5, <3>6, <3>7, <3>8
    <2>11. p \in 1 .. p
      BY <1>5
    <2>12. flat[p] = slice(p)
      BY <2>10, <2>11
    <2> QED
      BY <2>9, <2>12 DEF slice
  <1> QED
    BY <1>4, <1>5

\* Where the cuts lie.
LEMMA CutsAre ==
    ASSUME NEW f, NEW es \in Seq(Record), NEW cuts, Holding(f, es, cuts)
    PROVE  /\ Len(f.blocks) \in Nat /\ Len(es) \in Nat /\ DOMAIN f.blocks = 1 .. Len(f.blocks)
           /\ \A i \in 0 .. Len(f.blocks) : cuts[i] \in Nat /\ cuts[i] =< Len(es)
           /\ cuts[0] = 0 /\ cuts[Len(f.blocks)] = Len(es) /\ Len(f.index) = Len(f.blocks)
           /\ \A i \in 1 .. Len(f.blocks) :
                 /\ cuts[i - 1] < cuts[i] /\ f.index[i] = es[cuts[i]].key
                 /\ Held(f.blocks[i], es, cuts[i - 1], cuts[i])
  <1>1. PICK p : p = Len(f.blocks)
    OBVIOUS
  <1>2. /\ f.blocks \in Seq(Block) /\ Cut(f.blocks, f.index, es, cuts) /\ cuts[p] = Len(es)
    BY <1>1 DEF Holding
  <1>3. p \in Nat /\ Len(es) \in Nat /\ DOMAIN f.blocks = 1 .. p
    BY <1>1, <1>2
  <1>4. /\ cuts \in [0 .. p -> 0 .. Len(es)] /\ cuts[0] = 0 /\ Len(f.index) = p
        /\ \A b \in 1 .. p :
              /\ cuts[b - 1] < cuts[b] /\ f.index[b] = es[cuts[b]].key
              /\ Encodes(f.blocks[b], es, cuts[b - 1], cuts[b])
    BY <1>1, <1>2 DEF Cut
  <1>5. \A i \in 0 .. p : cuts[i] \in Nat /\ cuts[i] =< Len(es)
    BY <1>3, <1>4
  <1>6. \A i \in 1 .. p : i \in 0 .. p /\ i - 1 \in 0 .. p
    BY <1>3
  <1>7. \A i \in 1 .. p : Held(f.blocks[i], es, cuts[i - 1], cuts[i])
    BY <1>3, <1>4, <1>5, <1>6 DEF Held
  <1> QED
    BY <1>1, <1>2, <1>3, <1>4, <1>5, <1>7

\* The iterator from block n on stops at the first bad block, or at the end.
StopsAt(f, bad, n, stop) ==
    /\ stop \in n .. Len(f.blocks) + 1
    /\ stop = Len(f.blocks) + 1 \/ stop \in bad
    /\ \A m \in n .. stop - 1 : m \notin bad

Delivers(f, es, cuts, bad, n, stop) ==
    /\ StopsAt(f, bad, n, stop)
    /\ EntriesFrom(f, bad, n) = SubSeq(es, cuts[n - 1] + 1, cuts[stop - 1])

LEMMA EntriesFromIs ==
    ASSUME NEW f, NEW es \in Seq(Record), NEW cuts, Holding(f, es, cuts),
           NEW bad \in SUBSET (1 .. Len(f.blocks)), NEW n \in 1 .. Len(f.blocks) + 1
    PROVE  \E stop : Delivers(f, es, cuts, bad, n, stop)
  <1>1. PICK p : p = Len(f.blocks)
    OBVIOUS
  <1>2. /\ p \in Nat /\ Len(es) \in Nat
        /\ \A i \in 0 .. p : cuts[i] \in Nat /\ cuts[i] =< Len(es)
        /\ \A i \in 1 .. p : cuts[i - 1] < cuts[i] /\ Held(f.blocks[i], es, cuts[i - 1], cuts[i])
    BY <1>1, CutsAre
  <1> DEFINE T == {m \in bad : m >= n} \cup {p + 1}
  <1>3. T \in SUBSET Nat /\ T # {}
    <2>1. p \in Nat
      BY <1>2
    <2>2. p + 1 \in Nat
      BY <2>1
    <2>3. \A m \in bad : m \in Nat
      OBVIOUS
    <2> QED
      BY <2>2, <2>3
  <1>4. PICK stop \in T : \A m \in T : stop =< m
    <2> HIDE DEF T
    <2> QED
      BY <1>3, SmallestOf
  <1>5. Min(T) = stop
    <2>1. \A x \in T : (\A y \in T : x =< y) => x = stop
      BY <1>3, <1>4
    <2> HIDE DEF T
    <2> QED
      BY <2>1, <1>4 DEF Min
  <1>6. n \in 1 .. p + 1 /\ stop \in n .. p + 1
    BY <1>1, <1>2, <1>4
  <1>7. \A m \in n .. stop - 1 : m \notin bad
    <2> SUFFICES ASSUME NEW m \in n .. stop - 1, m \in bad PROVE FALSE
      OBVIOUS
    <2>1. m \in T /\ ~(stop =< m)
      BY <1>6
    <2> QED
      BY <2>1, <1>4
  <1>8. stop = p + 1 \/ stop \in bad
    BY <1>4
  <1>9. ReadableFrom(f, bad, n) = n .. stop - 1
    BY <1>1, <1>5 DEF ReadableFrom
  <1> HIDE DEF T
  <1>10. PICK q : q = stop - n
    OBVIOUS
  <1>11. q \in Nat /\ Cardinality(n .. stop - 1) = q
    <2>1. Cardinality(n .. stop - 1) = IF n > stop - 1 THEN 0 ELSE (stop - 1) - n + 1
      BY <1>6, <1>2, FS_Interval
    <2> QED
      BY <2>1, <1>2, <1>6, <1>10
  <1> DEFINE c == [i \in 0 .. q |-> cuts[n + i - 1]]
             seqs == [i \in 1 .. q |-> EntriesAt(BlockFrom(f.blocks[n + i - 1], 1))]
  <1>12. EntriesFrom(f, bad, n) = FlattenSeq(seqs)
    BY <1>9, <1>11 DEF EntriesFrom
  <1>13. \A i \in 0 .. q : n + i - 1 \in 0 .. p
    BY <1>2, <1>6, <1>10
  <1>14. \A i \in 1 .. q : /\ n + i - 1 \in 1 .. p /\ n + (i - 1) - 1 = (n + i - 1) - 1
                           /\ i \in 0 .. q /\ i - 1 \in 0 .. q
    BY <1>2, <1>6, <1>10
  <1>15. c \in [0 .. q -> 0 .. Len(es)]
    BY <1>2, <1>13
  <1>16. \A i \in 1 .. q : c[i - 1] = cuts[(n + i - 1) - 1] /\ c[i] = cuts[n + i - 1]
    BY <1>14
  <1>17. \A i \in 1 .. q : c[i - 1] =< c[i]
    <2> TAKE i \in 1 .. q
    <2>1. cuts[(n + i - 1) - 1] < cuts[n + i - 1]
      BY <1>2, <1>14
    <2>2. c[i - 1] \in Nat /\ c[i] \in Nat
      BY <1>14, <1>15, <1>2
    <2> HIDE DEF c
    <2> QED
      BY <2>1, <2>2, <1>16
  <1>18. \A i \in 1 .. q : EntriesAt(BlockFrom(f.blocks[n + i - 1], 1)) = SubSeq(es, c[i - 1] + 1, c[i])
    <2> TAKE i \in 1 .. q
    <2>1. Held(f.blocks[n + i - 1], es, c[i - 1], c[i])
      BY <1>2, <1>14, <1>16
    <2> HIDE DEF c
    <2> QED
      BY <2>1, BlockEntries
  <1>19. c[0] = cuts[n - 1] /\ c[q] = cuts[stop - 1]
    <2>1. 0 \in 0 .. q /\ q \in 0 .. q /\ n + 0 - 1 = n - 1 /\ n + q - 1 = stop - 1
      BY <1>2, <1>6, <1>10, <1>11
    <2> QED
      BY <2>1
  <1> HIDE DEF c
  <1>20. seqs = [i \in 1 .. q |-> SubSeq(es, c[i - 1] + 1, c[i])]
    BY <1>18
  <1> HIDE DEF seqs
  <1>21. FlattenSeq(seqs) = SubSeq(es, c[0] + 1, c[q])
    BY <1>11, <1>15, <1>17, <1>20, FlattenSlices
  <1>22. StopsAt(f, bad, n, stop)
    BY <1>1, <1>6, <1>7, <1>8 DEF StopsAt
  <1> QED
    BY <1>12, <1>19, <1>21, <1>22 DEF Delivers

\* What is read of a file is what was written, as far as it can be read.
LEMMA ScanIs ==
    ASSUME NEW f, NEW es, FileOf(f, es), NEW bad \in SUBSET (1 .. Len(f.blocks))
    PROVE  /\ Scan(f, {}) = es
           /\ \E m \in 0 .. Len(es) : Scan(f, bad) = SubSeq(es, 1, m)
  <1>1. PICK cuts : Holding(f, es, cuts)
    BY DEF FileOf
  <1>2. es \in Seq(Record)
    BY DEF FileOf
  <1>3. PICK p : p = Len(f.blocks)
    OBVIOUS
  <1>4. /\ p \in Nat /\ Len(es) \in Nat /\ cuts[0] = 0 /\ cuts[p] = Len(es)
        /\ \A i \in 0 .. p : cuts[i] \in Nat /\ cuts[i] =< Len(es)
    BY <1>1, <1>2, <1>3, CutsAre
  <1>5. 1 \in 1 .. Len(f.blocks) + 1 /\ 1 - 1 = 0 /\ 0 + 1 = 1 /\ (p + 1) - 1 = p
        /\ {} \in SUBSET (1 .. Len(f.blocks))
    BY <1>3, <1>4
  <1>6. \A d \in SUBSET (1 .. Len(f.blocks)) :
           \E stop : StopsAt(f, d, 1, stop) /\ Scan(f, d) = SubSeq(es, 1, cuts[stop - 1])
    <2> TAKE d \in SUBSET (1 .. Len(f.blocks))
    <2>1. PICK one : one = 1
      OBVIOUS
    <2>2. \E stop : Delivers(f, es, cuts, d, one, stop)
      BY <2>1, <1>1, <1>2, <1>5, EntriesFromIs
    <2> QED
      BY <2>1, <2>2, <1>4, <1>5 DEF Scan, Delivers
  <1>7. Scan(f, {}) = es
    <2>1. PICK stop : StopsAt(f, {}, 1, stop) /\ Scan(f, {}) = SubSeq(es, 1, cuts[stop - 1])
      BY <1>5, <1>6
    <2>2. stop = p + 1
      BY <2>1, <1>3 DEF StopsAt
    <2> QED
      BY <2>1, <2>2, <1>2, <1>4, <1>5, SubSeqFull
  <1>8. \E m \in 0 .. Len(es) : Scan(f, bad) = SubSeq(es, 1, m)
    <2>1. PICK stop : StopsAt(f, bad, 1, stop) /\ Scan(f, bad) = SubSeq(es, 1, cuts[stop - 1])
      BY <1>6
    <2>2. stop - 1 \in 0 .. p
      BY <2>1, <1>3, <1>4 DEF StopsAt
    <2>3. cuts[stop - 1] \in 0 .. Len(es)
      BY <2>2, <1>4
    <2> QED
      BY <2>1, <2>3
  <1> QED
    BY <1>7, <1>8

-----------------------------------------------------------------------------
(* The merge.                                                                *)

\* A finite set has a least element in a strict order of it, given as the pairs.
LEMMA LeastElement ==
    ASSUME NEW S, IsFiniteSet(S), S # {}, NEW R,
           \A x, y \in S : x = y \/ <<x, y>> \in R \/ <<y, x>> \in R,
           \A x, y, z \in S : <<x, y>> \in R /\ <<y, z>> \in R => <<x, z>> \in R
    PROVE  \E x \in S : \A y \in S \ {x} : <<x, y>> \in R
  <1> DEFINE Lowest(U, x) == x \in U /\ \A y \in U \ {x} : <<x, y>> \in R
             Bad == {U \in SUBSET S : U # {} /\ \A x \in U : ~Lowest(U, x)}
             T == {Cardinality(U) : U \in Bad}
  <1>1. \A U \in SUBSET S : IsFiniteSet(U) /\ Cardinality(U) \in Nat
    BY FS_Subset, FS_CardinalityType
  <1>2. ASSUME NEW W \in Bad PROVE FALSE
    <2>1. T \in SUBSET Nat /\ T # {}
      BY <1>1, <1>2
    <2>2. PICK c \in T : \A d \in T : c =< d
      BY <2>1, SmallestOf
    <2>3. PICK U \in Bad : c = Cardinality(U)
      OBVIOUS
    <2>4. PICK u \in U : TRUE
      OBVIOUS
    <2> DEFINE V == U \ {u}
    <2>5. V \in SUBSET S /\ Cardinality(V) = Cardinality(U) - 1
      BY <1>1, <2>3, <2>4, FS_RemoveElement
    <2>6. V \notin Bad
      <3> SUFFICES ASSUME V \in Bad PROVE FALSE
        OBVIOUS
      <3>1. Cardinality(V) \in T
        OBVIOUS
      <3>2. Cardinality(U) =< Cardinality(V)
        BY <3>1, <2>2, <2>3
      <3>3. Cardinality(U) \in Nat /\ Cardinality(V) \in Nat
        BY <1>1, <2>5
      <3> HIDE DEF V
      <3> QED
        BY <3>2, <3>3, <2>5
    <2>7. CASE V = {}
      <3>1. Lowest(U, u)
        BY <2>7, <2>4
      <3> QED
        BY <3>1, <2>3
    <2>8. CASE V # {}
      <3>1. PICK v \in V : Lowest(V, v)
        BY <2>5, <2>6, <2>8
      <3>2. u \in S /\ v \in S /\ U \in SUBSET S
        BY <2>3
      <3>3. <<v, u>> \in R => Lowest(U, v)
        BY <3>1
      <3>4. <<u, v>> \in R => Lowest(U, u)
        <4> SUFFICES ASSUME <<u, v>> \in R, NEW y \in U \ {u} PROVE <<u, y>> \in R
          BY <2>4
        <4>1. y \in S /\ (y = v \/ <<v, y>> \in R)
          BY <3>1, <3>2
        <4> QED
          BY <4>1, <3>2
      <3>5. <<v, u>> \in R \/ <<u, v>> \in R
        BY <3>1, <3>2
      <3> QED
        BY <3>3, <3>4, <3>5, <2>3, <3>1, <2>4
    <2> QED
      BY <2>7, <2>8
  <1>3. S \notin Bad
    BY <1>2
  <1> QED
    BY <1>3

Items(D) == [idx : D, entry : Record]

\* Items of different inputs are ordered by ItemLess.
LEMMA ItemLessOrders ==
    ASSUME NEW D \in SUBSET Nat
    PROVE  /\ \A x, y \in Items(D) : x.idx # y.idx => ItemLess(x, y) \/ ItemLess(y, x)
           /\ \A x, y, z \in Items(D) : ItemLess(x, y) /\ ItemLess(y, z) => ItemLess(x, z)
           /\ \A x, y \in Items(D) : ItemLess(x, y) =>
                 /\ ~KeyLess(y.entry.key, x.entry.key)
                 /\ y.entry.key = x.entry.key => y.entry.seq =< x.entry.seq
  <1>1. \A x \in Items(D) : x.idx \in Nat /\ x.entry.key \in Key /\ x.entry.seq \in Nat
    BY KeysAreKeys DEF Items, Record
  <1>2. \A x, y \in Items(D) :
          \/ x.entry.key = y.entry.key
          \/ KeyLess(x.entry.key, y.entry.key)
          \/ KeyLess(y.entry.key, x.entry.key)
    BY <1>1, KeyLessTotal
  <1>3. \A x, y, z \in Items(D) :
          KeyLess(x.entry.key, y.entry.key) /\ KeyLess(y.entry.key, z.entry.key)
            => KeyLess(x.entry.key, z.entry.key)
    BY <1>1, KeyLessTransitive
  <1>4. \A x, y \in Items(D) :
          KeyLess(x.entry.key, y.entry.key)
            => ~KeyLess(y.entry.key, x.entry.key) /\ x.entry.key # y.entry.key
    BY <1>1, KeyLessTransitive, KeyLessIrreflexive
  <1>5. ASSUME NEW x \in Items(D), NEW y \in Items(D), x.idx # y.idx
        PROVE  ItemLess(x, y) \/ ItemLess(y, x)
    <2>1. x.idx < y.idx \/ y.idx < x.idx
      BY <1>1, <1>5
    <2>2. x.entry.seq < y.entry.seq \/ y.entry.seq < x.entry.seq \/ x.entry.seq = y.entry.seq
      BY <1>1
    <2> QED
      BY <2>1, <2>2, <1>1, <1>2 DEF ItemLess
  <1>6. ASSUME NEW x \in Items(D), NEW y \in Items(D), NEW z \in Items(D), ItemLess(x, y), ItemLess(y, z)
        PROVE  ItemLess(x, z)
    <2>1. CASE KeyLess(x.entry.key, y.entry.key)
      <3>1. KeyLess(y.entry.key, z.entry.key) \/ y.entry.key = z.entry.key
        BY <1>6 DEF ItemLess
      <3> QED
        BY <2>1, <3>1, <1>3 DEF ItemLess
    <2>2. CASE ~KeyLess(x.entry.key, y.entry.key)
      <3>1. x.entry.key = y.entry.key
        BY <2>2, <1>6 DEF ItemLess
      <3>2. CASE KeyLess(y.entry.key, z.entry.key)
        BY <3>1, <3>2 DEF ItemLess
      <3>3. CASE ~KeyLess(y.entry.key, z.entry.key)
        <4>1. /\ y.entry.seq > z.entry.seq \/ (y.entry.seq = z.entry.seq /\ y.idx < z.idx)
              /\ y.entry.key = z.entry.key
          BY <3>3, <1>6 DEF ItemLess
        <4>2. x.entry.seq > y.entry.seq \/ (x.entry.seq = y.entry.seq /\ x.idx < y.idx)
          BY <2>2, <1>6 DEF ItemLess
        <4>3. x.entry.seq > z.entry.seq \/ (x.entry.seq = z.entry.seq /\ x.idx < z.idx)
          BY <4>1, <4>2, <1>1
        <4> QED
          BY <3>1, <4>1, <4>3 DEF ItemLess
      <3> QED
        BY <3>2, <3>3
    <2> QED
      BY <2>1, <2>2
  <1>7. ASSUME NEW x \in Items(D), NEW y \in Items(D), ItemLess(x, y)
        PROVE  /\ ~KeyLess(y.entry.key, x.entry.key)
               /\ y.entry.key = x.entry.key => y.entry.seq =< x.entry.seq
    <2>1. KeyLess(x.entry.key, y.entry.key) \/ x.entry.key = y.entry.key
      BY <1>7 DEF ItemLess
    <2>2. ASSUME y.entry.key = x.entry.key PROVE y.entry.seq =< x.entry.seq
      <3>1. ~KeyLess(x.entry.key, y.entry.key)
        BY <2>2, <1>1, KeyLessIrreflexive
      <3>2. x.entry.seq > y.entry.seq \/ x.entry.seq = y.entry.seq
        BY <3>1, <1>7 DEF ItemLess
      <3> QED
        BY <3>2, <1>1
    <2> QED
      BY <2>1, <2>2, <1>1, <1>4, KeyLessIrreflexive
  <1> QED
    BY <1>5, <1>6, <1>7

\* The sum of the lengths of what the inputs have left.
Remaining(rest, D, q) ==
    \E f : Sums(f, D, [i \in D |-> Len(rest[i])]) /\ f[D] = q

LEMMA SumsNat ==
    ASSUME NEW S, IsFiniteSet(S), NEW w, \A k \in S : w[k] \in Nat, NEW f, Sums(f, S, w)
    PROVE  /\ \A s \in SUBSET S : f[s] \in Nat
           /\ (\A k \in S : w[k] = 0) => f[S] = 0
  <1>1. \A s \in SUBSET S : f[s] = IF s = {} THEN 0 ELSE w[Picked(s)] + f[s \ {Picked(s)}]
    BY DEF Sums
  <1>2. \A s \in SUBSET S : IsFiniteSet(s) /\ Cardinality(s) \in Nat
    BY FS_Subset, FS_CardinalityType
  <1> DEFINE Good(s) == f[s] \in Nat /\ ((\A k \in S : w[k] = 0) => f[s] = 0)
             Bad == {s \in SUBSET S : ~Good(s)}
             T == {Cardinality(s) : s \in Bad}
  <1>3. ASSUME NEW b \in Bad PROVE FALSE
    <2>1. T \in SUBSET Nat /\ T # {}
      BY <1>2, <1>3
    <2>2. PICK c \in T : \A d \in T : c =< d
      BY <2>1, SmallestOf
    <2>3. PICK s \in Bad : c = Cardinality(s)
      OBVIOUS
    <2>4. s # {} /\ f[s] = w[Picked(s)] + f[s \ {Picked(s)}]
      BY <2>3, <1>1
    <2>5. Picked(s) \in s
      BY <2>4 DEF Picked
    <2> DEFINE t == s \ {Picked(s)}
    <2>6. t \in SUBSET S /\ Cardinality(t) = Cardinality(s) - 1
      BY <2>3, <2>5, <1>2, FS_RemoveElement
    <2>7. t \notin Bad
      <3> SUFFICES ASSUME t \in Bad PROVE FALSE
        OBVIOUS
      <3>1. Cardinality(s) =< Cardinality(t)
        BY <2>2, <2>3
      <3>2. Cardinality(s) \in Nat
        BY <2>3, <1>2
      <3> HIDE DEF t
      <3> QED
        BY <3>1, <3>2, <2>6
    <2>8. Good(t) /\ w[Picked(s)] \in Nat /\ Picked(s) \in S
      BY <2>3, <2>5, <2>6, <2>7
    <2> HIDE DEF t
    <2>9. f[s] = w[Picked(s)] + f[t]
      BY <2>4 DEF t
    <2> QED
      BY <2>3, <2>8, <2>9
  <1>4. \A s \in SUBSET S : Good(s)
    BY <1>3
  <1> QED
    BY <1>4

\* An entry less.
LEMMA RemainingLess ==
    ASSUME NEW D, IsFiniteSet(D), NEW E, NEW rest \in [D -> Seq(E)], NEW q, Remaining(rest, D, q),
           NEW i \in D, rest[i] # <<>>
    PROVE  Remaining([rest EXCEPT ![i] = Tail(@)], D, q - 1)
  <1>1. PICK f : Sums(f, D, [j \in D |-> Len(rest[j])]) /\ f[D] = q
    BY DEF Remaining
  <1>2. PICK next : next = [rest EXCEPT ![i] = Tail(@)]
    OBVIOUS
  <1>3. /\ \A j \in D : rest[j] \in Seq(E) /\ Len(rest[j]) \in Nat
        /\ Len(Tail(rest[i])) = Len(rest[i]) - 1 /\ Len(rest[i]) - 1 \in Nat
    BY HeadTailProperties
  <1>4. \A j \in D : next[j] = IF j = i THEN Tail(rest[i]) ELSE rest[j]
    BY <1>2
  <1> DEFINE v == [j \in D |-> Len(rest[j])]
             w == [j \in D |-> Len(next[j])]
  <1>5. PICK g : Sums(g, D, w)
    BY SumsExist
  <1>6. \A j \in D : v[j] = Len(rest[j])
    OBVIOUS
  <1>7. \A j \in D : w[j] = IF j = i THEN Len(Tail(rest[i])) ELSE Len(rest[j])
    BY <1>4
  <1>8. Sums(f, D, v)
    BY <1>1
  <1> HIDE DEF v, w
  <1>9. \A j \in D : v[j] \in Int
    BY <1>3, <1>6
  <1>10. \A j \in D : w[j] \in Int
    BY <1>3, <1>7
  <1>11. f[D] = v[i] + f[D \ {i}]
    <2>1. D \in SUBSET D
      OBVIOUS
    <2> QED
      BY <2>1, <1>8, <1>9, SumsStep
  <1>12. g[D] = w[i] + g[D \ {i}]
    <2>1. D \in SUBSET D
      OBVIOUS
    <2> QED
      BY <2>1, <1>5, <1>10, SumsStep
  <1>13. f[D \ {i}] = g[D \ {i}]
    <2>1. \A j \in D \ {i} : v[j] = w[j]
      BY <1>6, <1>7
    <2>2. D \ {i} \in SUBSET D
      OBVIOUS
    <2> QED
      BY <2>1, <2>2, <1>5, <1>8, SumsAgree
  <1>14. g[D \ {i}] \in Int
    <2>1. g \in [SUBSET D -> Int]
      BY <1>5, <1>10, SumsType
    <2> QED
      BY <2>1
  <1>15. v[i] = Len(rest[i]) /\ w[i] = Len(rest[i]) - 1
    BY <1>3, <1>6, <1>7
  <1>16. g[D] = q - 1
    BY <1>1, <1>3, <1>11, <1>12, <1>13, <1>14, <1>15
  <1> QED
    BY <1>2, <1>5, <1>16 DEF Remaining, w

StandsOn(rest, i) == [idx |-> i, entry |-> Head(rest[i])]

\* The entry e, or a newer version of its key, is in es.
Outdone(e, es) == \E x \in ToSet(es) : x.key = e.key /\ x.seq >= e.seq

\* The Writer has taken es: the last of it is the newest version of the last key, and
\* what the inputs had is in it, outdone by it, or still to come.
Merged(m, inputs, D, es) ==
    /\ Taken(m.w, es) /\ LastOf(es) = m.lastKey
    /\ \A i \in D : m.rest[i] # <<>> /\ m.rest[i][1].key = m.lastKey =>
                       m.rest[i][1].seq =< es[Len(es)].seq
    /\ \A i \in D : \A e \in ToSet(inputs[i]) : e \in ToSet(m.rest[i]) \/ Outdone(e, es)

\* Between two turns of the loop: what is left of each input is in order and not
\* below the last key.
MergeInv(m, inputs, D, E, q) ==
    /\ m.rest \in [D -> Seq(E)]
    /\ \A i \in D : Ascending(m.rest[i])
    /\ m.heap = Standing(m.rest, D)
    /\ m.lastKey \in Places
    /\ \A i \in D : m.rest[i] # <<>> => ~KeyLess(m.rest[i][1].key, m.lastKey)
    /\ \E es \in Seq(E) : Merged(m, inputs, D, es)
    /\ Remaining(m.rest, D, q)

LEMMA SeqWider ==
    ASSUME NEW S, NEW E \in SUBSET S
    PROVE  Seq(E) \subseteq Seq(S)
  <1> SUFFICES ASSUME NEW s \in Seq(E) PROVE s \in Seq(S)
    OBVIOUS
  <1>1. Len(s) \in Nat /\ s = [i \in 1 .. Len(s) |-> s[i]] /\ \A i \in 1 .. Len(s) : s[i] \in S
    OBVIOUS
  <1> QED
    BY <1>1

LEMMA StandingIs ==
    ASSUME NEW D \in SUBSET Nat, IsFiniteSet(D), NEW rest \in [D -> Seq(Record)]
    PROVE  /\ \A x : x \in Standing(rest, D) <=>
                        \E i \in D : rest[i] # <<>> /\ x = StandsOn(rest, i)
           /\ Standing(rest, D) \subseteq Items(D) /\ IsFiniteSet(Standing(rest, D))
           /\ \A i \in D : rest[i] # <<>> =>
                 /\ StandsOn(rest, i) \in Items(D) /\ Head(rest[i]) = rest[i][1]
                 /\ StandsOn(rest, i).idx = i /\ StandsOn(rest, i).entry = rest[i][1]
                 /\ rest[i][1] \in Record
  <1>1. \A i \in D : rest[i] # <<>> => Head(rest[i]) = rest[i][1] /\ rest[i][1] \in Record
    <2> SUFFICES ASSUME NEW i \in D, rest[i] # <<>>
                 PROVE  Head(rest[i]) = rest[i][1] /\ rest[i][1] \in Record
      OBVIOUS
    <2>1. rest[i] \in Seq(Record)
      OBVIOUS
    <2> QED
      BY <2>1, HeadTailProperties
  <1>2. \A i \in D : rest[i] # <<>> =>
           /\ StandsOn(rest, i) \in Items(D)
           /\ StandsOn(rest, i).idx = i /\ StandsOn(rest, i).entry = rest[i][1]
    BY <1>1 DEF StandsOn, Items
  <1>3. \A x : x \in Standing(rest, D) <=> \E i \in D : rest[i] # <<>> /\ x = StandsOn(rest, i)
    BY DEF Standing, StandsOn
  <1>4. IsFiniteSet(Standing(rest, D))
    <2> DEFINE U == {j \in D : rest[j] # <<>>}
    <2>1. IsFiniteSet(U)
      BY FS_Subset
    <2>2. Standing(rest, D) = {StandsOn(rest, i) : i \in U}
      BY DEF Standing, StandsOn
    <2> DEFINE f == [i \in U |-> StandsOn(rest, i)]
    <2>3. f \in [U -> Standing(rest, D)] /\ \A x \in Standing(rest, D) : \E i \in U : f[i] = x
      BY <2>2
    <2> HIDE DEF U, f
    <2>4. f \in Surjection(U, Standing(rest, D))
      BY <2>3 DEF Surjection
    <2> QED
      BY <2>1, <2>4, FS_Surjection
  <1> QED
    BY <1>1, <1>2, <1>3, <1>4

\* Input i stands on the least item.
Leads(rest, D, i) ==
    /\ rest[i] # <<>>
    /\ \A j \in D : j # i /\ rest[j] # <<>> =>
          /\ ~KeyLess(rest[j][1].key, rest[i][1].key)
          /\ rest[j][1].key = rest[i][1].key => rest[j][1].seq =< rest[i][1].seq

\* The heap has a least item.
LEMMA LeastStanding ==
    ASSUME NEW D \in SUBSET Nat, IsFiniteSet(D), NEW rest \in [D -> Seq(Record)],
           NEW d \in D, rest[d] # <<>>,
           NEW x, x = CHOOSE i \in Standing(rest, D) : \A y \in Standing(rest, D) \ {i} : ItemLess(i, y)
    PROVE  \E i \in D : Leads(rest, D, i) /\ x = StandsOn(rest, i)
  <1> DEFINE H == Standing(rest, D)
             R == {p \in H \X H : ItemLess(p[1], p[2])}
  <1>1. /\ \A y : y \in H <=> \E i \in D : rest[i] # <<>> /\ y = StandsOn(rest, i)
        /\ H \subseteq Items(D) /\ IsFiniteSet(H)
        /\ \A i \in D : rest[i] # <<>> =>
              /\ StandsOn(rest, i) \in Items(D)
              /\ StandsOn(rest, i).idx = i /\ StandsOn(rest, i).entry = rest[i][1]
    BY StandingIs
  <1>2. \A y, z \in H : <<y, z>> \in R <=> ItemLess(y, z)
    OBVIOUS
  <1> HIDE DEF R
  <1>3. \A y, z \in H : y = z \/ ItemLess(y, z) \/ ItemLess(z, y)
    <2> SUFFICES ASSUME NEW y \in H, NEW z \in H, y # z PROVE ItemLess(y, z) \/ ItemLess(z, y)
      OBVIOUS
    <2>1. PICK i \in D : rest[i] # <<>> /\ y = StandsOn(rest, i)
      BY <1>1
    <2>2. PICK j \in D : rest[j] # <<>> /\ z = StandsOn(rest, j)
      BY <1>1
    <2> HIDE DEF H
    <2>3. y \in Items(D) /\ z \in Items(D)
      BY <1>1
    <2>4. y.idx = i /\ z.idx = j
      BY <2>1, <2>2, <1>1
    <2>5. i # j
      BY <2>1, <2>2
    <2> QED
      BY <2>3, <2>4, <2>5, ItemLessOrders
  <1>4. \A u, v, w \in H : ItemLess(u, v) /\ ItemLess(v, w) => ItemLess(u, w)
    BY <1>1, ItemLessOrders
  <1>5. H # {}
    BY <1>1
  <1>6. \E u \in H : \A y \in H \ {u} : <<u, y>> \in R
    <2>1. \A y, z \in H : y = z \/ <<y, z>> \in R \/ <<z, y>> \in R
      BY <1>2, <1>3
    <2>2. \A u, v, w \in H : <<u, v>> \in R /\ <<v, w>> \in R => <<u, w>> \in R
      BY <1>2, <1>4
    <2> HIDE DEF H
    <2> QED
      BY <2>1, <2>2, <1>1, <1>5, LeastElement
  <1>7. \E u \in H : \A y \in H \ {u} : ItemLess(u, y)
    BY <1>2, <1>6
  <1>8. x \in H /\ \A y \in H \ {x} : ItemLess(x, y)
    BY <1>7
  <1>9. PICK i \in D : rest[i] # <<>> /\ x = StandsOn(rest, i)
    BY <1>1, <1>8
  <1>10. ASSUME NEW j \in D, j # i, rest[j] # <<>>
         PROVE  /\ ~KeyLess(rest[j][1].key, rest[i][1].key)
                /\ rest[j][1].key = rest[i][1].key => rest[j][1].seq =< rest[i][1].seq
    <2>1. PICK y : y = StandsOn(rest, j)
      OBVIOUS
    <2>2. y \in H /\ y \in Items(D) /\ x \in Items(D) /\ y # x
      <3>1. y.idx = j /\ x.idx = i /\ y \in Items(D) /\ x \in Items(D)
        BY <2>1, <1>1, <1>9, <1>10
      <3>2. y \in H
        BY <2>1, <1>1, <1>10
      <3>3. y # x
        BY <3>1, <1>10
      <3> QED
        BY <3>1, <3>2, <3>3
    <2>3. ItemLess(x, y)
      BY <2>2, <1>8
    <2>4. /\ ~KeyLess(y.entry.key, x.entry.key)
          /\ y.entry.key = x.entry.key => y.entry.seq =< x.entry.seq
      BY <2>2, <2>3, ItemLessOrders
    <2> QED
      BY <2>1, <2>4, <1>1, <1>9, <1>10
  <1> QED
    BY <1>9, <1>10 DEF Leads

LEMMA AscendingTail ==
    ASSUME NEW es \in Seq(Record), Ascending(es), es # <<>>
    PROVE  /\ es[1] \in Record /\ Tail(es) \in Seq(Record) /\ Ascending(Tail(es))
           /\ ToSet(es) = {es[1]} \cup ToSet(Tail(es))
           /\ Tail(es) # <<>> => /\ Tail(es)[1].key \in Key /\ Tail(es)[1].key # es[1].key
                                /\ ~KeyLess(Tail(es)[1].key, es[1].key)
  <1>1. PICK t : t = Tail(es)
    OBVIOUS
  <1>2. /\ t \in Seq(Record) /\ Len(t) = Len(es) - 1 /\ Len(es) \in Nat /\ es[1] \in Record
        /\ \A i \in 1 .. Len(t) : t[i] = es[i + 1]
    BY <1>1, HeadTailProperties
  <1>3. \A i \in 2 .. Len(es) : KeyLess(es[i - 1].key, es[i].key)
    BY DEF Ascending
  <1>4. ASSUME NEW i \in 2 .. Len(t)
        PROVE  KeyLess(t[i - 1].key, t[i].key)
    <2>1. /\ i + 1 \in 2 .. Len(es) /\ (i + 1) - 1 = i /\ i - 1 \in 1 .. Len(t)
          /\ i \in 1 .. Len(t) /\ (i - 1) + 1 = i
      BY <1>2
    <2>2. KeyLess(es[(i + 1) - 1].key, es[i + 1].key)
      BY <1>3, <2>1
    <2>3. t[i] = es[i + 1] /\ t[i - 1] = es[(i - 1) + 1]
      BY <1>2, <2>1
    <2> QED
      BY <2>1, <2>2, <2>3
  <1>5. Ascending(t)
    BY <1>4 DEF Ascending
  <1>6. ASSUME t # <<>>
        PROVE  t[1].key \in Key /\ t[1].key # es[1].key /\ ~KeyLess(t[1].key, es[1].key)
    <2>1. 1 \in 1 .. Len(t) /\ 2 \in 2 .. Len(es) /\ 2 - 1 = 1 /\ 1 + 1 = 2
      BY <1>2, <1>6
    <2>2. t[1] = es[2] /\ KeyLess(es[1].key, es[2].key)
      BY <1>2, <1>3, <2>1
    <2>3. es[1].key \in Key /\ es[2].key \in Key
      <3>1. 1 \in 1 .. Len(es) /\ 2 \in 1 .. Len(es)
        BY <1>2, <2>1
      <3> QED
        BY <3>1, RecordsAre
    <2> QED
      BY <2>2, <2>3, KeyLessTransitive, KeyLessIrreflexive
  <1>7. ToSet(es) = {es[1]} \cup ToSet(t)
    <2>1. DOMAIN es = 1 .. Len(es) /\ DOMAIN t = 1 .. Len(t)
      BY <1>2
    <2>2. ASSUME NEW x \in ToSet(es) PROVE x \in {es[1]} \cup ToSet(t)
      <3>1. PICK i \in 1 .. Len(es) : x = es[i]
        BY <2>1, <2>2 DEF ToSet
      <3>2. CASE i = 1
        BY <3>1, <3>2
      <3>3. CASE i # 1
        <4>1. i - 1 \in 1 .. Len(t) /\ (i - 1) + 1 = i
          BY <3>3, <1>2
        <4>2. x = t[i - 1]
          BY <3>1, <4>1, <1>2
        <4> QED
          BY <4>1, <4>2, <2>1 DEF ToSet
      <3> QED
        BY <3>2, <3>3
    <2>3. es[1] \in ToSet(es)
      <3>1. 1 \in 1 .. Len(es)
        BY <1>2
      <3> QED
        BY <3>1, <2>1 DEF ToSet
    <2>4. ASSUME NEW x \in ToSet(t) PROVE x \in ToSet(es)
      <3>1. PICK i \in 1 .. Len(t) : x = t[i]
        BY <2>1, <2>4 DEF ToSet
      <3>2. i + 1 \in 1 .. Len(es) /\ x = es[i + 1]
        BY <3>1, <1>2
      <3> QED
        BY <3>2, <2>1 DEF ToSet
    <2> QED
      BY <2>2, <2>3, <2>4
  <1> QED
    BY <1>1, <1>2, <1>5, <1>6, <1>7

LEMMA OutdoneMore ==
    ASSUME NEW es \in Seq(Record), NEW e \in Record
    PROVE  /\ \A x : Outdone(x, es) => Outdone(x, Append(es, e))
           /\ Outdone(e, Append(es, e))
           /\ es # <<>> => es[Len(es)] \in ToSet(es) /\ es[Len(es)].seq \in Nat
  <1>1. /\ DOMAIN es = 1 .. Len(es) /\ DOMAIN Append(es, e) = 1 .. Len(es) + 1 /\ Len(es) \in Nat
        /\ \A i \in 1 .. Len(es) : Append(es, e)[i] = es[i]
        /\ Append(es, e)[Len(es) + 1] = e
    OBVIOUS
  <1>2. ToSet(es) \subseteq ToSet(Append(es, e))
    <2>1. \A i \in 1 .. Len(es) : i \in 1 .. Len(es) + 1
      BY <1>1
    <2> QED
      BY <2>1, <1>1 DEF ToSet
  <1>3. e \in ToSet(Append(es, e))
    <2>1. Len(es) + 1 \in 1 .. Len(es) + 1
      BY <1>1
    <2> QED
      BY <2>1, <1>1 DEF ToSet
  <1>4. e.seq >= e.seq
    BY DEF Record
  <1>5. es # <<>> => es[Len(es)] \in ToSet(es) /\ es[Len(es)].seq \in Nat
    <2> HAVE es # <<>>
    <2>1. Len(es) \in 1 .. Len(es)
      BY <1>1
    <2> QED
      BY <2>1, <1>1, RecordsAre DEF ToSet
  <1> QED
    BY <1>2, <1>3, <1>4, <1>5 DEF Outdone

\* The entry e, the first of the input i, which is not below the last key and the newest
\* of its key, is taken: from m to n.
Takes(m, n, D, i, e) ==
    /\ m.rest[i] # <<>> /\ e = m.rest[i][1]
    /\ ToSet(m.rest[i]) = {e} \cup ToSet(Tail(m.rest[i]))
    /\ \A j \in D : n.rest[j] = IF j = i THEN Tail(m.rest[i]) ELSE m.rest[j]
    /\ \A j \in D : n.rest[j] # <<>> => n.rest[j][1].seq \in Nat
    /\ \A j \in D : n.rest[j] # <<>> /\ n.rest[j][1].key = e.key => n.rest[j][1].seq =< e.seq
    /\ n.lastKey = e.key /\ n.w = IF e.key = m.lastKey THEN m.w ELSE Add(m.w, e)
    /\ e.key # m.lastKey => m.lastKey = NoKey \/ KeyLess(m.lastKey, e.key)

\* The Writer accepts it, or it is dropped as an older version of the last key.
LEMMA MergedMore ==
    ASSUME NEW D, NEW E \in SUBSET Record, NEW inputs, NEW m, NEW es \in Seq(E), Merged(m, inputs, D, es),
           NEW e \in E, NEW i \in D, NEW n, Takes(m, n, D, i, e)
    PROVE  \E fs \in Seq(E) : Merged(n, inputs, D, fs)
  <1>1. /\ Taken(m.w, es) /\ LastOf(es) = m.lastKey
        /\ \A j \in D : m.rest[j] # <<>> /\ m.rest[j][1].key = m.lastKey =>
                           m.rest[j][1].seq =< es[Len(es)].seq
        /\ \A j \in D : \A x \in ToSet(inputs[j]) : x \in ToSet(m.rest[j]) \/ Outdone(x, es)
    BY DEF Merged
  <1>2. es \in Seq(Record) /\ e \in Record /\ e.seq \in Nat /\ e.key \in Keys /\ e.key # NoKey
    <2>1. e \in Record /\ e.seq \in Nat /\ e.key \in Keys
      BY DEF Record
    <2> QED
      BY <2>1, <1>1, KeysAreKeys DEF Taken
  <1>3. \A j \in D : \A x \in ToSet(m.rest[j]) : x = e \/ x \in ToSet(n.rest[j])
    BY DEF Takes
  <1>4. /\ n.lastKey = e.key /\ n.w = IF e.key = m.lastKey THEN m.w ELSE Add(m.w, e)
        /\ e.key # m.lastKey => m.lastKey = NoKey \/ KeyLess(m.lastKey, e.key)
    BY DEF Takes
  <1>5. \A j \in D : n.rest[j] # <<>> => n.rest[j][1].seq \in Nat
    BY DEF Takes
  <1>6. \A j \in D : n.rest[j] # <<>> /\ n.rest[j][1].key = e.key => n.rest[j][1].seq =< e.seq
    BY DEF Takes
  <1>7. CASE e.key = m.lastKey
    <2>1. es # <<>>
      BY <1>1, <1>2, <1>7 DEF LastOf
    <2>2. PICK last : last = es[Len(es)]
      OBVIOUS
    <2>3. last \in ToSet(es) /\ last.seq \in Nat
      BY <2>1, <2>2, <1>2, OutdoneMore
    <2>4. last.key = e.key /\ e.seq =< last.seq
      <3>1. last.key = e.key
        BY <2>1, <2>2, <1>1, <1>7 DEF LastOf
      <3>2. m.rest[i] # <<>> /\ m.rest[i][1] = e
        BY DEF Takes
      <3> QED
        BY <2>2, <3>1, <3>2, <1>1, <1>7
    <2>5. Outdone(e, es)
      <3>1. last.seq >= e.seq
        BY <2>3, <2>4, <1>2
      <3> QED
        BY <3>1, <2>3, <2>4 DEF Outdone
    <2>6. \A j \in D : \A x \in ToSet(inputs[j]) : x \in ToSet(n.rest[j]) \/ Outdone(x, es)
      BY <2>5, <1>1, <1>3
    <2>7. \A j \in D : n.rest[j] # <<>> /\ n.rest[j][1].key = n.lastKey => n.rest[j][1].seq =< last.seq
      BY <2>3, <2>4, <1>2, <1>4, <1>5, <1>6
    <2> QED
      BY <2>2, <2>6, <2>7, <1>1, <1>7, <1>4 DEF Merged
  <1>8. CASE e.key # m.lastKey
    <2>1. PICK fs : fs = Append(es, e)
      OBVIOUS
    <2>2. Taken(Add(m.w, e), fs)
      BY <2>1, <1>1, <1>2, <1>8, <1>4, AddTaken
    <2>3. fs \in Seq(E) /\ fs # <<>> /\ fs[Len(fs)] = e
      BY <2>1
    <2>4. LastOf(fs) = e.key
      BY <2>3 DEF LastOf
    <2>5. (\A x : Outdone(x, es) => Outdone(x, fs)) /\ Outdone(e, fs)
      BY <2>1, <1>2, OutdoneMore
    <2>6. \A j \in D : \A x \in ToSet(inputs[j]) : x \in ToSet(n.rest[j]) \/ Outdone(x, fs)
      BY <2>5, <1>1, <1>3
    <2>7. Merged(n, inputs, D, fs)
      BY <2>2, <2>3, <2>4, <2>6, <1>8, <1>4, <1>6 DEF Merged
    <2> QED
      BY <2>3, <2>7
  <1> QED
    BY <1>7, <1>8

\* A turn of the loop: the item taken is not below the last key.
LEMMA MergeStepInv ==
    ASSUME NEW D \in SUBSET Nat, IsFiniteSet(D), NEW E \in SUBSET Record, NEW inputs,
           NEW m, NEW q \in Nat, q # 0, MergeInv(m, inputs, D, E, q)
    PROVE  MergeInv(MergeStep(m), inputs, D, E, q - 1)
  <1>1. PICK rest \in [D -> Seq(Record)] : rest = m.rest /\ rest \in [D -> Seq(E)]
    <2>1. m.rest \in [D -> Seq(E)]
      BY DEF MergeInv
    <2>2. m.rest \in [D -> Seq(Record)]
      BY <2>1, SeqWider
    <2> QED
      BY <2>1, <2>2
  <1>2. /\ m.heap = Standing(rest, D) /\ m.lastKey \in Places /\ Remaining(rest, D, q)
        /\ \A i \in D : Ascending(rest[i])
        /\ \A i \in D : rest[i] # <<>> => ~KeyLess(rest[i][1].key, m.lastKey)
    BY <1>1 DEF MergeInv
  <1>3. \E d \in D : rest[d] # <<>>
    <2> SUFFICES ASSUME \A d \in D : rest[d] = <<>> PROVE FALSE
      OBVIOUS
    <2> DEFINE v == [i \in D |-> Len(rest[i])]
    <2>1. PICK f : Sums(f, D, v) /\ f[D] = q
      BY <1>2 DEF Remaining
    <2>2. \A k \in D : v[k] = 0
      OBVIOUS
    <2> HIDE DEF v
    <2>3. \A k \in D : v[k] \in Nat
      BY <2>2
    <2>4. f[D] = 0
      BY <2>1, <2>2, <2>3, SumsNat
    <2> QED
      BY <2>1, <2>4
  <1>4. PICK x : x = CHOOSE i \in Standing(rest, D) : \A y \in Standing(rest, D) \ {i} : ItemLess(i, y)
    OBVIOUS
  <1>5. PICK i \in D : /\ rest[i] # <<>> /\ x = StandsOn(rest, i)
                       /\ \A j \in D : j # i /\ rest[j] # <<>> =>
                             /\ ~KeyLess(rest[j][1].key, rest[i][1].key)
                             /\ rest[j][1].key = rest[i][1].key => rest[j][1].seq =< rest[i][1].seq
    <2>1. PICK d \in D : rest[d] # <<>>
      BY <1>3
    <2>2. \E i \in D : Leads(rest, D, i) /\ x = StandsOn(rest, i)
      BY <2>1, <1>4, LeastStanding
    <2> QED
      BY <2>2 DEF Leads
  <1>6. PICK e : e = rest[i][1]
    OBVIOUS
  <1>7. /\ x.idx = i /\ x.entry = e /\ e \in Record
        /\ \A j \in D : rest[j] # <<>> => StandsOn(rest, j).idx = j
    BY <1>5, <1>6, StandingIs
  <1>8. PICK next : next = [rest EXCEPT ![i] = Tail(@)]
    OBVIOUS
  <1>9. /\ Tail(rest[i]) \in Seq(Record) /\ Ascending(Tail(rest[i])) /\ rest[i] \in Seq(Record)
        /\ ToSet(rest[i]) = {e} \cup ToSet(Tail(rest[i]))
        /\ Tail(rest[i]) # <<>> =>
              /\ Tail(rest[i])[1].key \in Key /\ Tail(rest[i])[1].key # e.key
              /\ ~KeyLess(Tail(rest[i])[1].key, e.key)
    BY <1>2, <1>5, <1>6, AscendingTail
  <1>10. \A j \in D : next[j] = IF j = i THEN Tail(rest[i]) ELSE rest[j]
    BY <1>8
  <1>11. next \in [D -> Seq(Record)] /\ next \in [D -> Seq(E)] /\ e \in E
    <2>1. rest[i] \in Seq(E)
      BY <1>1
    <2>2. Tail(rest[i]) \in Seq(E) /\ e \in E
      BY <2>1, <1>5, <1>6
    <2> QED
      BY <2>2, <1>1, <1>8, <1>9
  <1>12. PICK n : n = MergeStep(m)
    OBVIOUS
  <1>13. /\ n.rest = next /\ n.heap = (m.heap \ {x}) \cup Standing(next, {i})
         /\ n.lastKey = e.key
         /\ n.w = IF e.key = m.lastKey THEN m.w ELSE Add(m.w, e)
    <2> DEFINE item == CHOOSE y \in m.heap : \A z \in m.heap \ {y} : ItemLess(y, z)
               moved == [m.rest EXCEPT ![item.idx] = Tail(@)]
    <2>1. n = [rest    |-> moved,
               heap    |-> (m.heap \ {item}) \cup Standing(moved, {item.idx}),
               lastKey |-> item.entry.key,
               w       |-> IF item.entry.key = m.lastKey THEN m.w ELSE Add(m.w, item.entry)]
      BY <1>12 DEF MergeStep
    <2>2. item = x
      BY <1>2, <1>4
    <2> HIDE DEF item
    <2>3. moved = next
      BY <2>2, <1>1, <1>7, <1>8
    <2> HIDE DEF moved
    <2> QED
      BY <2>1, <2>2, <2>3, <1>7
  <1>14. \A j \in D : Ascending(next[j])
    BY <1>2, <1>9, <1>10
  <1>15. n.heap = Standing(next, D)
    <2>1. /\ \A y : y \in Standing(rest, D) <=> \E j \in D : rest[j] # <<>> /\ y = StandsOn(rest, j)
          /\ \A y : y \in Standing(next, D) <=> \E j \in D : next[j] # <<>> /\ y = StandsOn(next, j)
      BY <1>11, StandingIs
    <2>2. \A y : y \in Standing(next, {i}) <=> next[i] # <<>> /\ y = StandsOn(next, i)
      BY DEF Standing, StandsOn
    <2>3. \A j \in D : j # i => next[j] = rest[j] /\ StandsOn(next, j) = StandsOn(rest, j)
      BY <1>10 DEF StandsOn
    <2>4. \A j \in D : j # i /\ rest[j] # <<>> => StandsOn(rest, j) # x
      BY <1>7
    <2>5. \A y : y \in (Standing(rest, D) \ {x}) \cup Standing(next, {i}) <=> y \in Standing(next, D)
      <3> SUFFICES ASSUME NEW y
                   PROVE  (y \in Standing(rest, D) /\ y # x) \/ y \in Standing(next, {i})
                             <=> y \in Standing(next, D)
        OBVIOUS
      <3>1. (y \in Standing(rest, D) /\ y # x) <=>
               \E j \in D : j # i /\ rest[j] # <<>> /\ y = StandsOn(rest, j)
        BY <2>1, <2>4, <1>5
      <3>2. (\E j \in D : j # i /\ rest[j] # <<>> /\ y = StandsOn(rest, j)) <=>
            (\E j \in D : j # i /\ next[j] # <<>> /\ y = StandsOn(next, j))
        BY <2>3
      <3> QED
        BY <3>1, <3>2, <2>1, <2>2
    <2> QED
      BY <2>5, <1>2, <1>13
  <1>16. e.key \in Keys /\ e.key \in Places /\ e.key \in Key /\ e.key # NoKey /\ m.lastKey \in Key
    BY <1>2, <1>7, KeysAreKeys, NoKeyFirst DEF Record, Places
  <1>17. ASSUME NEW j \in D, next[j] # <<>>
         PROVE  ~KeyLess(next[j][1].key, e.key)
    <2>1. CASE j = i
      BY <2>1, <1>9, <1>10, <1>17
    <2>2. CASE j # i
      BY <2>2, <1>5, <1>6, <1>10, <1>17
    <2> QED
      BY <2>1, <2>2
  <1>18. \E es \in Seq(E) : Merged(n, inputs, D, es)
    <2>1. PICK es \in Seq(E) : Merged(m, inputs, D, es)
      BY DEF MergeInv
    <2>2. ASSUME NEW j \in D, next[j] # <<>>
          PROVE  /\ next[j][1].seq \in Nat
                 /\ next[j][1].key = e.key => next[j][1].seq =< e.seq
      <3>1. next[j][1].seq \in Nat
        <4>1. next[j] \in Seq(Record) /\ 1 \in 1 .. Len(next[j])
          BY <2>2, <1>11
        <4> QED
          BY <4>1, RecordsAre
      <3>2. next[j][1].key = e.key => next[j][1].seq =< e.seq
        <4>1. CASE j = i
          BY <4>1, <2>2, <1>9, <1>10
        <4>2. CASE j # i
          BY <4>2, <2>2, <1>5, <1>6, <1>10
        <4> QED
          BY <4>1, <4>2
      <3> QED
        BY <3>1, <3>2
    <2>3. e.key # m.lastKey => KeyLess(m.lastKey, e.key)
      <3>1. ~KeyLess(e.key, m.lastKey)
        BY <1>2, <1>5, <1>6
      <3> QED
        BY <3>1, <1>16, KeyLessTotal
    <2>4. /\ m.rest[i] # <<>> /\ e = m.rest[i][1]
          /\ ToSet(m.rest[i]) = {e} \cup ToSet(Tail(m.rest[i]))
          /\ \A j \in D : n.rest[j] = IF j = i THEN Tail(m.rest[i]) ELSE m.rest[j]
      BY <1>1, <1>5, <1>6, <1>9, <1>10, <1>13
    <2>5. /\ \A j \in D : n.rest[j] # <<>> => n.rest[j][1].seq \in Nat
          /\ \A j \in D : n.rest[j] # <<>> /\ n.rest[j][1].key = e.key => n.rest[j][1].seq =< e.seq
      BY <2>2, <1>13
    <2>6. n.lastKey = e.key /\ n.w = IF e.key = m.lastKey THEN m.w ELSE Add(m.w, e)
      BY <1>13
    <2>7. Takes(m, n, D, i, e)
      BY <2>3, <2>4, <2>5, <2>6 DEF Takes
    <2>8. e \in E
      BY <1>11
    <2> QED
      BY <2>1, <2>7, <2>8, <1>12, MergedMore
  <1>19. Remaining(next, D, q - 1)
    BY <1>2, <1>5, <1>8, RemainingLess
  <1> QED
    BY <1>11, <1>12, <1>13, <1>14, <1>15, <1>16, <1>17, <1>18, <1>19 DEF MergeInv

\* The loop of MergeFiles: what there is after each turn.
Turns(inputs, turns, after) ==
    after = [n \in 0 .. turns |-> IF n = 0 THEN MergeStart(inputs) ELSE MergeStep(after[n - 1])]

LEMMA TurnsExist ==
    ASSUME NEW inputs, NEW turns \in Nat
    PROVE  \E after : Turns(inputs, turns, after)
  <1> DEFINE Bad == {i \in Nat : \A g : ~Turns(inputs, i, g)}
  <1>1. 0 \notin Bad
    <2> DEFINE g == [n \in 0 .. 0 |-> MergeStart(inputs)]
    <2>1. \A n \in 0 .. 0 : n = 0
      OBVIOUS
    <2>2. Turns(inputs, 0, g)
      BY <2>1 DEF Turns
    <2> QED
      BY <2>2
  <1>2. ASSUME NEW i \in Nat, i \notin Bad PROVE i + 1 \notin Bad
    <2>1. PICK g : Turns(inputs, i, g)
      BY <1>2
    <2>2. \A n \in 0 .. i : g[n] = IF n = 0 THEN MergeStart(inputs) ELSE MergeStep(g[n - 1])
      BY <2>1 DEF Turns
    <2> DEFINE h == [n \in 0 .. i + 1 |-> IF n = i + 1 THEN MergeStep(g[i]) ELSE g[n]]
    <2>3. \A n \in 0 .. i : h[n] = g[n]
      OBVIOUS
    <2>4. h[i + 1] = MergeStep(g[i])
      OBVIOUS
    <2>5. h = [n \in 0 .. i + 1 |-> h[n]]
      OBVIOUS
    <2> HIDE DEF h
    <2>6. \A n \in 0 .. i + 1 : h[n] = IF n = 0 THEN MergeStart(inputs) ELSE MergeStep(h[n - 1])
      <3> TAKE n \in 0 .. i + 1
      <3>1. CASE n = i + 1
        <4>1. n # 0 /\ n - 1 = i /\ i \in 0 .. i
          BY <3>1
        <4> QED
          BY <3>1, <4>1, <2>3, <2>4
      <3>2. CASE n # i + 1
        <4>1. n \in 0 .. i /\ (n # 0 => n - 1 \in 0 .. i)
          BY <3>2
        <4> QED
          BY <4>1, <2>2, <2>3
      <3> QED
        BY <3>1, <3>2
    <2>7. Turns(inputs, i + 1, h)
      BY <2>5, <2>6 DEF Turns
    <2> QED
      BY <2>7
  <1>3. ASSUME NEW b \in Bad PROVE FALSE
    <2>1. PICK i \in Bad : \A k \in Bad : i =< k
      BY <1>3, SmallestOf
    <2>2. i # 0 /\ i \in Nat
      BY <2>1, <1>1
    <2> HIDE DEF Bad
    <2>3. i - 1 \in Nat /\ (i - 1) + 1 = i /\ ~(i =< i - 1)
      BY <2>2
    <2>4. i - 1 \notin Bad
      BY <2>1, <2>3
    <2> QED
      BY <2>1, <2>3, <2>4, <1>2
  <1>4. turns \notin Bad
    BY <1>3
  <1> QED
    BY <1>4

\* What MergeFiles counts its turns by.
TurnsOf(inputs) == MapThenSumSet(LAMBDA i : Len(inputs[i]), DOMAIN inputs)

LEMMA TurnsSum ==
    ASSUME NEW inputs, NEW D, D = DOMAIN inputs, IsFiniteSet(D)
    PROVE  \E f : /\ Sums(f, D, [i \in D |-> Len(inputs[i])])
                  /\ f[D] = TurnsOf(inputs)
  <1> DEFINE v == [i \in D |-> Len(inputs[i])]
             Solves(f) == f = [s \in SUBSET D |->
                                 IF s = {} THEN 0
                                 ELSE Len(inputs[Picked(s)]) + f[s \ {Picked(s)}]]
             f == CHOOSE g : Solves(g)
  <1>1. \A s \in SUBSET D : s # {} => Picked(s) \in D
    BY DEF Picked
  <1>2. \A g : Solves(g) <=> Sums(g, D, v)
    <2> TAKE g
    <2>1. \A s \in SUBSET D : s # {} => v[Picked(s)] = Len(inputs[Picked(s)])
      BY <1>1
    <2> HIDE DEF v
    <2>2. [s \in SUBSET D |-> IF s = {} THEN 0 ELSE Len(inputs[Picked(s)]) + g[s \ {Picked(s)}]]
          = [s \in SUBSET D |-> IF s = {} THEN 0 ELSE v[Picked(s)] + g[s \ {Picked(s)}]]
      BY <2>1
    <2> QED
      BY <2>2 DEF Sums
  <1>3. \E g : Solves(g)
    <2> HIDE DEF v, Solves
    <2> QED
      BY <1>2, SumsExist
  <1>4. Solves(f)
    BY <1>3
  <1>5. f[D] = TurnsOf(inputs)
    BY DEF TurnsOf, MapThenSumSet, MapThenFoldSet, Picked
  <1> HIDE DEF f
  <1> QED
    BY <1>2, <1>4, <1>5

LEMMA MergeStartInv ==
    ASSUME NEW D \in SUBSET Nat, IsFiniteSet(D), NEW E \in SUBSET Record, NEW inputs \in [D -> Seq(E)],
           \A i \in D : Ascending(inputs[i]), NEW q, Remaining(inputs, D, q)
    PROVE  MergeInv(MergeStart(inputs), inputs, D, E, q)
  <1>1. PICK m : m = MergeStart(inputs)
    OBVIOUS
  <1>2. /\ m.rest = inputs /\ m.heap = Standing(inputs, D) /\ m.lastKey = NoKey /\ m.w = NewWriter
    BY <1>1 DEF MergeStart
  <1>3. \A i \in D : inputs[i] # <<>> =>
           inputs[i][1].key # NoKey /\ ~KeyLess(inputs[i][1].key, NoKey)
    <2> SUFFICES ASSUME NEW i \in D, inputs[i] # <<>>
                 PROVE  inputs[i][1].key # NoKey /\ ~KeyLess(inputs[i][1].key, NoKey)
      OBVIOUS
    <2>1. inputs[i] \in Seq(E) /\ 1 \in 1 .. Len(inputs[i])
      OBVIOUS
    <2>2. inputs[i][1].key \in Key /\ inputs[i][1].key # NoKey
      BY <2>1, SeqWider, RecordsAre
    <2> QED
      BY <2>2, NoKeyFirst
  <1>4. Taken(m.w, <<>>) /\ LastOf(<<>>) = NoKey /\ <<>> \in Seq(E)
    BY <1>2, NewWriterTaken DEF LastOf
  <1>5. Merged(m, inputs, D, <<>>)
    BY <1>2, <1>3, <1>4 DEF Merged
  <1> QED
    BY <1>1, <1>2, <1>3, <1>4, <1>5 DEF MergeInv, Places

LEMMA NothingRemains ==
    ASSUME NEW D, IsFiniteSet(D), NEW E, NEW rest \in [D -> Seq(E)], Remaining(rest, D, 0), NEW i \in D
    PROVE  rest[i] = <<>>
  <1> DEFINE v == [j \in D |-> Len(rest[j])]
  <1>1. PICK f : Sums(f, D, v) /\ f[D] = 0
    BY DEF Remaining
  <1>2. \A j \in D : v[j] \in Nat
    OBVIOUS
  <1>3. v[i] = 0 => rest[i] = <<>>
    OBVIOUS
  <1> HIDE DEF v
  <1>4. \A j \in D : v[j] \in Int
    BY <1>2
  <1>5. f[D] = v[i] + f[D \ {i}]
    <2>1. D \in SUBSET D
      OBVIOUS
    <2> QED
      BY <2>1, <1>1, <1>4, SumsStep
  <1>6. f[D \ {i}] \in Nat
    <2>1. D \ {i} \in SUBSET D
      OBVIOUS
    <2> QED
      BY <2>1, <1>1, <1>2, SumsNat
  <1> QED
    BY <1>1, <1>2, <1>3, <1>5, <1>6

\* A compaction: whatever the inputs deliver in order, the Writer accepts what the
\* merge gives to it, and the newest version of every key is in the file.
LEMMA MergeFilesIs ==
    ASSUME NEW D \in SUBSET Nat, IsFiniteSet(D), NEW E \in SUBSET Record, NEW inputs \in [D -> Seq(E)],
           \A i \in D : Ascending(inputs[i])
    PROVE  \E es \in Seq(E) : /\ FileOf(MergeFiles(inputs), es)
                              /\ \A i \in D : \A e \in ToSet(inputs[i]) : Outdone(e, es)
  <1>1. PICK f : /\ Sums(f, D, [i \in D |-> Len(inputs[i])])
                 /\ f[D] = TurnsOf(inputs)
    <2>1. D = DOMAIN inputs
      OBVIOUS
    <2> QED
      BY <2>1, TurnsSum
  <1>2. PICK turns : turns = f[D]
    OBVIOUS
  <1>3. Remaining(inputs, D, turns)
    BY <1>1, <1>2 DEF Remaining
  <1>4. turns \in Nat
    <2> DEFINE v == [i \in D |-> Len(inputs[i])]
    <2>1. \A i \in D : v[i] \in Nat
      OBVIOUS
    <2>2. Sums(f, D, v)
      BY <1>1
    <2>3. D \in SUBSET D
      OBVIOUS
    <2> HIDE DEF v
    <2> QED
      BY <2>1, <2>2, <2>3, <1>2, SumsNat
  <1> DEFINE Solves(g) == g = [n \in 0 .. turns |->
                                 IF n = 0 THEN MergeStart(inputs) ELSE MergeStep(g[n - 1])]
             after == CHOOSE g : Solves(g)
  <1>5. MergeFiles(inputs) = Finish(after[turns].w)
    <2>1. turns = TurnsOf(inputs)
      BY <1>1, <1>2
    <2> QED
      BY <2>1 DEF MergeFiles, TurnsOf
  <1>6. \A g : Solves(g) <=> Turns(inputs, turns, g)
    BY DEF Turns
  <1>7. Turns(inputs, turns, after)
    <2>1. \E g : Solves(g)
      BY <1>4, <1>6, TurnsExist
    <2> HIDE DEF Solves
    <2> QED
      BY <2>1, <1>6
  <1> HIDE DEF after, Solves
  <1>8. \A n \in 0 .. turns : after[n] = IF n = 0 THEN MergeStart(inputs) ELSE MergeStep(after[n - 1])
    BY <1>7 DEF Turns
  <1> DEFINE Bad == {n \in 0 .. turns : ~MergeInv(after[n], inputs, D, E, turns - n)}
  <1>9. ASSUME NEW b \in Bad PROVE FALSE
    <2>1. Bad \in SUBSET Nat /\ Bad # {}
      BY <1>4, <1>9
    <2>2. PICK n \in Bad : \A k \in Bad : n =< k
      <3> HIDE DEF Bad
      <3> QED
        BY <2>1, SmallestOf
    <2>3. n \in 0 .. turns /\ n \in Nat
      BY <2>2, <1>4
    <2>4. CASE n = 0
      <3>1. MergeInv(MergeStart(inputs), inputs, D, E, turns)
        BY <1>3, MergeStartInv
      <3>2. after[0] = MergeStart(inputs) /\ turns - 0 = turns
        BY <2>3, <2>4, <1>4, <1>8
      <3> QED
        BY <3>1, <3>2, <2>2, <2>4
    <2>5. CASE n # 0
      <3>1. PICK p : p = n - 1
        OBVIOUS
      <3>2. p \in 0 .. turns /\ ~(n =< p) /\ turns - p \in Nat /\ turns - p # 0
            /\ (turns - p) - 1 = turns - n
        BY <3>1, <2>3, <2>5, <1>4
      <3>3. MergeInv(after[p], inputs, D, E, turns - p)
        BY <3>2, <2>2
      <3>4. MergeInv(MergeStep(after[p]), inputs, D, E, (turns - p) - 1)
        BY <3>2, <3>3, MergeStepInv
      <3>5. after[n] = MergeStep(after[p])
        BY <3>1, <2>3, <2>5, <1>8
      <3> QED
        BY <3>2, <3>4, <3>5, <2>2
    <2> QED
      BY <2>4, <2>5
  <1>10. MergeInv(after[turns], inputs, D, E, turns - turns)
    BY <1>4, <1>9
  <1>11. PICK m : m = after[turns]
    OBVIOUS
  <1>12. PICK es \in Seq(E) : Merged(m, inputs, D, es)
    BY <1>10, <1>11 DEF MergeInv
  <1>13. \A i \in D : m.rest[i] = <<>>
    <2>1. m.rest \in [D -> Seq(E)] /\ Remaining(m.rest, D, 0)
      BY <1>4, <1>10, <1>11 DEF MergeInv
    <2> QED
      BY <2>1, NothingRemains
  <1>14. \A i \in D : \A e \in ToSet(inputs[i]) : Outdone(e, es)
    <2>1. ToSet(<<>>) = {}
      BY DEF ToSet
    <2> QED
      BY <2>1, <1>12, <1>13 DEF Merged
  <1>15. FileOf(Finish(m.w), es)
    BY <1>12, FinishIs DEF Merged
  <1> QED
    BY <1>5, <1>11, <1>12, <1>14, <1>15

-----------------------------------------------------------------------------
(* A finite set in order.                                                    *)

Rank(S, R, x) == Cardinality({y \in S : <<y, x>> \in R})

StrictOrder(S, R) ==
    /\ \A x \in S : <<x, x>> \notin R
    /\ \A x, y \in S : x = y \/ <<x, y>> \in R \/ <<y, x>> \in R
    /\ \A x, y, z \in S : <<x, y>> \in R /\ <<y, z>> \in R => <<x, z>> \in R

\* Every place in the order is taken, by one element.
LEMMA Ranks ==
    ASSUME NEW S, IsFiniteSet(S), NEW R, StrictOrder(S, R)
    PROVE  /\ Cardinality(S) \in Nat
           /\ \A i \in 1 .. Cardinality(S) : \E x \in S : Rank(S, R, x) = i - 1
           /\ \A x \in S : Rank(S, R, x) \in 0 .. Cardinality(S) - 1
           /\ \A x, y \in S : Rank(S, R, x) < Rank(S, R, y) <=> <<x, y>> \in R
  <1> DEFINE Below(x) == {y \in S : <<y, x>> \in R}
  <1>1. \A x \in S : IsFiniteSet(Below(x)) /\ Rank(S, R, x) = Cardinality(Below(x)) /\ Rank(S, R, x) \in Nat
    BY FS_Subset, FS_CardinalityType DEF Rank
  <1>2. /\ \A x \in S : <<x, x>> \notin R
        /\ \A x, y \in S : x = y \/ <<x, y>> \in R \/ <<y, x>> \in R
        /\ \A x, y, z \in S : <<x, y>> \in R /\ <<y, z>> \in R => <<x, z>> \in R
    BY DEF StrictOrder
  <1>3. ASSUME NEW x \in S, NEW y \in S, <<x, y>> \in R
        PROVE  Rank(S, R, x) < Rank(S, R, y)
    <2>1. PICK A : A = Below(x)
      OBVIOUS
    <2>2. PICK B : B = Below(y)
      OBVIOUS
    <2>3. IsFiniteSet(A) /\ IsFiniteSet(B) /\ x \notin A /\ A \cup {x} \subseteq B
      BY <2>1, <2>2, <1>1, <1>2, <1>3
    <2>4. Cardinality(A \cup {x}) = Cardinality(A) + 1 /\ IsFiniteSet(A \cup {x})
      BY <2>3, FS_AddElement
    <2>5. Cardinality(A \cup {x}) =< Cardinality(B)
      BY <2>3, <2>4, FS_Subset
    <2>6. Cardinality(A) \in Nat /\ Cardinality(B) \in Nat
      BY <2>3, FS_CardinalityType
    <2>7. Rank(S, R, x) = Cardinality(A) /\ Rank(S, R, y) = Cardinality(B)
      BY <2>1, <2>2, <1>1
    <2> QED
      BY <2>4, <2>5, <2>6, <2>7
  <1>4. \A x, y \in S : Rank(S, R, x) < Rank(S, R, y) <=> <<x, y>> \in R
    <2> SUFFICES ASSUME NEW x \in S, NEW y \in S, Rank(S, R, x) < Rank(S, R, y)
                 PROVE  <<x, y>> \in R
      BY <1>3
    <2>1. ~(Rank(S, R, y) < Rank(S, R, x)) /\ Rank(S, R, x) # Rank(S, R, y)
      <3>1. PICK a \in Nat : a = Rank(S, R, x)
        BY <1>1
      <3>2. PICK b \in Nat : b = Rank(S, R, y)
        BY <1>1
      <3> QED
        BY <3>1, <3>2
    <2> QED
      BY <2>1, <1>2, <1>3
  <1>5. PICK n : n = Cardinality(S)
    OBVIOUS
  <1>6. n \in Nat
    BY <1>5, FS_CardinalityType
  <1>7. \A x \in S : Rank(S, R, x) \in 0 .. n - 1
    <2> TAKE x \in S
    <2>1. PICK A : A = Below(x)
      OBVIOUS
    <2>2. IsFiniteSet(A) /\ x \notin A /\ A \cup {x} \subseteq S
      BY <2>1, <1>1, <1>2
    <2>3. Cardinality(A \cup {x}) = Cardinality(A) + 1
      BY <2>2, FS_AddElement
    <2>4. Cardinality(A \cup {x}) =< n
      BY <2>2, <1>5, FS_Subset
    <2>5. Rank(S, R, x) = Cardinality(A) /\ Rank(S, R, x) \in Nat
      BY <2>1, <1>1
    <2> QED
      BY <2>3, <2>4, <2>5, <1>6
  <1> DEFINE T == 0 .. n - 1
             f == [x \in S |-> Rank(S, R, x)]
  <1>8. f \in [S -> T] /\ \A x \in S : f[x] = Rank(S, R, x)
    BY <1>7
  <1>9. \A x, y \in S : f[x] = f[y] => x = y
    <2> SUFFICES ASSUME NEW x \in S, NEW y \in S, f[x] = f[y] PROVE x = y
      OBVIOUS
    <2>1. ~(Rank(S, R, x) < Rank(S, R, y)) /\ ~(Rank(S, R, y) < Rank(S, R, x))
      <3>1. PICK a \in Nat : a = f[x]
        BY <1>1, <1>8
      <3> QED
        BY <3>1, <1>8
    <2> QED
      BY <2>1, <1>2, <1>3
  <1>10. IsFiniteSet(T) /\ Cardinality(T) = n
    <2>1. 0 \in Int /\ n - 1 \in Int /\ (n = 0 => 0 > n - 1) /\ (n # 0 => ~(0 > n - 1)) /\ (n - 1) - 0 + 1 = n
      BY <1>6
    <2> QED
      BY <2>1, FS_Interval
  <1> HIDE DEF f, T
  <1>11. f \in Surjection(S, T)
    <2>1. f \in Injection(S, T)
      BY <1>8, <1>9 DEF Injection, IsInjective
    <2> QED
      BY <2>1, <1>5, <1>10, FS_Injection
  <1>12. \A i \in 1 .. n : \E x \in S : Rank(S, R, x) = i - 1
    <2> TAKE i \in 1 .. n
    <2>1. i - 1 \in T
      BY <1>6 DEF T
    <2>2. PICK x \in S : f[x] = i - 1
      BY <2>1, <1>11 DEF Surjection
    <2> QED
      BY <2>2, <1>8
  <1> QED
    BY <1>4, <1>5, <1>6, <1>7, <1>12

\* f goes through S in the order R.
Lists(f, S, R) ==
    /\ f \in [1 .. Cardinality(S) -> S]
    /\ \A i, j \in 1 .. Cardinality(S) : i < j => <<f[i], f[j]>> \in R
    /\ \A x \in S : \E i \in 1 .. Cardinality(S) : f[i] = x

LEMMA RankedLists ==
    ASSUME NEW S, IsFiniteSet(S), NEW R, StrictOrder(S, R),
           NEW f, f = [i \in 1 .. Cardinality(S) |-> CHOOSE x \in S : Rank(S, R, x) = i - 1]
    PROVE  Lists(f, S, R)
  <1>1. PICK n \in Nat : n = Cardinality(S)
    BY Ranks
  <1>2. \A i \in 1 .. n : f[i] \in S /\ Rank(S, R, f[i]) = i - 1
    <2> TAKE i \in 1 .. n
    <2>1. \E x \in S : Rank(S, R, x) = i - 1
      BY <1>1, Ranks
    <2>2. f[i] = CHOOSE x \in S : Rank(S, R, x) = i - 1
      BY <1>1
    <2> QED
      BY <2>1, <2>2
  <1>3. f \in [1 .. n -> S]
    BY <1>1, <1>2
  <1>4. \A i, j \in 1 .. n : i < j => <<f[i], f[j]>> \in R
    <2> SUFFICES ASSUME NEW i \in 1 .. n, NEW j \in 1 .. n, i < j PROVE <<f[i], f[j]>> \in R
      OBVIOUS
    <2>1. Rank(S, R, f[i]) < Rank(S, R, f[j])
      BY <1>1, <1>2
    <2> QED
      BY <2>1, <1>2, Ranks
  <1>5. ASSUME NEW x \in S PROVE \E i \in 1 .. n : f[i] = x
    <2>1. PICK r : r = Rank(S, R, x)
      OBVIOUS
    <2>2. r \in 0 .. n - 1
      BY <2>1, <1>1, Ranks
    <2>3. r + 1 \in 1 .. n /\ (r + 1) - 1 = r
      BY <2>2, <1>1
    <2>4. PICK y \in S : y = f[r + 1] /\ Rank(S, R, y) = r
      BY <2>3, <1>2
    <2>5. <<x, y>> \notin R /\ <<y, x>> \notin R
      <3>1. ~(Rank(S, R, x) < Rank(S, R, y)) /\ ~(Rank(S, R, y) < Rank(S, R, x))
        BY <2>1, <2>2, <2>4, <1>1
      <3> QED
        BY <3>1, Ranks
    <2>6. x = y
      BY <2>5 DEF StrictOrder
    <2> QED
      BY <2>3, <2>4, <2>6
  <1> QED
    BY <1>1, <1>3, <1>4, <1>5 DEF Lists

NumberLess(S) == {p \in S \X S : p[1] < p[2]}

LEMMA NumbersInOrder ==
    ASSUME NEW S \in SUBSET Nat, IsFiniteSet(S)
    PROVE  Lists(InOrder(S, <), S, NumberLess(S))
  <1>1. \A x, y \in S : <<x, y>> \in NumberLess(S) <=> x < y
    BY DEF NumberLess
  <1>2. StrictOrder(S, NumberLess(S))
    BY <1>1 DEF StrictOrder
  <1>3. \A x \in S : Rank(S, NumberLess(S), x) = Cardinality({y \in S : y < x})
    <2> TAKE x \in S
    <2>1. {y \in S : <<y, x>> \in NumberLess(S)} = {y \in S : y < x}
      BY <1>1
    <2> QED
      BY <2>1 DEF Rank
  <1>4. InOrder(S, <) = [i \in 1 .. Cardinality(S) |-> CHOOSE x \in S : Rank(S, NumberLess(S), x) = i - 1]
    <2>1. InOrder(S, <) =
             [i \in 1 .. Cardinality(S) |-> CHOOSE x \in S : Cardinality({y \in S : y < x}) = i - 1]
      BY DEF InOrder
    <2>2. ASSUME NEW i \in 1 .. Cardinality(S)
          PROVE  (CHOOSE x \in S : Cardinality({y \in S : y < x}) = i - 1)
                 = CHOOSE x \in S : Rank(S, NumberLess(S), x) = i - 1
      BY <1>3
    <2> QED
      BY <2>1, <2>2
  <1> QED
    BY <1>2, <1>4, RankedLists

PlaceLess(S) == {p \in S \X S : KeyLess(p[1], p[2])}

LEMMA KeysInOrder ==
    ASSUME NEW S \in SUBSET Key, IsFiniteSet(S)
    PROVE  Lists(InOrder(S, KeyLess), S, PlaceLess(S))
  <1>1. \A x, y \in S : <<x, y>> \in PlaceLess(S) <=> KeyLess(x, y)
    BY DEF PlaceLess
  <1>2. StrictOrder(S, PlaceLess(S))
    BY <1>1, KeyLessIrreflexive, KeyLessTotal, KeyLessTransitive DEF StrictOrder
  <1>3. \A x \in S : Rank(S, PlaceLess(S), x) = Cardinality({y \in S : KeyLess(y, x)})
    <2> TAKE x \in S
    <2>1. {y \in S : <<y, x>> \in PlaceLess(S)} = {y \in S : KeyLess(y, x)}
      BY <1>1
    <2> QED
      BY <2>1 DEF Rank
  <1>4. InOrder(S, KeyLess) = [i \in 1 .. Cardinality(S) |-> CHOOSE x \in S : Rank(S, PlaceLess(S), x) = i - 1]
    <2>1. InOrder(S, KeyLess) =
             [i \in 1 .. Cardinality(S) |-> CHOOSE x \in S : Cardinality({y \in S : KeyLess(y, x)}) = i - 1]
      BY DEF InOrder
    <2>2. ASSUME NEW i \in 1 .. Cardinality(S)
          PROVE  (CHOOSE x \in S : Cardinality({y \in S : KeyLess(y, x)}) = i - 1)
                 = CHOOSE x \in S : Rank(S, PlaceLess(S), x) = i - 1
      BY <1>3
    <2> QED
      BY <2>1, <2>2
  <1> QED
    BY <1>2, <1>4, RankedLists

-----------------------------------------------------------------------------
(* Every table holds entries in order, and no Writer ever refused one for it. *)

TableSound(t) ==
    /\ t = [level |-> t.level, file |-> t.file, bad |-> t.bad, data |-> t.data]
    /\ t.level \in {0, 1}
    /\ t.bad \in SUBSET (1 .. Len(t.file.blocks))
    /\ t.data = TableOfEntries(Scan(t.file, {}))
    /\ \E es \in Seq(Entry) : FileOf(t.file, es)

TablesInv ==
    /\ LogInv
    /\ nextSeq =< MaxSeq
    /\ \E S : tables \in Seq(S)
    /\ \A i \in DOMAIN tables : TableSound(tables[i])
    /\ ~refused

LEMMA EntriesAre == Entry \in SUBSET Record /\ Seq(Entry) \subseteq Seq(Record)
  <1>1. Entry \in SUBSET Record
    BY DEF Entry, Record
  <1> QED
    BY <1>1, SeqWider

\* What a flush writes.
LEMMA SnapshotIs ==
    ASSUME NEW l, ListInv(l), NEW n \in Nat, \A k \in Nodes(l) : 0 < l.entry[k].seq /\ l.entry[k].seq =< n
    PROVE  Snapshot(l) \in Seq([key : Keys, seq : 1 .. n, val : Contents]) /\ Ascending(Snapshot(l))
  <1>1. /\ ListTyped(l) /\ Linked(l) /\ l.entry \in [Nodes(l) -> Version]
        /\ 1 \in 1 .. MaxLevel /\ NoKey \in Level(l, 1)
    <2>1. ListTyped(l) /\ Linked(l)
      BY DEF ListInv
    <2>2. l.entry \in [Nodes(l) -> Version] /\ MaxLevel \in Nat \ {0}
      BY <2>1, TypedIs
    <2>3. 1 \in 1 .. MaxLevel
      BY <2>2
    <2> QED
      BY <2>1, <2>2, <2>3, LevelIs
  <1>2. PICK s : s = KeysAfter(l, NoKey, 1)
    OBVIOUS
  <1>3. s \in Seq(Keys) /\ Sorted(s) /\ ToSet(s) = After(l, 1, NoKey)
    BY <1>1, <1>2, KeysAfterIs
  <1>4. \A i \in 1 .. Len(s) : s[i] \in Nodes(l)
    <2>1. After(l, 1, NoKey) \subseteq Nodes(l)
      BY <1>1, LevelIs DEF After
    <2>2. DOMAIN s = 1 .. Len(s)
      BY <1>3
    <2> QED
      BY <2>1, <2>2, <1>3 DEF ToSet
  <1>5. PICK es : es = Snapshot(l)
    OBVIOUS
  <1>6. es = [i \in 1 .. Len(s) |-> [key |-> s[i], seq |-> l.entry[s[i]].seq, val |-> l.entry[s[i]].val]]
    BY <1>2, <1>3, <1>5 DEF Snapshot
  <1>7. \A i \in 1 .. Len(s) :
           [key |-> s[i], seq |-> l.entry[s[i]].seq, val |-> l.entry[s[i]].val]
              \in [key : Keys, seq : 1 .. n, val : Contents]
    <2> TAKE i \in 1 .. Len(s)
    <2>1. s[i] \in Nodes(l) /\ s[i] \in Keys
      BY <1>3, <1>4
    <2>2. l.entry[s[i]] \in Version /\ 0 < l.entry[s[i]].seq /\ l.entry[s[i]].seq =< n
      BY <2>1, <1>1
    <2>3. l.entry[s[i]].seq \in 1 .. n /\ l.entry[s[i]].val \in Contents
      BY <2>2 DEF Version
    <2> QED
      BY <2>1, <2>3
  <1>8. Len(s) \in Nat
    BY <1>3
  <1>9. es \in Seq([key : Keys, seq : 1 .. n, val : Contents])
    BY <1>6, <1>7, <1>8
  <1>10. Len(es) = Len(s) /\ \A i \in 1 .. Len(s) : es[i].key = s[i]
    BY <1>6, <1>8
  <1>11. \A i \in 2 .. Len(s) : KeyLess(es[i - 1].key, es[i].key)
    <2> TAKE i \in 2 .. Len(s)
    <2>1. i \in 1 .. Len(s) /\ i - 1 \in 1 .. Len(s)
      BY <1>8
    <2>2. KeyLess(s[i - 1], s[i])
      BY <1>3 DEF Sorted
    <2> QED
      BY <2>1, <2>2, <1>10
  <1> QED
    BY <1>5, <1>9, <1>10, <1>11 DEF Ascending

\* A file as it comes from a Writer, opened.
LEMMA OpenedSound ==
    ASSUME NEW level \in {0, 1}, NEW file, NEW es \in Seq(Entry), FileOf(file, es)
    PROVE  TableSound(Opened(level, file)) /\ file.ok
  <1>1. file.ok
    BY DEF FileOf, Holding
  <1> QED
    BY <1>1 DEF Opened, TableSound

\* What a reader of a table delivers, up to a block it cannot read.
LEMMA ScanOfIs ==
    ASSUME NEW t, TableSound(t)
    PROVE  ScanOf(t) \in Seq(Entry) /\ Ascending(ScanOf(t))
  <1>1. PICK es \in Seq(Entry) : FileOf(t.file, es)
    BY DEF TableSound
  <1>2. t.bad \in SUBSET (1 .. Len(t.file.blocks))
    BY DEF TableSound
  <1>3. PICK m \in 0 .. Len(es) : Scan(t.file, t.bad) = SubSeq(es, 1, m)
    BY <1>1, <1>2, ScanIs
  <1>4. PICK s : s = SubSeq(es, 1, m)
    OBVIOUS
  <1>5. Len(es) \in Nat /\ m \in Nat
    BY <1>1
  <1>6. /\ s \in Seq(Entry) /\ Len(s) = m /\ \A i \in 1 .. m : s[i] = es[i]
    BY <1>1, <1>3, <1>4, <1>5
  <1>7. \A i \in 2 .. Len(es) : KeyLess(es[i - 1].key, es[i].key)
    BY <1>1 DEF FileOf, Ascending
  <1>8. \A i \in 2 .. m : KeyLess(s[i - 1].key, s[i].key)
    <2> TAKE i \in 2 .. m
    <2>1. i \in 2 .. Len(es) /\ i \in 1 .. m /\ i - 1 \in 1 .. m
      BY <1>5
    <2> QED
      BY <2>1, <1>6, <1>7
  <1> QED
    BY <1>3, <1>4, <1>6, <1>8 DEF ScanOf, Ascending

TablesGood == (\E S : tables \in Seq(S)) /\ \A i \in DOMAIN tables : TableSound(tables[i])

LEMMA AppendGood ==
    ASSUME NEW S, NEW s \in Seq(S), \A i \in DOMAIN s : TableSound(s[i]), NEW t, TableSound(t),
           tables' = Append(s, t)
    PROVE  TablesGood'
  <1>1. s \in Seq(S \cup {t}) /\ t \in S \cup {t}
    <2>1. s = [i \in 1 .. Len(s) |-> s[i]] /\ Len(s) \in Nat /\ \A i \in 1 .. Len(s) : s[i] \in S
      OBVIOUS
    <2> QED
      BY <2>1
  <1>2. tables' \in Seq(S \cup {t})
    BY <1>1
  <1>3. ASSUME NEW i \in DOMAIN tables' PROVE TableSound(tables'[i])
    <2>1. /\ DOMAIN tables' = 1 .. Len(s) + 1 /\ DOMAIN s = 1 .. Len(s) /\ Len(s) \in Nat
          /\ tables'[Len(s) + 1] = t
          /\ \A j \in 1 .. Len(s) : tables'[j] = s[j]
      OBVIOUS
    <2>2. i \in 1 .. Len(s) \/ i = Len(s) + 1
      BY <1>3, <2>1
    <2>3. TableSound(t) /\ \A j \in 1 .. Len(s) : TableSound(s[j])
      BY <2>1
    <2> QED
      BY <2>1, <2>2, <2>3
  <1> QED
    BY <1>2, <1>3 DEF TablesGood

LEMMA FlushedIs ==
    ASSUME LogInv, nextSeq =< MaxSeq, NEW file, file = WriteFile(Snapshot(list))
    PROVE  Snapshot(list) \in Seq(Entry) /\ FileOf(file, Snapshot(list))
  <1>1. PICK es : es = Snapshot(list)
    OBVIOUS
  <1>2. es \in Seq(Entry) /\ Ascending(es)
    <2>1. ListInv(list) /\ nextSeq \in Nat /\ MaxSeq \in Nat
      BY DataPathAssumption DEF LogInv, MemInv
    <2>2. \A k \in Nodes(list) : 0 < list.entry[k].seq /\ list.entry[k].seq =< MaxSeq
      <3>1. list.entry \in [Nodes(list) -> Version]
        BY <2>1, TypedIs DEF ListInv
      <3>2. \A k \in Nodes(list) : list.entry[k].seq \in Nat
        BY <3>1 DEF Version
      <3> QED
        BY <2>1, <3>2 DEF LogInv, NumberedInv
    <2> QED
      BY <2>1, <2>2, <1>1, SnapshotIs DEF Entry
  <1>3. FileOf(file, es)
    BY <1>1, <1>2, EntriesAre, WriteFileIs
  <1> QED
    BY <1>1, <1>2, <1>3

\* flushLocked is never refused for the order of its entries.
LEMMA FlushTables ==
    ASSUME LogInv, nextSeq =< MaxSeq, TablesGood, Flush
    PROVE  TablesGood' /\ ~refused'
  <1>1. PICK file : file = WriteFile(Snapshot(list))
    OBVIOUS
  <1>2. PICK es \in Seq(Entry) : FileOf(file, es)
    BY <1>1, FlushedIs
  <1>3. file.ok /\ TableSound(Opened(0, file))
    BY <1>2, OpenedSound
  <1>4. refused' = ~file.ok /\ (file.ok => tables' = Append(tables, Opened(0, file)))
    BY <1>1 DEF Flush
  <1>5. PICK S : tables \in Seq(S)
    BY DEF TablesGood
  <1> QED
    BY <1>3, <1>4, <1>5, AppendGood DEF TablesGood

LEMMA PlannedIs ==
    ASSUME NEW n \in Nat, n >= 2, NEW levels, DOMAIN levels = 1 .. n
    PROVE  Planned(levels) \in SUBSET (1 .. n) /\ Cardinality(Planned(levels)) >= 2
  <1>1. {1, 2} \cap (1 .. n) = {1, 2} /\ {1, 2} \in SUBSET (1 .. n)
    OBVIOUS
  <1>2. Cardinality({1, 2}) = 2
    <2>1. {1, 2} = 1 .. 2 /\ 1 \in Int /\ 2 \in Int /\ ~(1 > 2) /\ 2 - 1 + 1 = 2
      OBVIOUS
    <2>2. Cardinality(1 .. 2) = 2 - 1 + 1
      BY <2>1, FS_Interval
    <2> QED
      BY <2>1, <2>2
  <1>3. PICK level0 : level0 = {i \in DOMAIN levels : levels[i] = 0}
    OBVIOUS
  <1>4. level0 \in SUBSET (1 .. n)
    BY <1>3
  <1>5. Planned(levels) = IF Cardinality(level0) >= 2 THEN level0 ELSE {1, 2}
    BY <1>1, <1>3 DEF Planned
  <1> QED
    BY <1>1, <1>2, <1>4, <1>5

LEMMA SeqOfItsOwn ==
    ASSUME NEW S, NEW s \in Seq(S), NEW E, ToSet(s) \subseteq E
    PROVE  s \in Seq(E)
  <1>1. s = [i \in 1 .. Len(s) |-> s[i]] /\ Len(s) \in Nat /\ DOMAIN s = 1 .. Len(s)
    OBVIOUS
  <1>2. \A i \in 1 .. Len(s) : s[i] \in E
    BY <1>1 DEF ToSet
  <1> QED
    BY <1>1, <1>2

\* What the iterators of some tables deliver.
Delivered(idxs) == UNION {ToSet(ScanOf(tables[i])) : i \in idxs}

\* The merged tables are replaced by a file of es, which is what they delivered,
\* the older versions of a key left out.
Merges(merged, kept, file, es) ==
    /\ merged \in SUBSET DOMAIN tables /\ Cardinality(merged) >= 2
    /\ kept = InOrder(DOMAIN tables \ merged, <)
    /\ Lists(kept, DOMAIN tables \ merged, NumberLess(DOMAIN tables \ merged))
    /\ es \in Seq(Entry) /\ FileOf(file, es)
    /\ ToSet(es) \subseteq Delivered(merged)
    /\ \A e \in Delivered(merged) : Outdone(e, es)
    /\ refused' = ~file.ok
    /\ tables' = IF file.ok THEN Append([i \in DOMAIN kept |-> tables[kept[i]]], Opened(1, file))
                 ELSE tables

LEMMA CompactIs ==
    ASSUME TablesGood, Compact
    PROVE  \E merged, kept, file, es : Merges(merged, kept, file, es)
  <1>1. PICK S : tables \in Seq(S)
    BY DEF TablesGood
  <1>2. PICK n \in Nat : n = Len(tables) /\ DOMAIN tables = 1 .. n
    BY <1>1
  <1>3. PICK merged : merged = Planned(Levels)
    OBVIOUS
  <1>4. merged \in SUBSET (1 .. n) /\ Cardinality(merged) >= 2
    <2>1. DOMAIN Levels = 1 .. n
      BY <1>2 DEF Levels
    <2>2. n >= 2
      BY <1>2 DEF Compact
    <2> QED
      BY <2>1, <2>2, <1>3, PlannedIs
  <1>5. PICK others : others = (1 .. n) \ merged
    OBVIOUS
  <1>6. /\ merged \in SUBSET Nat /\ IsFiniteSet(merged)
        /\ others \in SUBSET Nat /\ IsFiniteSet(others)
    <2>1. IsFiniteSet(1 .. n) /\ others \in SUBSET (1 .. n)
      BY <1>5, FS_Interval
    <2>2. IsFiniteSet(merged) /\ IsFiniteSet(others)
      BY <2>1, <1>4, FS_Subset
    <2>3. \A s \in SUBSET (1 .. n) : s \in SUBSET Nat
      OBVIOUS
    <2> QED
      BY <2>1, <2>2, <2>3, <1>4
  <1>7. PICK inputs : inputs = InOrder(merged, <)
    OBVIOUS
  <1>8. PICK kept : kept = InOrder(others, <)
    OBVIOUS
  <1>9. PICK k \in Nat : k = Cardinality(merged)
    BY <1>6, FS_CardinalityType
  <1>10. inputs \in [1 .. k -> merged] /\ \A i \in merged : \E j \in 1 .. k : inputs[j] = i
    BY <1>6, <1>7, <1>9, NumbersInOrder DEF Lists
  <1>11. Lists(kept, others, NumberLess(others))
    BY <1>6, <1>8, NumbersInOrder
  <1>12. PICK scans : scans = [i \in DOMAIN inputs |-> ScanOf(tables[inputs[i]])]
    OBVIOUS
  <1>13. \A i \in 1 .. n : ScanOf(tables[i]) \in Seq(Entry) /\ Ascending(ScanOf(tables[i]))
    BY <1>2, ScanOfIs DEF TablesGood
  <1>14. PICK E : E = Delivered(merged)
    OBVIOUS
  <1>15. E \in SUBSET Entry
    <2>1. \A i \in merged : ToSet(ScanOf(tables[i])) \in SUBSET Entry
      <3> TAKE i \in merged
      <3>1. PICK s \in Seq(Entry) : s = ScanOf(tables[i])
        BY <1>4, <1>13
      <3> QED
        BY <3>1 DEF ToSet
    <2> QED
      BY <2>1, <1>14 DEF Delivered
  <1>16. /\ DOMAIN inputs = 1 .. k
         /\ \A i \in 1 .. k : inputs[i] \in merged /\ inputs[i] \in 1 .. n
    BY <1>4, <1>10
  <1>17. scans \in [1 .. k -> Seq(E)] /\ \A i \in 1 .. k : Ascending(scans[i])
    <2>1. ASSUME NEW i \in 1 .. k
          PROVE  ScanOf(tables[inputs[i]]) \in Seq(E) /\ Ascending(ScanOf(tables[inputs[i]]))
      <3>1. PICK s \in Seq(Entry) : s = ScanOf(tables[inputs[i]]) /\ Ascending(s)
        BY <1>13, <1>16
      <3>2. ToSet(s) \subseteq E
        BY <3>1, <1>14, <1>16 DEF Delivered
      <3> QED
        BY <3>1, <3>2, SeqOfItsOwn
    <2> QED
      BY <2>1, <1>12, <1>16
  <1>18. PICK file : file = MergeFiles(scans)
    OBVIOUS
  <1>19. PICK es \in Seq(E) : /\ FileOf(file, es)
                              /\ \A i \in 1 .. k : \A e \in ToSet(scans[i]) : Outdone(e, es)
    <2>1. 1 .. k \in SUBSET Nat /\ IsFiniteSet(1 .. k)
      BY FS_Interval
    <2>2. E \in SUBSET Record
      BY <1>15, EntriesAre
    <2> QED
      BY <2>1, <2>2, <1>17, <1>18, MergeFilesIs
  <1>20. es \in Seq(Entry) /\ ToSet(es) \subseteq E
    BY <1>15, <1>19, SeqWider DEF ToSet
  <1>21. ASSUME NEW e \in Delivered(merged) PROVE Outdone(e, es)
    <2>1. PICK i \in merged : e \in ToSet(ScanOf(tables[i]))
      BY <1>21 DEF Delivered
    <2>2. PICK j \in 1 .. k : inputs[j] = i
      BY <1>10
    <2>3. scans[j] = ScanOf(tables[i])
      BY <2>2, <1>12, <1>16
    <2> QED
      BY <2>1, <2>3, <1>19
  <1>22. /\ refused' = ~file.ok
         /\ tables' = IF file.ok THEN Append([i \in DOMAIN kept |-> tables[kept[i]]], Opened(1, file))
                      ELSE tables
    BY <1>2, <1>3, <1>5, <1>7, <1>8, <1>12, <1>18 DEF Compact
  <1>23. Merges(merged, kept, file, es)
    <2>1. others = DOMAIN tables \ merged /\ merged \in SUBSET DOMAIN tables
      BY <1>2, <1>4, <1>5
    <2> QED
      BY <2>1, <1>4, <1>8, <1>11, <1>14, <1>19, <1>20, <1>21, <1>22 DEF Merges
  <1> QED
    BY <1>23

\* The tables a merge does not touch, as they were.
LEMMA KeptAre ==
    ASSUME TablesGood, NEW merged, NEW kept, NEW file, NEW es, Merges(merged, kept, file, es),
           NEW rest, rest = [i \in DOMAIN kept |-> tables[kept[i]]]
    PROVE  /\ \E S : rest \in Seq(S)
           /\ \A i \in DOMAIN rest : kept[i] \in DOMAIN tables /\ rest[i] = tables[kept[i]]
  <1>1. PICK S : tables \in Seq(S)
    BY DEF TablesGood
  <1>2. PICK n \in Nat : n = Len(tables) /\ DOMAIN tables = 1 .. n
    BY <1>1
  <1>3. PICK c \in Nat : DOMAIN kept = 1 .. c /\ \A i \in 1 .. c : kept[i] \in 1 .. n
    <2>1. PICK others : others = (1 .. n) \ merged
      OBVIOUS
    <2>2. others \in SUBSET (1 .. n) /\ IsFiniteSet(1 .. n)
      BY <2>1, FS_Interval
    <2>3. Cardinality(others) \in Nat
      BY <2>2, FS_Subset, FS_CardinalityType
    <2>4. Lists(kept, others, NumberLess(others))
      BY <2>1, <1>2 DEF Merges
    <2> QED
      BY <2>2, <2>3, <2>4 DEF Lists
  <1>4. \A i \in 1 .. n : tables[i] \in S
    BY <1>1, <1>2
  <1>5. rest = [i \in 1 .. c |-> tables[kept[i]]] /\ \A i \in 1 .. c : tables[kept[i]] \in S
    BY <1>3, <1>4
  <1>6. rest \in Seq(S)
    BY <1>5
  <1> QED
    BY <1>2, <1>3, <1>5, <1>6

\* Nor is Compact, whatever blocks cannot be read.
LEMMA CompactTables ==
    ASSUME TablesGood, Compact
    PROVE  TablesGood' /\ ~refused'
  <1>1. PICK merged, kept, file, es : Merges(merged, kept, file, es)
    BY CompactIs
  <1>2. file.ok /\ TableSound(Opened(1, file))
    BY <1>1, OpenedSound DEF Merges
  <1>3. PICK rest : rest = [i \in DOMAIN kept |-> tables[kept[i]]]
    OBVIOUS
  <1>4. PICK S : rest \in Seq(S)
    BY <1>1, <1>3, KeptAre
  <1>5. \A i \in DOMAIN rest : TableSound(rest[i])
    BY <1>1, <1>3, KeptAre DEF TablesGood
  <1>6. ~refused' /\ tables' = Append(rest, Opened(1, file))
    BY <1>1, <1>2, <1>3 DEF Merges
  <1> QED
    BY <1>2, <1>4, <1>5, <1>6, AppendGood

LEMMA DamageTables ==
    ASSUME TablesGood, NEW d \in DOMAIN tables, Damage(d)
    PROVE  TablesGood' /\ refused' = refused
  <1>1. PICK S : tables \in Seq(S)
    BY DEF TablesGood
  <1>2. PICK n \in Nat : n = Len(tables) /\ DOMAIN tables = 1 .. n
    BY <1>1
  <1>3. PICK b \in DOMAIN tables[d].file.blocks : tables' = [tables EXCEPT ![d].bad = @ \cup {b}]
    BY DEF Damage
  <1>4. PICK t : t = [tables[d] EXCEPT !.bad = @ \cup {b}]
    OBVIOUS
  <1>5. tables' = [tables EXCEPT ![d] = t]
    BY <1>3, <1>4
  <1>6. TableSound(tables[d])
    BY DEF TablesGood
  <1>7. PICK es \in Seq(Entry) : FileOf(tables[d].file, es)
    BY <1>6 DEF TableSound
  <1>8. b \in 1 .. Len(tables[d].file.blocks)
    <2>1. tables[d].file.blocks \in Seq(Block)
      BY <1>7 DEF FileOf, Holding
    <2> QED
      BY <2>1, <1>3
  <1>9. TableSound(t)
    BY <1>4, <1>6, <1>8 DEF TableSound
  <1>10. tables' \in Seq(S \cup {t})
    BY <1>1, <1>2, <1>5
  <1>11. \A i \in DOMAIN tables' : TableSound(tables'[i])
    BY <1>2, <1>5, <1>9 DEF TablesGood
  <1> QED
    BY <1>10, <1>11 DEF TablesGood, Damage

LEMMA TablesStep == TablesInv /\ [Next]_vars => TablesInv'
  <1> SUFFICES ASSUME TablesInv, [Next]_vars PROVE TablesInv'
    OBVIOUS
  <1>1. LogInv /\ nextSeq =< MaxSeq /\ TablesGood /\ ~refused
    BY DEF TablesInv, TablesGood
  <1>2. LogInv'
    BY <1>1, MemStep, NumberedStep DEF LogInv
  <1>3. ASSUME nextSeq' =< MaxSeq, TablesGood', ~refused' PROVE TablesInv'
    BY <1>2, <1>3 DEF TablesInv, TablesGood
  <1>4. ASSUME UNCHANGED <<nextSeq, tables, refused>> PROVE TablesInv'
    BY <1>1, <1>3, <1>4 DEF TablesGood
  <1>5. CASE \E ops \in Batches, heights \in Heights : Write(ops, heights)
    <2>1. nextSeq' =< MaxSeq /\ UNCHANGED <<tables, refused>>
      BY <1>5 DEF Write
    <2> QED
      BY <2>1, <1>1, <1>3 DEF TablesGood
  <1>6. CASE \E heights \in Heights : Restart(heights)
    <2>1. ~refused' /\ UNCHANGED <<nextSeq, tables>>
      BY <1>6 DEF Restart
    <2> QED
      BY <2>1, <1>1, <1>3 DEF TablesGood
  <1>7. CASE \E i \in DOMAIN tables : Damage(i)
    <2>1. nextSeq' = nextSeq
      BY <1>7 DEF Damage
    <2>2. TablesGood' /\ ~refused'
      BY <1>1, <1>7, DamageTables
    <2> QED
      BY <2>1, <2>2, <1>1, <1>3
  <1>8. CASE Flush
    <2>1. nextSeq' = nextSeq
      BY <1>8 DEF Flush
    <2> QED
      BY <2>1, <1>1, <1>3, <1>8, FlushTables
  <1>9. CASE Compact
    <2>1. nextSeq' = nextSeq
      BY <1>9 DEF Compact
    <2> QED
      BY <2>1, <1>1, <1>3, <1>9, CompactTables
  <1>10. CASE \E target \in Targets : Seek(target) \/ MemSeek(target)
    BY <1>4, <1>10 DEF Seek, MoveTo, MemSeek, StandAt
  <1>11. CASE NewIterator \/ SeekToFirst \/ IterNext
    BY <1>4, <1>11 DEF NewIterator, SeekToFirst, IterNext, MoveTo
  <1>12. CASE MemNewIterator \/ MemSeekToFirst \/ MemNext
    BY <1>4, <1>12 DEF MemNewIterator, MemSeekToFirst, MemNext, StandAt
  <1>13. CASE UNCHANGED vars
    BY <1>4, <1>13 DEF vars
  <1> QED
    BY <1>5, <1>6, <1>7, <1>8, <1>9, <1>10, <1>11, <1>12, <1>13 DEF Next

LEMMA TablesInit == Init => TablesInv
  <1> SUFFICES ASSUME Init PROVE TablesInv
    OBVIOUS
  <1>1. LogInv
    BY MemInit, NumberedInit DEF LogInv
  <1>2. nextSeq =< MaxSeq /\ ~refused /\ tables = <<>>
    BY DataPathAssumption DEF Init
  <1>3. tables \in Seq({}) /\ DOMAIN tables = {}
    BY <1>2
  <1> QED
    BY <1>1, <1>2, <1>3 DEF TablesInv

\* In every state each table is a file that its Writer made of entries in order.
THEOREM TablesInvariant == Spec => []TablesInv
  <1>1. Init => TablesInv
    BY TablesInit
  <1>2. TablesInv /\ [Next]_vars => TablesInv'
    BY TablesStep
  <1> QED
    BY <1>1, <1>2, PTL DEF Spec

\* Writer.Add, flushLocked, MergeFiles: where every key has a byte or more, no flush
\* and no compaction is refused by the Writer, that is, none ever hands it a key
\* below the one before, whatever was written and replayed and whatever blocks
\* cannot be read.  (Nothing is said of the keys of no bytes that a WriteBatch may
\* have: Add refuses those that are nil.)
THEOREM OrderNeverRefused ==
    ASSUME NoKey \notin Keys
    PROVE  Spec => []NeverRefused
  <1>1. TablesInv => NeverRefused
    BY DEF TablesInv, NeverRefused
  <1> QED
    BY <1>1, TablesInvariant, PTL

-----------------------------------------------------------------------------
(* What a Writer reports of a file.                                          *)

LEMMA AscendingFar ==
    ASSUME NEW es \in Seq(Record), Ascending(es), NEW i \in 1 .. Len(es), NEW j \in 1 .. Len(es), i < j
    PROVE  KeyLess(es[i].key, es[j].key)
  <1>1. Len(es) \in Nat /\ \A n \in 1 .. Len(es) : es[n].key \in Key
    BY RecordsAre
  <1> DEFINE Bad == {n \in i + 1 .. Len(es) : ~KeyLess(es[i].key, es[n].key)}
  <1>2. ASSUME NEW b \in Bad PROVE FALSE
    <2>1. Bad \in SUBSET Nat /\ Bad # {}
      BY <1>1, <1>2
    <2>2. PICK n \in Bad : \A k \in Bad : n =< k
      <3> HIDE DEF Bad
      <3> QED
        BY <2>1, SmallestOf
    <2>3. n \in 2 .. Len(es) /\ n - 1 \in 1 .. Len(es) /\ n \in 1 .. Len(es)
      BY <1>1, <2>2
    <2>4. KeyLess(es[n - 1].key, es[n].key)
      BY <2>3 DEF Ascending
    <2>5. CASE n = i + 1
      <3>1. n - 1 = i
        BY <2>5
      <3> QED
        BY <2>2, <2>4, <3>1
    <2>6. CASE n # i + 1
      <3>1. n - 1 \in i + 1 .. Len(es) /\ ~(n =< n - 1)
        BY <2>2, <2>6, <1>1
      <3>2. KeyLess(es[i].key, es[n - 1].key)
        BY <2>2, <3>1
      <3> QED
        BY <2>2, <2>3, <2>4, <3>2, <1>1, KeyLessTransitive
    <2> QED
      BY <2>5, <2>6
  <1>3. j \in i + 1 .. Len(es)
    BY <1>1
  <1> QED
    BY <1>2, <1>3

LEMMA MetaIs ==
    ASSUME NEW f, NEW es, FileOf(f, es)
    PROVE  /\ f.entries = Len(es) /\ f.entries = Cardinality({e.key : e \in ToSet(es)})
           /\ f.maxSeq = HighestSeq({e.seq : e \in ToSet(es)})
           /\ es # <<>> => f.minKey = es[1].key /\ f.maxKey = es[Len(es)].key
  <1>1. /\ es \in Seq(Record) /\ Ascending(es)
        /\ f.minKey = FirstOf(es) /\ f.maxKey = LastOf(es) /\ f.entries = Len(es)
        /\ TopOf(es, f.maxSeq) /\ f.maxSeq \in Nat
    BY DEF FileOf, Holding
  <1>2. PICK n \in Nat : n = Len(es) /\ DOMAIN es = 1 .. n
    BY <1>1
  <1>3. \A i \in 1 .. n : es[i].key \in Key /\ es[i].seq \in Nat
    BY <1>1, <1>2, RecordsAre
  <1>4. ToSet(es) = {es[i] : i \in 1 .. n}
    BY <1>2 DEF ToSet
  <1>5. n = Cardinality({e.key : e \in ToSet(es)})
    <2> DEFINE T == {e.key : e \in ToSet(es)}
               g == [i \in 1 .. n |-> es[i].key]
    <2>1. g \in [1 .. n -> T] /\ \A x \in T : \E i \in 1 .. n : g[i] = x
      BY <1>4
    <2>2. \A i, j \in 1 .. n : i < j => g[i] # g[j]
      <3> SUFFICES ASSUME NEW i \in 1 .. n, NEW j \in 1 .. n, i < j PROVE es[i].key # es[j].key
        OBVIOUS
      <3>1. KeyLess(es[i].key, es[j].key)
        BY <1>1, <1>2, AscendingFar
      <3> QED
        BY <3>1, <1>3, KeyLessIrreflexive
    <2> HIDE DEF g, T
    <2>3. g \in Surjection(1 .. n, T)
      BY <2>1 DEF Surjection
    <2>4. g \in Injection(1 .. n, T)
      <3>1. \A i, j \in 1 .. n : g[i] = g[j] => i = j
        <4> SUFFICES ASSUME NEW i \in 1 .. n, NEW j \in 1 .. n, g[i] = g[j] PROVE i = j
          OBVIOUS
        <4>1. ~(i < j) /\ ~(j < i)
          BY <2>2
        <4> QED
          BY <4>1
      <3> QED
        BY <2>1, <3>1 DEF Injection, IsInjective
    <2>5. IsFiniteSet(1 .. n) /\ Cardinality(1 .. n) = n
      <3>1. 1 \in Int /\ n \in Int /\ (n = 0 => 1 > n) /\ (n # 0 => ~(1 > n)) /\ n - 1 + 1 = n
        OBVIOUS
      <3> QED
        BY <3>1, FS_Interval
    <2>6. Cardinality(T) = n
      BY <2>3, <2>4, <2>5, FS_Surjection
    <2> QED
      BY <2>6 DEF T
  <1>6. f.maxSeq = HighestSeq({e.seq : e \in ToSet(es)})
    <2> DEFINE S == {e.seq : e \in ToSet(es)}
    <2>1. PICK m \in Nat : m = f.maxSeq
      BY <1>1
    <2>2. S = {es[i].seq : i \in 1 .. n}
      BY <1>4
    <2>3. \A s \in S : s \in Nat /\ s =< m
      BY <2>1, <2>2, <1>1, <1>2, <1>3 DEF TopOf
    <2>4. m = 0 \/ m \in S
      BY <2>1, <2>2, <1>1, <1>2 DEF TopOf
    <2> HIDE DEF S
    <2>5. HighestSeq(S) = m
      <3> DEFINE top == {s \in S : \A t \in S : t =< s}
      <3>1. HighestSeq(S) = IF top = {} THEN 0 ELSE CHOOSE s \in top : TRUE
        BY DEF HighestSeq
      <3>2. CASE m \in S
        <4>1. m \in top /\ \A s \in top : s = m
          BY <2>3, <3>2
        <4> HIDE DEF top
        <4> QED
          BY <3>1, <4>1
      <3>3. CASE m \notin S
        <4>1. m = 0 /\ S = {}
          BY <2>3, <2>4, <3>3
        <4>2. top = {}
          BY <4>1
        <4> QED
          BY <3>1, <4>1, <4>2
      <3> QED
        BY <3>2, <3>3
    <2> QED
      BY <2>1, <2>5 DEF S
  <1>7. es # <<>> => f.minKey = es[1].key /\ f.maxKey = es[Len(es)].key
    BY <1>1 DEF FirstOf, LastOf
  <1> QED
    BY <1>1, <1>2, <1>5, <1>6, <1>7

\* Writer.Finish: the bounds, the size and the highest number that go into the manifest
\* are those of what a reader finds in the file, for every table.
THEOREM MetaExact == Spec => []MetaAgrees
  <1>1. TablesInv => MetaAgrees
    <2> SUFFICES ASSUME TablesInv, NEW i \in DOMAIN tables
                 PROVE  LET f == tables[i].file
                            all == Scan(f, {})
                        IN  /\ f.entries = Len(all) /\ f.entries = Cardinality({e.key : e \in ToSet(all)})
                            /\ f.maxSeq = HighestSeq({e.seq : e \in ToSet(all)})
                            /\ all # <<>> => f.minKey = all[1].key /\ f.maxKey = all[Len(all)].key
      BY DEF MetaAgrees
    <2>1. PICK f : f = tables[i].file
      OBVIOUS
    <2>2. PICK es : FileOf(f, es)
      BY <2>1 DEF TablesInv, TableSound
    <2>3. Scan(f, {}) = es
      BY <2>2, ScanIs
    <2> QED
      BY <2>1, <2>2, <2>3, MetaIs
  <1> QED
    BY <1>1, TablesInvariant, PTL

-----------------------------------------------------------------------------
(* What a lookup finds.                                                      *)

\* What SelectInSeq gives, the places it selects from being I.
LEMMA LeastOrZero ==
    ASSUME NEW I \in SUBSET Nat, NEW m, m = IF I # {} THEN Min(I) ELSE 0
    PROVE  /\ I = {} => m = 0
           /\ I # {} => m \in I /\ \A i \in I : m =< i
  <1>1. CASE I = {}
    BY <1>1
  <1>2. CASE I # {}
    <2>1. PICK x \in I : \A i \in I : x =< i
      BY <1>2, SmallestOf
    <2>2. \A y \in I : (\A i \in I : y =< i) => y = x
      BY <2>1
    <2>3. Min(I) = x
      BY <2>1, <2>2 DEF Min
    <2> QED
      BY <1>2, <2>1, <2>3
  <1> QED
    BY <1>1, <1>2

\* The entries from p on are those not below the key; there are none if p is 0.
FirstFrom(es, key, p) ==
    /\ p \in 0 .. Len(es)
    /\ p = 0 => \A i \in 1 .. Len(es) : KeyLess(es[i].key, key)
    /\ p # 0 => /\ \A i \in 1 .. p - 1 : KeyLess(es[i].key, key)
                /\ \A i \in p .. Len(es) : ~KeyLess(es[i].key, key)

LEMMA NotBelowFar ==
    ASSUME NEW es \in Seq(Record), Ascending(es), NEW key \in Key,
           NEW i \in 1 .. Len(es), NEW j \in 1 .. Len(es), i =< j, ~KeyLess(es[i].key, key)
    PROVE  ~KeyLess(es[j].key, key) /\ (i < j => KeyLess(key, es[j].key))
  <1>1. es[i].key \in Key /\ es[j].key \in Key
    BY RecordsAre
  <1>2. CASE i < j
    <2>1. KeyLess(es[i].key, es[j].key)
      BY <1>2, AscendingFar
    <2>2. es[i].key = key \/ KeyLess(key, es[i].key)
      BY <1>1, KeyLessTotal
    <2>3. KeyLess(key, es[j].key)
      BY <1>1, <2>1, <2>2, KeyLessTransitive
    <2>4. ~KeyLess(es[j].key, key)
      BY <1>1, <2>3, KeyLessTransitive, KeyLessIrreflexive
    <2> QED
      BY <2>3, <2>4
  <1>3. CASE ~(i < j)
    <2>1. i = j
      BY <1>3
    <2> QED
      BY <2>1
  <1> QED
    BY <1>2, <1>3

LEMMA EntrySelected ==
    ASSUME NEW es \in Seq(Record), Ascending(es), NEW key \in Key
    PROVE  FirstFrom(es, key, SelectInSeq(es, LAMBDA e : ~KeyLess(e.key, key)))
  <1> DEFINE I == {i \in 1 .. Len(es) : ~KeyLess(es[i].key, key)}
  <1>1. PICK p : p = SelectInSeq(es, LAMBDA e : ~KeyLess(e.key, key))
    OBVIOUS
  <1>2. p = IF I # {} THEN Min(I) ELSE 0
    BY <1>1 DEF SelectInSeq
  <1>3. I \in SUBSET Nat /\ \A i \in I : i \in 1 .. Len(es) /\ ~KeyLess(es[i].key, key)
    OBVIOUS
  <1>4. \A i \in 1 .. Len(es) : i \notin I => KeyLess(es[i].key, key)
    OBVIOUS
  <1>5. Len(es) \in Nat
    OBVIOUS
  <1> HIDE DEF I
  <1>6. (I = {} => p = 0) /\ (I # {} => p \in I /\ \A i \in I : p =< i)
    BY <1>2, <1>3, LeastOrZero
  <1>8. CASE I # {}
    <2>1. p \in 1 .. Len(es) /\ ~KeyLess(es[p].key, key)
      BY <1>3, <1>6, <1>8
    <2>2. \A i \in 1 .. p - 1 : KeyLess(es[i].key, key)
      <3> TAKE i \in 1 .. p - 1
      <3>1. i \in 1 .. Len(es) /\ ~(p =< i)
        BY <2>1, <1>5
      <3> QED
        BY <3>1, <1>4, <1>6, <1>8
    <2>3. \A i \in p .. Len(es) : ~KeyLess(es[i].key, key)
      <3> TAKE i \in p .. Len(es)
      <3>1. i \in 1 .. Len(es) /\ p =< i
        BY <2>1, <1>5
      <3> QED
        BY <3>1, <2>1, NotBelowFar
    <2>4. FirstFrom(es, key, p)
      BY <2>1, <2>2, <2>3, <1>5 DEF FirstFrom
    <2> QED
      BY <2>4, <1>1
  <1>9. I = {} => FirstFrom(es, key, p)
    BY <1>4, <1>5, <1>6 DEF FirstFrom
  <1> QED
    BY <1>1, <1>8, <1>9

\* The filter has every key that was put into it.
LEMMA FilterKnows ==
    ASSUME NEW keys, NEW n, NEW key \in keys
    PROVE  MayContain(Build(keys, n), key)
  <1> DEFINE m == OptimalBits(AtLeast(1, n))
             k == OptimalHashFuncs(m, AtLeast(1, n))
             f == Build(keys, n)
  <1>1. f.m = m /\ f.k = k /\ f.bits = UNION {Probed(x, m, k) : x \in keys}
    BY DEF Build
  <1> HIDE DEF m, k, f
  <1>2. Probed(key, m, k) \subseteq f.bits
    BY <1>1
  <1>3. MayContain(f, key)
    BY <1>1, <1>2 DEF MayContain
  <1> QED
    BY <1>3 DEF f

-----------------------------------------------------------------------------
(* The binary search over restart points.                                    *)

\* What there is after each turn.
SeekTurns(b, target, n, after) ==
    after = [t \in 0 .. n |-> IF t = 0 THEN [lo |-> 1, hi |-> Len(b.restarts)]
                              ELSE SeekTurn(b, target, after[t - 1])]

LEMMA SeekTurnsExist ==
    ASSUME NEW b, NEW target, NEW turns \in Nat
    PROVE  \E after : SeekTurns(b, target, turns, after)
  <1> DEFINE Bad == {i \in Nat : \A g : ~SeekTurns(b, target, i, g)}
             start == [lo |-> 1, hi |-> Len(b.restarts)]
  <1>1. 0 \notin Bad
    <2> DEFINE g == [n \in 0 .. 0 |-> start]
    <2>1. \A n \in 0 .. 0 : n = 0
      OBVIOUS
    <2>2. SeekTurns(b, target, 0, g)
      BY <2>1 DEF SeekTurns
    <2> QED
      BY <2>2
  <1>2. ASSUME NEW i \in Nat, i \notin Bad PROVE i + 1 \notin Bad
    <2>1. PICK g : SeekTurns(b, target, i, g)
      BY <1>2
    <2>2. \A n \in 0 .. i : g[n] = IF n = 0 THEN start ELSE SeekTurn(b, target, g[n - 1])
      BY <2>1 DEF SeekTurns
    <2> DEFINE h == [n \in 0 .. i + 1 |-> IF n = i + 1 THEN SeekTurn(b, target, g[i]) ELSE g[n]]
    <2>3. \A n \in 0 .. i : h[n] = g[n]
      OBVIOUS
    <2>4. h[i + 1] = SeekTurn(b, target, g[i])
      OBVIOUS
    <2>5. h = [n \in 0 .. i + 1 |-> h[n]]
      OBVIOUS
    <2> HIDE DEF h
    <2>6. \A n \in 0 .. i + 1 : h[n] = IF n = 0 THEN start ELSE SeekTurn(b, target, h[n - 1])
      <3> TAKE n \in 0 .. i + 1
      <3>1. CASE n = i + 1
        <4>1. n # 0 /\ n - 1 = i /\ i \in 0 .. i
          BY <3>1
        <4> QED
          BY <3>1, <4>1, <2>3, <2>4
      <3>2. CASE n # i + 1
        <4>1. n \in 0 .. i /\ (n # 0 => n - 1 \in 0 .. i)
          BY <3>2
        <4> QED
          BY <4>1, <2>2, <2>3
      <3> QED
        BY <3>1, <3>2
    <2>7. SeekTurns(b, target, i + 1, h)
      BY <2>5, <2>6 DEF SeekTurns
    <2> QED
      BY <2>7
  <1>3. ASSUME NEW c \in Bad PROVE FALSE
    <2>1. PICK i \in Bad : \A k \in Bad : i =< k
      BY <1>3, SmallestOf
    <2>2. i # 0 /\ i \in Nat
      BY <2>1, <1>1
    <2> HIDE DEF Bad
    <2>3. i - 1 \in Nat /\ (i - 1) + 1 = i /\ ~(i =< i - 1)
      BY <2>2
    <2>4. i - 1 \notin Bad
      BY <2>1, <2>3
    <2> QED
      BY <2>1, <2>3, <2>4, <1>2
  <1>4. turns \notin Bad
    BY <1>3
  <1> QED
    BY <1>4

\* The entry at restart point r is not above the target, or r is the first one.
NotAbove(b, es, lo, target, r) ==
    r = 1 \/ ~KeyLess(target, es[lo + b.restarts[r]].key)

Searching(b, es, lo, target, s) ==
    /\ s.lo \in 1 .. Len(b.restarts) /\ s.hi \in s.lo .. Len(b.restarts)
    /\ NotAbove(b, es, lo, target, s.lo)

LEMMA SeekTurnIs ==
    ASSUME NEW b, NEW es, NEW lo, NEW hi, Held(b, es, lo, hi), NEW target \in Key,
           NEW s, Searching(b, es, lo, target, s)
    PROVE  Searching(b, es, lo, target, SeekTurn(b, target, s))
  <1>1. CASE s.lo >= s.hi
    BY <1>1 DEF SeekTurn
  <1>2. CASE ~(s.lo >= s.hi)
    <2>1. PICK n : n = Len(b.restarts)
      OBVIOUS
    <2>2. n \in Nat
      BY <2>1 DEF Held, Encodes, Block
    <2>3. PICK l \in 1 .. n : l = s.lo
      BY <2>1 DEF Searching
    <2>4. PICK h \in l .. n : h = s.hi
      BY <2>1, <2>3 DEF Searching
    <2>5. PICK mid : mid = (s.lo + s.hi + 1) \div 2
      OBVIOUS
    <2>6. mid \in l + 1 .. h
      <3>1. l < h
        BY <1>2, <2>3, <2>4
      <3>2. mid = (l + h + 1) \div 2
        BY <2>3, <2>4, <2>5
      <3> QED
        BY <3>1, <3>2, <2>2
    <2>7. mid \in 1 .. n /\ mid # 1
      BY <2>2, <2>6
    <2>8. BlockAt(b, b.restarts[mid]).key = es[lo + b.restarts[mid]].key
      <3>1. PICK r : r = b.restarts[mid]
        OBVIOUS
      <3>2. r \in 1 .. hi - lo /\ b.cells[r].shared = 0
        BY <3>1, <2>1, <2>7 DEF Held, Encodes
      <3>3. BlockAt(b, r) = Item(es, lo, r)
        BY <3>2, BlockAtIs
      <3> QED
        BY <3>1, <3>3 DEF Item
    <2>9. SeekTurn(b, target, s) = IF KeyLess(target, es[lo + b.restarts[mid]].key)
                                     THEN [s EXCEPT !.hi = mid - 1] ELSE [s EXCEPT !.lo = mid]
      BY <1>2, <2>5, <2>8 DEF SeekTurn
    <2> QED
      BY <2>1, <2>2, <2>3, <2>4, <2>6, <2>7, <2>9 DEF Searching, NotAbove
  <1> QED
    BY <1>1, <1>2

LEMMA RestartIs ==
    ASSUME NEW b, NEW es, NEW lo, NEW hi, Held(b, es, lo, hi), lo < hi, NEW target \in Key
    PROVE  /\ RestartFor(b, target) \in 1 .. Len(b.restarts)
           /\ NotAbove(b, es, lo, target, RestartFor(b, target))
  <1>1. PICK n \in Nat : n = Len(b.restarts)
    BY DEF Held, Encodes, Block
  <1>2. n >= 1
    <2>1. hi > lo
      BY DEF Held
    <2> QED
      BY <2>1, <1>1 DEF Held, Encodes
  <1>3. PICK after : SeekTurns(b, target, n, after) /\ RestartFor(b, target) = after[n].lo
    <2> DEFINE F(a) == a = [t \in 0 .. n |-> IF t = 0 THEN [lo |-> 1, hi |-> n]
                                              ELSE SeekTurn(b, target, a[t - 1])]
    <2>1. \A a : F(a) <=> SeekTurns(b, target, n, a)
      BY <1>1 DEF SeekTurns
    <2>2. RestartFor(b, target) = (CHOOSE a : F(a))[n].lo
      BY <1>1 DEF RestartFor
    <2> HIDE DEF F
    <2>3. \E a : F(a)
      BY <2>1, SeekTurnsExist
    <2> QED
      BY <2>1, <2>2, <2>3
  <1>4. \A t \in 0 .. n : after[t] = IF t = 0 THEN [lo |-> 1, hi |-> n] ELSE SeekTurn(b, target, after[t - 1])
    BY <1>1, <1>3 DEF SeekTurns
  <1> DEFINE Bad == {t \in 0 .. n : ~Searching(b, es, lo, target, after[t])}
  <1>5. ASSUME NEW c \in Bad PROVE FALSE
    <2>1. Bad \in SUBSET Nat /\ Bad # {}
      BY <1>5
    <2>2. PICK t \in Bad : \A k \in Bad : t =< k
      <3> HIDE DEF Bad
      <3> QED
        BY <2>1, SmallestOf
    <2>3. t # 0
      <3>1. Searching(b, es, lo, target, [lo |-> 1, hi |-> n])
        BY <1>1, <1>2 DEF Searching, NotAbove
      <3> QED
        BY <3>1, <2>2, <1>4
    <2>4. t \in 0 .. n /\ t - 1 \in 0 .. n /\ ~(t =< t - 1) /\ after[t] = SeekTurn(b, target, after[t - 1])
      BY <2>2, <2>3, <1>4
    <2>5. Searching(b, es, lo, target, after[t - 1])
      BY <2>2, <2>4
    <2>6. Searching(b, es, lo, target, after[t])
      BY <2>4, <2>5, SeekTurnIs
    <2> QED
      BY <2>2, <2>6
  <1>6. Searching(b, es, lo, target, after[n])
    BY <1>5
  <1> QED
    BY <1>1, <1>3, <1>6 DEF Searching

\* blockIter.Seek: the entries of the block from the first one not below the target on.
LEMMA BlockSeekIs ==
    ASSUME NEW b, NEW es, NEW lo, NEW hi, Held(b, es, lo, hi), Ascending(es), NEW target \in Key,
           NEW p \in lo + 1 .. hi, FirstFrom(es, target, p)
    PROVE  /\ BlockSeek(b, target) # <<>> /\ BlockSeek(b, target)[1] = Item(es, lo, p - lo)
           /\ EntriesAt(BlockSeek(b, target)) = SubSeq(es, p, hi)
  <1>1. /\ es \in Seq(Record) /\ lo \in Nat /\ hi \in Nat /\ hi =< Len(es) /\ Len(es) \in Nat
        /\ p \in 1 .. Len(es) /\ lo < p /\ p =< hi /\ lo < hi
    BY DEF Held
  <1>2. \A i \in 1 .. Len(es) : es[i].key \in Key
    BY <1>1, RecordsAre
  <1>3. /\ \A i \in 1 .. p - 1 : KeyLess(es[i].key, target)
        /\ \A i \in p .. Len(es) : ~KeyLess(es[i].key, target)
    BY <1>1 DEF FirstFrom
  <1>4. PICK r : r = RestartFor(b, target)
    OBVIOUS
  <1>5. PICK q : q = b.restarts[r]
    OBVIOUS
  <1>6. r \in 1 .. Len(b.restarts) /\ NotAbove(b, es, lo, target, r)
    BY <1>1, <1>4, RestartIs
  <1>7. q \in 1 .. hi - lo /\ b.cells[q].shared = 0 /\ (r = 1 => q = 1)
    BY <1>1, <1>5, <1>6 DEF Held, Encodes
  <1>8. lo + q =< p
    <2>1. CASE r = 1
      BY <2>1, <1>1, <1>7
    <2>2. CASE r # 1
      <3> SUFFICES ASSUME ~(lo + q =< p) PROVE FALSE
        OBVIOUS
      <3>1. lo + q \in 1 .. Len(es) /\ p < lo + q
        BY <1>1, <1>7
      <3>2. ~KeyLess(es[p].key, target)
        BY <1>1, <1>3
      <3>3. KeyLess(target, es[lo + q].key)
        BY <3>1, <3>2, <1>1, NotBelowFar
      <3> QED
        BY <2>2, <3>3, <1>5, <1>6 DEF NotAbove
    <2> QED
      BY <2>1, <2>2
  <1> DEFINE from == BlockFrom(b, q)
             I == {i \in 1 .. Len(from) : ~KeyLess(from[i].key, target)}
  <1>9. PICK k \in Nat : k = hi - lo + 1 - q
    BY <1>1, <1>7
  <1>10. from = [i \in 1 .. k |-> Item(es, lo, q + i - 1)]
    <2>1. q \in 1 .. hi - lo + 1
      BY <1>1, <1>7
    <2> QED
      BY <2>1, <1>7, <1>9, BlockFromIs
  <1>11. PICK s : s = p - lo - q + 1
    OBVIOUS
  <1>12. s \in 1 .. k
    BY <1>1, <1>7, <1>8, <1>9, <1>11
  <1>13. Len(from) = k /\ \A i \in 1 .. k : from[i].key = es[lo + q + i - 1].key
    <2>1. Len(from) = k
      BY <1>10
    <2>2. \A i \in 1 .. k : lo + (q + i - 1) = lo + q + i - 1
      BY <1>1, <1>7, <1>9
    <2>3. \A i \in 1 .. k : from[i] = Item(es, lo, q + i - 1)
      BY <1>10
    <2> HIDE DEF from
    <2> QED
      BY <2>1, <2>2, <2>3 DEF Item
  <1>14. I \in SUBSET Nat
    <2>1. k \in Nat /\ Len(from) = k
      BY <1>13
    <2> HIDE DEF from
    <2> QED
      BY <2>1
  <1>15. s \in I /\ \A i \in I : s =< i
    <2>1. s \in I
      <3>1. lo + q + s - 1 = p
        BY <1>1, <1>7, <1>11
      <3>2. from[s].key = es[p].key
        BY <3>1, <1>12, <1>13
      <3>3. ~KeyLess(es[p].key, target)
        BY <1>1, <1>3
      <3> HIDE DEF from
      <3> QED
        BY <3>2, <3>3, <1>12, <1>13
    <2>2. ASSUME NEW i \in I PROVE s =< i
      <3>1. i \in 1 .. k /\ ~KeyLess(es[lo + q + i - 1].key, target)
        <4> HIDE DEF from
        <4> QED
          BY <1>13
      <3> SUFFICES ASSUME ~(s =< i) PROVE FALSE
        OBVIOUS
      <3>2. lo + q + i - 1 \in 1 .. p - 1
        BY <3>1, <1>1, <1>7, <1>9, <1>11
      <3> QED
        BY <3>1, <3>2, <1>3
    <2> QED
      BY <2>1, <2>2
  <1>16. SelectInSeq(from, LAMBDA it : ~KeyLess(it.key, target)) = s
    <2>1. SelectInSeq(from, LAMBDA it : ~KeyLess(it.key, target)) = IF I # {} THEN Min(I) ELSE 0
      BY DEF SelectInSeq
    <2> HIDE DEF I, from
    <2>2. PICK m : m = IF I # {} THEN Min(I) ELSE 0
      OBVIOUS
    <2>3. m \in I /\ \A i \in I : m =< i
      BY <2>2, <1>14, <1>15, LeastOrZero
    <2> QED
      BY <2>1, <2>2, <2>3, <1>14, <1>15
  <1>17. BlockSeek(b, target) = SubSeq(from, s, k)
    <2>1. PICK n : n = SelectInSeq(from, LAMBDA it : ~KeyLess(it.key, target))
      OBVIOUS
    <2>2. BlockSeek(b, target) = IF n = 0 THEN <<>> ELSE SubSeq(from, n, Len(from))
      BY <2>1, <1>4, <1>5 DEF BlockSeek
    <2>3. n = s
      BY <2>1, <1>16
    <2> HIDE DEF from
    <2> QED
      BY <2>2, <2>3, <1>12, <1>13
  <1>18. SubSeq(from, s, k) = [i \in 1 .. k - s + 1 |-> Item(es, lo, p - lo + i - 1)]
    <2>1. from \in Seq({Item(es, lo, j) : j \in 1 .. hi - lo})
      <3>1. \A i \in 1 .. k : q + i - 1 \in 1 .. hi - lo
        BY <1>1, <1>7, <1>9
      <3> QED
        BY <3>1, <1>10
    <2>2. \A i \in 1 .. k - s + 1 : /\ s + i - 1 \in 1 .. k
                                    /\ q + (s + i - 1) - 1 = p - lo + i - 1
      BY <1>1, <1>7, <1>9, <1>11, <1>12
    <2>3. \A i \in 1 .. k - s + 1 : from[s + i - 1] = Item(es, lo, p - lo + i - 1)
      BY <2>2, <1>10
    <2> HIDE DEF from
    <2>4. SubSeq(from, s, k) = [i \in 1 .. k - s + 1 |-> from[s + i - 1]]
      BY <2>1, <1>12, <1>13 DEF SubSeq
    <2> QED
      BY <2>3, <2>4
  <1> HIDE DEF I, from
  <1>19. PICK n \in Nat : n = k - s + 1
    BY <1>12
  <1>20. PICK its : its = [i \in 1 .. n |-> Item(es, lo, p - lo + i - 1)]
    OBVIOUS
  <1>21. BlockSeek(b, target) = its /\ Len(its) = n /\ DOMAIN its = 1 .. n /\ n >= 1
         /\ n = hi - p + 1
    BY <1>1, <1>7, <1>9, <1>11, <1>12, <1>17, <1>18, <1>19, <1>20
  <1>22. its # <<>> /\ its[1] = Item(es, lo, p - lo)
    <2>1. 1 \in 1 .. n /\ p - lo + 1 - 1 = p - lo
      BY <1>1, <1>21
    <2> QED
      BY <2>1, <1>20, <1>21
  <1>23. EntriesAt(its) = SubSeq(es, p, hi)
    <2>1. \A i \in 1 .. n : EntryAt(its[i]) = es[p + i - 1]
      <3> TAKE i \in 1 .. n
      <3>1. PICK j : j = p - lo + i - 1
        OBVIOUS
      <3>2. lo + j = p + i - 1 /\ lo + j \in 1 .. Len(es)
        BY <3>1, <1>1, <1>21
      <3>3. EntryAt(Item(es, lo, j)) = es[lo + j]
        BY <3>2, <1>1, EntryAtItem
      <3> QED
        BY <3>1, <3>2, <3>3, <1>20
    <2>2. SubSeq(es, p, hi) = [i \in 1 .. hi - p + 1 |-> es[p + i - 1]]
      BY <1>1
    <2>3. EntriesAt(its) = [i \in 1 .. n |-> EntryAt(its[i])]
      BY <1>21 DEF EntriesAt
    <2> QED
      BY <2>1, <2>2, <2>3, <1>21
  <1> QED
    BY <1>21, <1>22, <1>23

\* es[p] is in block n, 0 if there is no such entry.
Located(f, cuts, p, n) ==
    /\ p = 0 => n = 0
    /\ p # 0 => n \in 1 .. Len(f.blocks) /\ p \in cuts[n - 1] + 1 .. cuts[n]

\* The index leads to the block of the first entry not below the key.
LEMMA BlockForIs ==
    ASSUME NEW f, NEW es \in Seq(Record), NEW cuts, Holding(f, es, cuts), Ascending(es),
           NEW key \in Key, NEW p, FirstFrom(es, key, p)
    PROVE  Located(f, cuts, p, BlockFor(f, key))
  <1> DEFINE n == BlockFor(f, key)
  <1>1. PICK c \in Nat : c = Len(f.blocks)
    <2>1. Len(f.blocks) \in Nat
      BY DEF Holding
    <2> QED
      BY <2>1
  <1>2. /\ Len(es) \in Nat /\ \A i \in 0 .. c : cuts[i] \in Nat /\ cuts[i] =< Len(es)
        /\ cuts[0] = 0 /\ cuts[c] = Len(es) /\ Len(f.index) = c
        /\ \A i \in 1 .. c : cuts[i - 1] < cuts[i] /\ f.index[i] = es[cuts[i]].key
    <2>1. Holding(f, es, cuts)
      OBVIOUS
    <2>2. /\ Len(es) \in Nat /\ \A i \in 0 .. c : cuts[i] \in Nat /\ cuts[i] =< Len(es)
          /\ cuts[0] = 0 /\ cuts[c] = Len(es) /\ Len(f.index) = c
      BY <1>1, CutsAre
    <2>3. \A i \in 1 .. c : cuts[i - 1] < cuts[i] /\ f.index[i] = es[cuts[i]].key
      BY <1>1 DEF Holding, Cut
    <2> QED
      BY <2>2, <2>3
  <1> DEFINE I == {i \in 1 .. c : ~KeyLess(f.index[i], key)}
  <1>3. n = IF I # {} THEN Min(I) ELSE 0
    BY <1>2 DEF BlockFor, SelectInSeq
  <1> HIDE DEF n
  <1>4. I \in SUBSET Nat
    OBVIOUS
  <1>5. \A i \in 1 .. c : cuts[i] \in 1 .. Len(es)
    <2> TAKE i \in 1 .. c
    <2>1. i \in 0 .. c /\ i - 1 \in 0 .. c
      OBVIOUS
    <2>2. cuts[i - 1] \in Nat /\ cuts[i] \in Nat /\ cuts[i] =< Len(es) /\ cuts[i - 1] < cuts[i]
      BY <2>1, <1>2
    <2> QED
      BY <2>2, <1>2
  <1>6. \A i \in 1 .. c : i \in I <=> p # 0 /\ p =< cuts[i]
    <2> TAKE i \in 1 .. c
    <2>1. i \in I <=> ~KeyLess(es[cuts[i]].key, key)
      BY <1>2
    <2>2. p \in 0 .. Len(es)
      BY DEF FirstFrom
    <2>3. CASE p = 0
      BY <2>1, <2>3, <1>5 DEF FirstFrom
    <2>4. CASE p # 0 /\ p =< cuts[i]
      <3>1. cuts[i] \in p .. Len(es)
        BY <2>2, <2>4, <1>5
      <3> QED
        BY <3>1, <2>1, <2>4 DEF FirstFrom
    <2>5. CASE p # 0 /\ ~(p =< cuts[i])
      <3>1. cuts[i] \in 1 .. p - 1
        BY <2>2, <2>5, <1>5
      <3> QED
        BY <3>1, <2>1, <2>5 DEF FirstFrom
    <2> QED
      BY <2>3, <2>4, <2>5
  <1>7. (I = {} => n = 0) /\ (I # {} => n \in I /\ \A i \in I : n =< i)
    <2> HIDE DEF I
    <2> QED
      BY <1>3, <1>4, LeastOrZero
  <1>8. \A i \in I : i \in 1 .. c
    OBVIOUS
  <1> HIDE DEF I
  <1>9. ASSUME p = 0 PROVE n = 0
    BY <1>6, <1>7, <1>8, <1>9
  <1>10. ASSUME p # 0 PROVE n \in 1 .. c /\ p \in cuts[n - 1] + 1 .. cuts[n]
    <2>1. p \in 1 .. Len(es)
      BY <1>10 DEF FirstFrom
    <2>2. c # 0
      BY <2>1, <1>2
    <2>3. c \in I
      BY <2>1, <2>2, <1>2, <1>6
    <2>4. n \in I /\ n \in 1 .. c /\ p =< cuts[n]
      BY <2>3, <1>6, <1>7, <1>8
    <2>5. cuts[n - 1] < p
      <3>1. CASE n = 1
        BY <3>1, <2>1, <1>2
      <3>2. CASE n # 1
        <4>1. n - 1 \in 1 .. c /\ ~(n =< n - 1)
          BY <3>2, <2>4
        <4>2. ~(p =< cuts[n - 1])
          BY <4>1, <2>3, <1>6, <1>7, <1>10
        <4>3. cuts[n - 1] \in Nat
          BY <4>1, <1>5
        <4> QED
          BY <4>2, <4>3, <2>1
      <3> QED
        BY <3>1, <3>2
    <2>6. cuts[n] \in Nat /\ cuts[n - 1] \in Nat
      <3>1. n \in 0 .. c /\ n - 1 \in 0 .. c
        BY <2>4
      <3> QED
        BY <3>1, <1>2
    <2> QED
      BY <2>1, <2>4, <2>5, <2>6
  <1> QED
    BY <1>1, <1>9, <1>10 DEF Located, n

\* Reader.Get finds the entry, or there is none, or a block is bad.
LEMMA GetIs ==
    ASSUME NEW f, NEW es, FileOf(f, es), NEW bad, NEW key \in Key, NEW p, FirstFrom(es, key, p),
           NEW got, got = Get(f, bad, key)
    PROVE  /\ got.err => bad # {}
           /\ ~got.err => got = IF p # 0 /\ es[p].key = key THEN Found(es[p]) ELSE NotFound
           /\ got.err \in BOOLEAN
  <1>1. es \in Seq(Record) /\ Ascending(es)
    BY DEF FileOf
  <1>2. PICK cuts : Holding(f, es, cuts)
    BY DEF FileOf
  <1>3. PICK n : n = BlockFor(f, key)
    OBVIOUS
  <1>4. /\ p = 0 => n = 0
        /\ p # 0 => n \in 1 .. Len(f.blocks) /\ p \in cuts[n - 1] + 1 .. cuts[n]
    <2>1. Located(f, cuts, p, BlockFor(f, key))
      BY <1>1, <1>2, BlockForIs
    <2> QED
      BY <2>1, <1>3 DEF Located
  <1>5. ~NotFound.err /\ ReadError.err = TRUE /\ NotFound.err = FALSE
        /\ \A e : Found(e).err = FALSE
    BY DEF NotFound, ReadError, Found
  <1>6. CASE p # 0 /\ es[p].key = key /\ ~MayContain(f.filter, key)
    <2>1. p \in 1 .. Len(es)
      BY <1>6, <1>1 DEF FirstFrom
    <2>2. key \in KeysOf(es)
      BY <1>6, <2>1 DEF KeysOf
    <2>3. f.filter = Build(KeysOf(es), Len(es))
      BY <1>2 DEF Holding
    <2> QED
      BY <1>6, <2>2, <2>3, FilterKnows
  <1>7. CASE ~(p # 0 /\ es[p].key = key) /\ (~MayContain(f.filter, key) \/ n = 0)
    <2>1. got = NotFound
      BY <1>3, <1>7 DEF Get
    <2> QED
      BY <2>1, <1>5, <1>7
  <1>8. CASE MayContain(f.filter, key) /\ n # 0 /\ n \in bad
    <2>1. got = ReadError
      BY <1>3, <1>8 DEF Get
    <2> QED
      BY <2>1, <1>5, <1>8
  <1>9. CASE MayContain(f.filter, key) /\ n # 0 /\ n \notin bad
    <2>1. PICK its : its = BlockSeek(f.blocks[n], key)
      OBVIOUS
    <2>2. got = IF its # <<>> /\ its[1].key = key THEN Found(EntryAt(its[1])) ELSE NotFound
      BY <1>3, <1>9, <2>1 DEF Get
    <2>3. p # 0 /\ n \in 1 .. Len(f.blocks) /\ p \in cuts[n - 1] + 1 .. cuts[n]
      BY <1>4, <1>9
    <2>4. PICK lo : lo = cuts[n - 1]
      OBVIOUS
    <2>5. Held(f.blocks[n], es, lo, cuts[n])
      <3>1. Holding(f, es, cuts)
        BY <1>2
      <3> QED
        BY <3>1, <2>3, <2>4, <1>1, CutsAre
    <2>6. its # <<>> /\ its[1] = Item(es, lo, p - lo)
      BY <2>1, <2>3, <2>4, <2>5, <1>1, BlockSeekIs
    <2>7. PICK j : j = p - lo
      OBVIOUS
    <2>8. lo + j = p /\ p \in 1 .. Len(es)
      BY <2>3, <2>5, <2>7 DEF Held, FirstFrom
    <2>9. its[1].key = es[p].key
      BY <2>6, <2>7, <2>8 DEF Item
    <2>10. EntryAt(its[1]) = es[p]
      BY <2>6, <2>7, <2>8, <1>1, EntryAtItem
    <2> QED
      BY <2>2, <2>3, <2>6, <2>9, <2>10, <1>5
  <1> QED
    BY <1>4, <1>6, <1>7, <1>8, <1>9

\* Iterator.Seek, and Next to the end of a file without bad blocks.
LEMMA ScanFromIs ==
    ASSUME NEW f, NEW es, FileOf(f, es), NEW key \in Key, NEW p, FirstFrom(es, key, p)
    PROVE  ScanFrom(f, {}, key) = IF p = 0 THEN <<>> ELSE SubSeq(es, p, Len(es))
  <1>1. es \in Seq(Record) /\ Ascending(es)
    BY DEF FileOf
  <1>2. PICK cuts : Holding(f, es, cuts)
    BY DEF FileOf
  <1>3. PICK n : n = BlockFor(f, key)
    OBVIOUS
  <1>4. /\ p = 0 => n = 0
        /\ p # 0 => n \in 1 .. Len(f.blocks) /\ p \in cuts[n - 1] + 1 .. cuts[n]
    <2>1. Located(f, cuts, p, BlockFor(f, key))
      BY <1>1, <1>2, BlockForIs
    <2> QED
      BY <2>1, <1>3 DEF Located
  <1>5. CASE p = 0
    BY <1>3, <1>4, <1>5 DEF ScanFrom
  <1>6. CASE p # 0
    <2>1. PICK c \in Nat : c = Len(f.blocks)
      <3>1. Len(f.blocks) \in Nat
        BY <1>2 DEF Holding
      <3> QED
        BY <3>1
    <2>2. n \in 1 .. c /\ p \in cuts[n - 1] + 1 .. cuts[n] /\ n # 0 /\ n + 1 \in 1 .. Len(f.blocks) + 1
      BY <1>4, <1>6, <2>1
    <2>3. Held(f.blocks[n], es, cuts[n - 1], cuts[n]) /\ cuts[c] = Len(es)
      <3>1. Holding(f, es, cuts)
        BY <1>2
      <3> QED
        BY <3>1, <2>1, <2>2, <1>1, CutsAre
    <2>4. EntriesAt(BlockSeek(f.blocks[n], key)) = SubSeq(es, p, cuts[n])
      BY <2>2, <2>3, <1>1, BlockSeekIs
    <2>5. PICK m : m = n + 1
      OBVIOUS
    <2>6. PICK none : none = {}
      OBVIOUS
    <2>7. PICK stop : Delivers(f, es, cuts, none, m, stop)
      <3>1. none \in SUBSET (1 .. Len(f.blocks)) /\ m \in 1 .. Len(f.blocks) + 1
        BY <2>2, <2>5, <2>6
      <3> QED
        BY <3>1, <1>1, <1>2, EntriesFromIs
    <2>8. stop = c + 1 /\ EntriesFrom(f, {}, n + 1) = SubSeq(es, cuts[n] + 1, Len(es))
      <3>1. stop = c + 1
        BY <2>1, <2>6, <2>7 DEF Delivers, StopsAt
      <3>2. m - 1 = n /\ stop - 1 = c
        BY <3>1, <2>1, <2>2, <2>5
      <3> QED
        BY <3>1, <3>2, <2>3, <2>5, <2>6, <2>7 DEF Delivers
    <2>9. SubSeq(es, p, cuts[n]) \o SubSeq(es, cuts[n] + 1, Len(es)) = SubSeq(es, p, Len(es))
      <3>1. p \in 1 .. Len(es) /\ cuts[n] \in p .. Len(es) /\ Len(es) \in Nat
        BY <2>2, <2>3, <1>1, <1>6 DEF Held, FirstFrom
      <3>2. PICK h \in Nat : h = cuts[n]
        BY <3>1
      <3>3. p \in 1 .. Len(es) + 1 /\ h \in p - 1 .. Len(es) /\ Len(es) \in h .. Len(es)
        BY <3>1, <3>2
      <3> QED
        BY <3>1, <3>2, <3>3, <1>1, ConcatAdjacentSubSeq
    <2>10. ScanFrom(f, {}, key) = EntriesAt(BlockSeek(f.blocks[n], key)) \o EntriesFrom(f, {}, n + 1)
      BY <1>3, <2>2 DEF ScanFrom
    <2> QED
      BY <2>4, <2>8, <2>9, <2>10, <1>6
  <1> QED
    BY <1>5, <1>6

\* Reader.Get, Iterator.Seek: in every table of every state a lookup through filter, index
\* and restart points finds what reading the whole table finds, for any key at all, and
\* fails only where a block cannot be read.
THEOREM LookupsAgree == Spec => []SearchAgrees
  <1>1. TablesInv => SearchAgrees
    <2> SUFFICES ASSUME TablesInv, NEW i \in DOMAIN tables, NEW key \in Targets
                 PROVE  LET f    == tables[i].file
                            all  == Scan(f, {})
                            from == SelectInSeq(all, LAMBDA e : ~KeyLess(e.key, key))
                            hit  == from # 0 /\ all[from].key = key
                            got  == Get(f, tables[i].bad, key)
                        IN  /\ got.err => tables[i].bad # {}
                            /\ ~got.err => got = IF hit THEN Found(all[from]) ELSE NotFound
                            /\ ScanFrom(f, {}, key) = IF from = 0 THEN <<>> ELSE SubSeq(all, from, Len(all))
      BY DEF SearchAgrees
    <2>1. PICK f : f = tables[i].file
      OBVIOUS
    <2>2. PICK es : FileOf(f, es) /\ tables[i].bad \in SUBSET (1 .. Len(f.blocks))
      BY <2>1 DEF TablesInv, TableSound
    <2>3. es \in Seq(Record) /\ Ascending(es) /\ key \in Key
      BY <2>2, KeysAreKeys DEF FileOf
    <2>4. Scan(f, {}) = es
      BY <2>2, ScanIs
    <2>5. PICK p : p = SelectInSeq(es, LAMBDA e : ~KeyLess(e.key, key))
      OBVIOUS
    <2>6. FirstFrom(es, key, p)
      BY <2>3, <2>5, EntrySelected
    <2>7. PICK got : got = Get(f, tables[i].bad, key)
      OBVIOUS
    <2>8. /\ got.err => tables[i].bad # {}
          /\ ~got.err => got = IF p # 0 /\ es[p].key = key THEN Found(es[p]) ELSE NotFound
      BY <2>2, <2>3, <2>6, <2>7, GetIs
    <2>9. ScanFrom(f, {}, key) = IF p = 0 THEN <<>> ELSE SubSeq(es, p, Len(es))
      BY <2>2, <2>3, <2>6, ScanFromIs
    <2>10. SelectInSeq(Scan(f, {}), LAMBDA e : ~KeyLess(e.key, key)) = p
      BY <2>4, <2>5
    <2> QED
      BY <2>1, <2>4, <2>7, <2>8, <2>9, <2>10
  <1> QED
    BY <1>1, TablesInvariant, PTL
=============================================================================
