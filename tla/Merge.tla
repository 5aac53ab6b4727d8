--------------------------------- MODULE Merge ------------------------------
(***************************************************************************)
(* internal/compact: what is compacted, and the k-way merge of SSTables.   *)
(*                                                                         *)
(* The merge keeps one item per input in a heap, the entry the iterator of *)
(* that input stands on.  It takes the least item, advances the iterator   *)
(* it came from, and writes the item unless its key was the last one       *)
(* taken: the heap yields the newest version of a key first.               *)
(***************************************************************************)
EXTENDS SSTable

\* Mutant of ItemLess: the version in the older input comes first.
ItemLessByInput(a, b) ==
    \/ KeyLess(a.entry.key, b.entry.key)
    \/ a.entry.key = b.entry.key /\ a.idx < b.idx

\* Mutant of ItemLess: the newest entry of all comes first, whatever its key.
ItemLessBySeq(a, b) ==
    \/ a.entry.seq > b.entry.seq
    \/ a.entry.seq = b.entry.seq /\ a.idx < b.idx

\* mergeHeap.Less with PreferNewerSeq.
ItemLess(a, b) ==
    \/ KeyLess(a.entry.key, b.entry.key)
    \/ /\ a.entry.key = b.entry.key
       /\ \/ a.entry.seq > b.entry.seq
          \/ a.entry.seq = b.entry.seq /\ a.idx < b.idx

\* The items the iterators of the inputs in idxs stand on; rest[i] is what input
\* i has left to deliver.
Standing(rest, idxs) == {[idx |-> i, entry |-> Head(rest[i])] : i \in {j \in idxs : rest[j] # <<>>}}

MergeStart(inputs) ==
    [rest |-> inputs, heap |-> Standing(inputs, DOMAIN inputs), lastKey |-> NoKey, w |-> NewWriter]

\* Mutant of MergeStep: the last key is not compared.
MergeStepKeepingAll(m) ==
    LET item == CHOOSE x \in m.heap : \A y \in m.heap \ {x} : ItemLess(x, y)
        rest == [m.rest EXCEPT ![item.idx] = Tail(@)]
    IN  [rest    |-> rest,
         heap    |-> (m.heap \ {item}) \cup Standing(rest, {item.idx}),
         lastKey |-> item.entry.key,
         w       |-> Add(m.w, item.entry)]

\* One turn of the loop.  Tombstones are kept: Compact sets no DropTombstones.
MergeStep(m) ==
    LET item == CHOOSE x \in m.heap : \A y \in m.heap \ {x} : ItemLess(x, y)
        rest == [m.rest EXCEPT ![item.idx] = Tail(@)]
    IN  [rest    |-> rest,
         heap    |-> (m.heap \ {item}) \cup Standing(rest, {item.idx}),
         lastKey |-> item.entry.key,
         w       |-> IF item.entry.key = m.lastKey THEN m.w ELSE Add(m.w, item.entry)]

\* MergeFiles, from what the iterators of the inputs deliver: an input that
\* ends early, because a block of it cannot be read, is an input that ended.
MergeFiles(inputs) ==
    LET turns == MapThenSumSet(LAMBDA i : Len(inputs[i]), DOMAIN inputs)
        after[n \in 0 .. turns] == IF n = 0 THEN MergeStart(inputs) ELSE MergeStep(after[n - 1])
    IN  Finish(after[turns].w)

\* CompactDir: every table of level 0 if there are two (PlanLevel0), else the
\* first two.  levels[i] is the level of the i-th table.
Planned(levels) ==
    LET level0 == {i \in DOMAIN levels : levels[i] = 0}
    IN  IF Cardinality(level0) >= 2 THEN level0 ELSE {1, 2} \cap DOMAIN levels
=============================================================================
