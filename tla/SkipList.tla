------------------------------- MODULE SkipList -----------------------------
(***************************************************************************)
(* internal/memtable: the skip list that holds the writes which are not in *)
(* a table yet.  A node is named by its key, and NoKey stands for the head *)
(* where a node is meant and for the end of the list where its successor   *)
(* is.  next[x] is the tower of x: its successor at each of its levels.    *)
(*                                                                         *)
(* An Iterator keeps a pointer to a node and takes the lock for one call   *)
(* at a time: writes come between its calls.  Clear gives the list a new   *)
(* head and leaves the old nodes to the iterators that stand on them, so a *)
(* cursor has the list it stands in, the live one or a detached one, which *)
(* nothing changes any more.                                               *)
(***************************************************************************)
EXTENDS Versions, KeyOrder

CONSTANT MaxLevel       \* maxLevel

ASSUME SkipListAssumption == MaxLevel \in Nat \ {0}

\* New, and what Clear puts in the place of the list.
NewList ==
    [next |-> [x \in {NoKey} |-> [i \in 1 .. MaxLevel |-> NoKey]],
     entry |-> [k \in {} |-> NoVersion],
     level |-> 1, size |-> 0, bytes |-> 0]

Nodes(l) == DOMAIN l.entry

\* estimateBytes: the key, the value, and a constant.
EntryBytes(key, version) == Len(key) + (IF version.val = Tombstone THEN 0 ELSE 1) + 1

\* The head and the nodes whose tower reaches level i.
Level(l, i) == {x \in DOMAIN l.next : i \in DOMAIN l.next[x]}

\* Along level i from node x, right while the key there is below the target.
Walk(l, target, i, x) ==
    LET from[y \in Level(l, i)] ==
            LET z == l.next[y][i]
            IN  IF z # NoKey /\ KeyLess(z, target) THEN from[z] ELSE y
    IN  from[x]

\* The search every operation begins with, from the top level down: the last
\* node reached at each level.
Path(l, target) ==
    LET down[i \in 1 .. l.level] ==
            Walk(l, target, i, IF i = l.level THEN NoKey ELSE down[i + 1])
    IN  down

\* The first node not below the target, NoKey if there is none.
SeekNode(l, target) == l.next[Path(l, target)[1]][1]

\* Mutant of Replace: the size of the old entry is not taken off.
ReplaceAdding(l, key, version) ==
    IF version.seq < l.entry[key].seq THEN l ELSE
    [l EXCEPT !.entry[key] = version, !.bytes = @ + EntryBytes(key, version)]

\* set, for a key that has a node: a version replaces the one held unless that
\* one is newer.
Replace(l, key, version) ==
    IF version.seq < l.entry[key].seq THEN l ELSE
    [l EXCEPT !.entry[key] = version,
              !.bytes = @ + EntryBytes(key, version) - EntryBytes(key, l.entry[key])]

\* Mutant of Insert: above the level the list had, the tower is not linked in.
InsertLow(l, key, version, height) ==
    LET path == Path(l, key)
    IN  [next  |-> [x \in DOMAIN l.next \cup {key} |->
                      IF x = key
                        THEN [i \in 1 .. height |->
                                IF i =< l.level THEN l.next[path[i]][i] ELSE NoKey]
                        ELSE [i \in DOMAIN l.next[x] |->
                                IF i =< height /\ i =< l.level /\ path[i] = x
                                  THEN key ELSE l.next[x][i]]],
         entry |-> [k \in Nodes(l) \cup {key} |-> IF k = key THEN version ELSE l.entry[k]],
         level |-> Larger(l.level, height),
         size  |-> l.size + 1,
         bytes |-> l.bytes + EntryBytes(key, version)]

\* set, for a new key: a tower of the height randomLevel gave is linked in after
\* the path, and after the head at the levels the list did not have.
Insert(l, key, version, height) ==
    LET path    == Path(l, key)
        pred(i) == IF i =< l.level THEN path[i] ELSE NoKey
    IN  [next  |-> [x \in DOMAIN l.next \cup {key} |->
                      IF x = key
                        THEN [i \in 1 .. height |-> l.next[pred(i)][i]]
                        ELSE [i \in DOMAIN l.next[x] |->
                                IF i =< height /\ pred(i) = x THEN key ELSE l.next[x][i]]],
         entry |-> [k \in Nodes(l) \cup {key} |-> IF k = key THEN version ELSE l.entry[k]],
         level |-> Larger(l.level, height),
         size  |-> l.size + 1,
         bytes |-> l.bytes + EntryBytes(key, version)]

\* Put and Delete.
Set(l, key, version, height) ==
    IF SeekNode(l, key) = key THEN Replace(l, key, version) ELSE Insert(l, key, version, height)

\* The records of a frame, in order; heights are what randomLevel gives each key.
SetFrame(l, frame, heights) ==
    FoldLeft(LAMBDA m, r : Set(m, r.key, VersionOf(r), heights[r.key]), l, frame)

-----------------------------------------------------------------------------
(* Reading.                                                                  *)

\* SkipList.Get.
MemGet(l, key) == IF SeekNode(l, key) = key THEN l.entry[key] ELSE NoVersion

\* The keys from node x on, x left out, along level i.
KeysAfter(l, x, i) ==
    LET from[y \in Level(l, i)] ==
            LET z == l.next[y][i] IN IF z = NoKey THEN <<>> ELSE <<z>> \o from[z]
    IN  from[x]

\* Snapshot, and Ascend.
Snapshot(l) ==
    LET keys == KeysAfter(l, NoKey, 1)
    IN  [i \in DOMAIN keys |->
            [key |-> keys[i], seq |-> l.entry[keys[i]].seq, val |-> l.entry[keys[i]].val]]

-----------------------------------------------------------------------------
(* Iterator.  A cursor stands on a node, on the head, or nowhere.  When Clear *)
(* takes the list from it, "own" is what is left of the old nodes after it.   *)

\* NewIterator leaves the cursor on the head, which Valid takes for an entry.
NewCursor   == [valid |-> TRUE, at |-> NoKey, detached |-> FALSE, own |-> <<>>]
CursorOn(x) == [valid |-> x # NoKey, at |-> x, detached |-> FALSE, own |-> <<>>]

\* SeekToFirst and Seek start from the head the list has now.
ToFirst(l)        == CursorOn(l.next[NoKey][1])
ToNode(l, target) == CursorOn(SeekNode(l, target))

\* Next goes on from the node, wherever it is.
Advance(l, c) ==
    IF ~c.detached THEN CursorOn(l.next[c.at][1])
    ELSE IF c.own = <<>> THEN CursorOn(NoKey)
    ELSE [c EXCEPT !.at = Head(c.own), !.own = Tail(@)]

\* Mutant of Detach: Clear cuts the links of the old nodes.
DetachCut(l, c) == IF c.valid /\ ~c.detached THEN [c EXCEPT !.detached = TRUE] ELSE c

\* What Clear means for a cursor: nothing changes the old nodes any more.
Detach(l, c) ==
    IF c.valid /\ ~c.detached
      THEN [c EXCEPT !.detached = TRUE, !.own = KeysAfter(l, c.at, 1)] ELSE c

-----------------------------------------------------------------------------
(* What set must keep.                                                       *)

\* The list at every level is in order and is the part of the list one level
\* down whose towers reach this high: a search that comes down a tower finds
\* what a walk along the bottom would.
LevelsNested(l) ==
    /\ \A i \in 1 .. MaxLevel :
          LET keys == KeysAfter(l, NoKey, i)
          IN  Sorted(keys) /\ ToSet(keys) = {k \in Nodes(l) : Len(l.next[k]) >= i}
    /\ \A k \in Nodes(l) : Len(l.next[k]) =< l.level

\* size and bytes, which decide when to flush, are those of the entries held,
\* however often they were replaced.
Accounted(l) ==
    /\ l.size = Cardinality(Nodes(l))
    /\ l.bytes = MapThenSumSet(LAMBDA k : EntryBytes(k, l.entry[k]), Nodes(l))
=============================================================================
