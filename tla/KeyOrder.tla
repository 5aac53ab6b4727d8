------------------------------- MODULE KeyOrder -----------------------------
(***************************************************************************)
(* The order of keys: internal/byteutil.  A key is a sequence of bytes,    *)
(* given here as numbers; every sorted structure of the engine (the skip   *)
(* list, the blocks of an SSTable, its index, the merge, the iterators)    *)
(* is sorted by KeyLess, and blocks leave out the bytes a key shares with  *)
(* the one before it.                                                      *)
(***************************************************************************)
EXTENDS Integers, Sequences, FiniteSets

\* What a nil key is, and the place before the first key and after the last:
\* the engine stores no empty key.
NoKey == <<>>

\* SharedPrefixLen: the length of the common prefix.
SharedPrefixLen(a, b) ==
    CHOOSE n \in 0 .. Len(a) :
        /\ n =< Len(b)
        /\ \A i \in 1 .. n : a[i] = b[i]
        /\ n < Len(a) /\ n < Len(b) => a[n + 1] # b[n + 1]

\* Compare(a, b) < 0: bytes.Compare, where a proper prefix comes first.
KeyLess(a, b) ==
    LET n == SharedPrefixLen(a, b)
    IN  n < Len(b) /\ (n = Len(a) \/ a[n + 1] < b[n + 1])

\* The elements of a finite set from the least to the greatest.
InOrder(S, Less(_, _)) ==
    [i \in 1 .. Cardinality(S) |-> CHOOSE x \in S : Cardinality({y \in S : Less(y, x)}) = i - 1]

Sorted(keys) == \A i \in 2 .. Len(keys) : KeyLess(keys[i - 1], keys[i])
=============================================================================
