--------------------------- MODULE VersionsProofs ---------------------------
(* Lemmas about the operators of Versions, for every set of keys and values. *)
EXTENDS Versions, FiniteSetTheorems, WellFoundedInduction, TLAPS

\* The newest of a set of versions is a version, also when there is none.
LEMMA NewestType ==
    ASSUME NEW S \in SUBSET Version
    PROVE  Newest(S) \in Version
  <1>1. NoVersion \in Version
    BY DEF NoVersion, Version, Contents
  <1> DEFINE top == {v \in S : \A w \in S : w.seq =< v.seq}
  <1>2. top # {} => (CHOOSE v \in top : TRUE) \in top
    OBVIOUS
  <1> QED
    BY <1>1, <1>2 DEF Newest

\* The highest of a set of sequence numbers is one, 0 when there is none.
LEMMA HighestSeqType ==
    ASSUME NEW S \in SUBSET Nat
    PROVE  HighestSeq(S) \in Nat
  <1> DEFINE top == {s \in S : \A t \in S : t =< s}
  <1>1. top # {} => (CHOOSE s \in top : TRUE) \in top
    OBVIOUS
  <1> QED
    BY <1>1 DEF HighestSeq

LEMMA LargerType ==
    ASSUME NEW m \in Nat, NEW n \in Nat
    PROVE  /\ Larger(m, n) \in Nat
           /\ m =< Larger(m, n) /\ n =< Larger(m, n)
  BY DEF Larger

LEMMA EmptyTableType == EmptyTable \in Table
  BY DEF EmptyTable, Table, NoVersion, Version, Contents

\* Merging tables gives a table.
LEMMA MergeTablesType ==
    ASSUME NEW T \in SUBSET Table
    PROVE  MergeTables(T) \in Table
  <1>1. ASSUME NEW k \in Keys PROVE {t[k] : t \in T} \in SUBSET Version
    BY <1>1 DEF Table
  <1>2. ASSUME NEW k \in Keys PROVE Newest({t[k] : t \in T}) \in Version
    BY <1>1, NewestType
  <1> QED
    BY <1>2 DEF MergeTables, Table

\* Applying a frame to a memtable gives a memtable.
LEMMA MemApplyType ==
    ASSUME NEW t \in Table, NEW f \in Frame
    PROVE  MemApply(t, f) \in Table
  <1>1. ToSet(f) \subseteq Record
    BY DEF ToSet, Frame
  <1>2. ASSUME NEW k \in Keys
        PROVE  {t[k]} \cup {VersionOf(r) : r \in {s \in ToSet(f) : s.key = k}} \in SUBSET Version
    BY <1>1, <1>2 DEF VersionOf, Version, Record, Table
  <1>3. ASSUME NEW k \in Keys
        PROVE  Newest({t[k]} \cup {VersionOf(r) : r \in {s \in ToSet(f) : s.key = k}}) \in Version
    BY <1>2, NewestType
  <1> QED
    BY <1>3 DEF MemApply, Table

LEMMA MaxSeqOfType ==
    ASSUME NEW t \in Table
    PROVE  MaxSeqOf(t) \in Nat
  <1>1. {t[k].seq : k \in Keys} \in SUBSET Nat
    BY DEF Table, Version
  <1> QED
    BY <1>1, HighestSeqType DEF MaxSeqOf

LEMMA LastSeqType ==
    ASSUME NEW f \in Frame
    PROVE  LastSeq(f) \in Nat
  <1>1. f \in Seq(Record) /\ Len(f) \in Nat /\ Len(f) # 0
    BY DEF Frame
  <1>2. f[Len(f)] \in Record
    BY <1>1
  <1> QED
    BY <1>2 DEF LastSeq, Record

-----------------------------------------------------------------------------
(* The highest of a bounded set of numbers is above them all.                *)

LEMMA SmallestOf ==
    ASSUME NEW T \in SUBSET Nat, T # {}
    PROVE  \E x \in T : \A y \in T : x =< y
  <1>1. \E x \in T : \A y \in T : ~(<<y, x>> \in OpToRel(<, Nat))
    BY NatLessThanWellFounded, WFMin
  <1>2. PICK x \in T : \A y \in T : ~(<<y, x>> \in OpToRel(<, Nat))
    BY <1>1
  <1>3. \A y \in T : ~(y < x)
    BY <1>2 DEF OpToRel
  <1> QED
    BY <1>3

LEMMA HighestSeqBound ==
    ASSUME NEW S \in SUBSET Nat, NEW b \in Nat, \A s \in S : s =< b
    PROVE  \A s \in S : s =< HighestSeq(S)
  <1> DEFINE T == {b - s : s \in S}
             top == {s \in S : \A t \in S : t =< s}
  <1>1. CASE S = {}
    BY <1>1
  <1>2. CASE S # {}
    <2>1. T \in SUBSET Nat /\ T # {}
      <3>1. ASSUME NEW s \in S PROVE b - s \in Nat
        <4>1. s \in Nat /\ s =< b
          OBVIOUS
        <4> QED
          BY <4>1
      <3>2. T \in SUBSET Nat
        BY <3>1
      <3>3. PICK s \in S : TRUE
        BY <1>2
      <3>4. b - s \in T
        BY <3>3
      <3> QED
        BY <3>2, <3>4
    <2>2. PICK x \in T : \A y \in T : x =< y
      BY <2>1, SmallestOf
    <2>3. PICK m \in S : x = b - m
      OBVIOUS
    <2>4. \A s \in S : b - m =< b - s
      BY <2>2, <2>3
    <2>5. m \in top
      BY <2>4
    <2>6. HighestSeq(S) \in top
      BY <2>5 DEF HighestSeq
    <2> QED
      BY <2>6
  <1> QED
    BY <1>1, <1>2

LEMMA HighestSeqLeast ==
    ASSUME NEW S \in SUBSET Nat, NEW b \in Nat, \A s \in S : s =< b
    PROVE  HighestSeq(S) =< b
  <1> DEFINE top == {s \in S : \A t \in S : t =< s}
  <1>1. top # {} => (CHOOSE s \in top : TRUE) \in top
    OBVIOUS
  <1>2. HighestSeq(S) \in top \/ HighestSeq(S) = 0
    BY <1>1 DEF HighestSeq
  <1>3. top \subseteq S
    OBVIOUS
  <1>4. HighestSeq(S) \in S \/ HighestSeq(S) = 0
    BY <1>2, <1>3, Zenon
  <1>5. CASE HighestSeq(S) \in S
    BY <1>5, Zenon
  <1>6. CASE HighestSeq(S) = 0
    BY <1>6
  <1> QED
    BY <1>4, <1>5, <1>6

\* Finitely many numbers are bounded.
Bounded(n) == \A f \in [1 .. n -> Nat] : \E b \in Nat : \A i \in 1 .. n : f[i] =< b

LEMMA OneMoreBounded ==
    ASSUME NEW n \in Nat, Bounded(n)
    PROVE  Bounded(n + 1)
  <1> SUFFICES ASSUME NEW f \in [1 .. n + 1 -> Nat]
               PROVE  \E b \in Nat : \A i \in 1 .. n + 1 : f[i] =< b
    BY DEF Bounded
  <1> DEFINE g == [i \in 1 .. n |-> f[i]]
  <1>1. \A i \in 1 .. n : i \in 1 .. n + 1
    OBVIOUS
  <1>2. g \in [1 .. n -> Nat]
    BY <1>1
  <1>3. PICK b \in Nat : \A i \in 1 .. n : g[i] =< b
    BY <1>2 DEF Bounded
  <1>4. n + 1 \in 1 .. n + 1
    OBVIOUS
  <1>5. f[n + 1] \in Nat
    BY <1>4
  <1>6. b + f[n + 1] \in Nat
    BY <1>5
  <1>7. ASSUME NEW i \in 1 .. n + 1 PROVE f[i] =< b + f[n + 1]
    <2>1. CASE i = n + 1
      BY <1>5, <2>1
    <2>2. CASE i # n + 1
      <3>1. i \in 1 .. n
        BY <2>2
      <3>2. f[i] =< b
        BY <1>3, <3>1
      <3>3. f[i] \in Nat
        OBVIOUS
      <3> QED
        BY <1>5, <3>2, <3>3
    <2> QED
      BY <2>1, <2>2
  <1> QED
    BY <1>6, <1>7

\* Otherwise there is a least n for which n numbers may be unbounded, and it is
\* neither 0 nor a successor.
LEMMA FinitelyManyBounded == \A n \in Nat : Bounded(n)
  <1> DEFINE bad == {n \in Nat : ~Bounded(n)}
  <1>1. SUFFICES ASSUME bad # {} PROVE FALSE
    OBVIOUS
  <1>2. PICK n \in bad : \A m \in bad : n =< m
    BY <1>1, SmallestOf
  <1>3. Bounded(0)
    <2>1. 1 .. 0 = {} /\ 0 \in Nat
      OBVIOUS
    <2> QED
      BY <2>1, Zenon DEF Bounded
  <1>4. n \in Nat /\ ~Bounded(n)
    BY <1>2
  <1>5. n # 0
    BY <1>3, <1>4
  <1>6. n - 1 \in Nat /\ ~(n =< n - 1) /\ (n - 1) + 1 = n
    BY <1>4, <1>5
  <1>7. n - 1 \notin bad
    BY <1>2, <1>6
  <1>8. Bounded(n - 1)
    BY <1>6, <1>7
  <1>9. Bounded((n - 1) + 1)
    BY <1>6, <1>8, OneMoreBounded
  <1> QED
    BY <1>4, <1>6, <1>9

\* MaxSeqOf is above every version of a table: there are finitely many keys.
LEMMA MaxSeqOfBound ==
    ASSUME NEW t \in Table
    PROVE  \A k \in Keys : t[k].seq =< MaxSeqOf(t)
  <1> DEFINE S == {t[k].seq : k \in Keys}
  <1>1. S \in SUBSET Nat
    BY DEF Table, Version
  <1>2. PICK n \in Nat : ExistsSurjection(1 .. n, Keys)
    BY FS_NatSurjection, VersionsAssumption
  <1>3. PICK g \in [1 .. n -> Keys] : \A k \in Keys : \E i \in 1 .. n : g[i] = k
    BY <1>2 DEF ExistsSurjection, Surjection
  <1> DEFINE f == [i \in 1 .. n |-> t[g[i]].seq]
  <1>4. f \in [1 .. n -> Nat]
    BY DEF Table, Version
  <1>5. PICK b \in Nat : \A i \in 1 .. n : f[i] =< b
    BY <1>4, FinitelyManyBounded DEF Bounded
  <1>6. \A s \in S : s =< b
    BY <1>3, <1>5
  <1>7. \A s \in S : s =< HighestSeq(S)
    BY <1>1, <1>6, HighestSeqBound
  <1> QED
    BY <1>7 DEF MaxSeqOf
-----------------------------------------------------------------------------
(* The newest of a set of versions is one of them, and of a bounded set it   *)
(* is above them all; so is what a merge or an application of a frame keeps. *)

LEMMA HighestSeqIn ==
    ASSUME NEW S \in SUBSET Nat
    PROVE  HighestSeq(S) \in S \/ HighestSeq(S) = 0
  <1> DEFINE top == {s \in S : \A t \in S : t =< s}
  <1>1. top # {} => (CHOOSE s \in top : TRUE) \in top
    OBVIOUS
  <1>2. top \subseteq S
    OBVIOUS
  <1> QED
    BY <1>1, <1>2, Zenon DEF HighestSeq

LEMMA NewestIn ==
    ASSUME NEW S \in SUBSET Version
    PROVE  Newest(S) \in S \/ Newest(S) = NoVersion
  <1> DEFINE top == {v \in S : \A w \in S : w.seq =< v.seq}
  <1>1. top # {} => (CHOOSE v \in top : TRUE) \in top
    OBVIOUS
  <1>2. top \subseteq S
    OBVIOUS
  <1> QED
    BY <1>1, <1>2, Zenon DEF Newest

LEMMA NewestAbove ==
    ASSUME NEW S \in SUBSET Version, NEW b \in Nat, \A v \in S : v.seq =< b
    PROVE  \A v \in S : v.seq =< Newest(S).seq
  <1> SUFFICES ASSUME NEW u \in S PROVE \A v \in S : v.seq =< Newest(S).seq
    OBVIOUS
  <1> DEFINE N == {v.seq : v \in S}
             top == {v \in S : \A w \in S : w.seq =< v.seq}
  <1>1. N \in SUBSET Nat /\ u.seq \in N
    BY DEF Version
  <1>2. \A s \in N : s =< HighestSeq(N)
    <2>1. \A s \in N : s =< b
      OBVIOUS
    <2> QED
      BY <1>1, <2>1, HighestSeqBound
  <1>3. HighestSeq(N) \in N
    <2>1. CASE HighestSeq(N) = 0
      <3>1. u.seq =< 0 /\ u.seq \in Nat
        BY <1>1, <1>2, <2>1
      <3>2. u.seq = HighestSeq(N)
        BY <2>1, <3>1
      <3> QED
        BY <1>1, <3>2, Zenon
    <2> QED
      BY <1>1, <2>1, HighestSeqIn
  <1>4. PICK v \in S : v.seq = HighestSeq(N)
    BY <1>3
  <1>5. v \in top
    BY <1>2, <1>4
  <1>6. Newest(S) \in top
    BY <1>5 DEF Newest
  <1> QED
    BY <1>6

\* Where no two versions share a number there is one newest.
LEMMA NewestIs ==
    ASSUME NEW S \in SUBSET Version, NEW v \in S,
           \A w \in S : w.seq =< v.seq /\ (w.seq = v.seq => w = v)
    PROVE  Newest(S) = v
  <1> DEFINE top == {u \in S : \A w \in S : w.seq =< u.seq}
  <1>1. v \in top
    OBVIOUS
  <1>2. ASSUME NEW u \in top PROVE u = v
    <2>1. v.seq =< u.seq /\ u.seq =< v.seq /\ u.seq \in Nat /\ v.seq \in Nat
      BY <1>2 DEF Version
    <2>2. u.seq = v.seq
      BY <2>1
    <2> QED
      BY <1>2, <2>2
  <1>3. Newest(S) \in top
    BY <1>1 DEF Newest
  <1> QED
    BY <1>2, <1>3

\* Two sets of versions of one key are resolved alike if one holds nothing but
\* versions of the other and above each of them one of its own.
LEMMA ResolvedAlike ==
    ASSUME NEW X \in SUBSET Version, NEW Y \in SUBSET Version,
           NEW b \in Nat, \A y \in Y : 0 < y.seq /\ y.seq =< b,
           \A y, z \in Y : y.seq = z.seq => y = z,
           \A x \in X : x = NoVersion \/ x \in Y,
           \A y \in Y : \E x \in X : y.seq =< x.seq
    PROVE  Newest(X) = Newest(Y)
  <1>1. CASE Y = {}
    <2>1. Newest(X) = NoVersion
      BY <1>1, NewestIn
    <2>2. Newest(Y) = NoVersion
      BY <1>1, NewestIn
    <2> QED
      BY <2>1, <2>2
  <1>2. ASSUME NEW u \in Y PROVE Newest(X) = Newest(Y)
    <2> DEFINE m == Newest(Y)
    <2>1. \A y \in Y : y.seq =< m.seq
      BY NewestAbove
    <2>2. m \in Y
      <3>1. CASE m = NoVersion
        <4>1. 0 < u.seq /\ u.seq =< m.seq /\ m.seq = 0 /\ u.seq \in Nat
          BY <2>1, <3>1 DEF NoVersion, Version
        <4> QED
          BY <4>1
      <3> QED
        BY <3>1, NewestIn
    <2> HIDE DEF m
    <2>3. PICK x \in X : m.seq =< x.seq
      BY <2>2
    <2>4. 0 < m.seq /\ m.seq \in Nat
      BY <2>2 DEF Version
    <2>5. x \in Y
      BY <2>3, <2>4 DEF NoVersion
    <2>6. x = m
      <3>1. x.seq =< m.seq /\ x.seq \in Nat
        BY <2>1, <2>5 DEF Version
      <3> QED
        BY <2>2, <2>3, <2>4, <2>5, <3>1
    <2>7. ASSUME NEW w \in X PROVE w.seq =< m.seq /\ (w.seq = m.seq => w = m)
      <3>1. CASE w = NoVersion
        BY <2>4, <3>1 DEF NoVersion
      <3>2. CASE w \in Y
        BY <2>1, <2>2, <3>2
      <3> QED
        BY <3>1, <3>2
    <2>8. m \in X
      BY <2>6
    <2> QED
      BY <2>7, <2>8, NewestIs DEF m
  <1> QED
    BY <1>1, <1>2

\* The set of versions that MergeTables and MemApply choose from.
VersionsOf(f, k) == {VersionOf(r) : r \in {s \in ToSet(f) : s.key = k}}

LEMMA VersionsOfType ==
    ASSUME NEW f \in Seq(Record), NEW k \in Keys
    PROVE  VersionsOf(f, k) \in SUBSET Version
  <1>1. ToSet(f) \subseteq Record
    BY DEF ToSet
  <1> QED
    BY <1>1 DEF VersionsOf, VersionOf, Version, Record

\* A merge holds versions of its inputs only, and none is newer.
LEMMA MergeHolds ==
    ASSUME NEW T \in SUBSET Table, NEW k \in Keys
    PROVE  MergeTables(T)[k] = NoVersion \/ \E t \in T : MergeTables(T)[k] = t[k]
  <1> DEFINE S == {t[k] : t \in T}
  <1>1. S \in SUBSET Version
    BY DEF Table
  <1>2. MergeTables(T)[k] = Newest(S)
    BY DEF MergeTables
  <1> QED
    BY <1>1, <1>2, NewestIn

LEMMA MergeAbove ==
    ASSUME NEW T \in SUBSET Table, NEW k \in Keys, NEW b \in Nat, \A t \in T : t[k].seq =< b
    PROVE  \A t \in T : t[k].seq =< MergeTables(T)[k].seq
  <1> DEFINE S == {t[k] : t \in T}
  <1>1. S \in SUBSET Version /\ \A v \in S : v.seq =< b
    BY DEF Table
  <1>2. MergeTables(T)[k] = Newest(S)
    BY DEF MergeTables
  <1>3. \A v \in S : v.seq =< Newest(S).seq
    BY <1>1, NewestAbove
  <1> QED
    BY <1>2, <1>3

\* So does a memtable with a frame applied.
LEMMA ApplyHolds ==
    ASSUME NEW t \in Table, NEW f \in Seq(Record), NEW k \in Keys
    PROVE  \/ MemApply(t, f)[k] = NoVersion
           \/ MemApply(t, f)[k] = t[k]
           \/ \E r \in ToSet(f) : r.key = k /\ MemApply(t, f)[k] = VersionOf(r)
  <1> DEFINE S == {t[k]} \cup VersionsOf(f, k)
  <1>1. S \in SUBSET Version
    BY VersionsOfType DEF Table
  <1>2. MemApply(t, f)[k] = Newest(S)
    BY DEF MemApply, VersionsOf
  <1>3. MemApply(t, f)[k] \in S \/ MemApply(t, f)[k] = NoVersion
    BY <1>1, <1>2, NewestIn
  <1> QED
    BY <1>3 DEF VersionsOf

LEMMA ApplyAbove ==
    ASSUME NEW t \in Table, NEW f \in Seq(Record), NEW k \in Keys, NEW b \in Nat,
           t[k].seq =< b, \A r \in ToSet(f) : r.seq =< b
    PROVE  /\ t[k].seq =< MemApply(t, f)[k].seq
           /\ \A r \in ToSet(f) : r.key = k => r.seq =< MemApply(t, f)[k].seq
  <1> DEFINE S == {t[k]} \cup VersionsOf(f, k)
  <1>1. S \in SUBSET Version
    BY VersionsOfType DEF Table
  <1>2. \A v \in S : v.seq =< b
    BY DEF VersionsOf, VersionOf
  <1>3. MemApply(t, f)[k] = Newest(S)
    BY DEF MemApply, VersionsOf
  <1>4. \A v \in S : v.seq =< MemApply(t, f)[k].seq
    BY <1>1, <1>2, <1>3, NewestAbove
  <1>5. ASSUME NEW r \in ToSet(f), r.key = k PROVE r.seq =< MemApply(t, f)[k].seq
    <2>1. VersionOf(r) \in S /\ VersionOf(r).seq = r.seq
      BY <1>5 DEF VersionsOf, VersionOf
    <2> QED
      BY <1>4, <2>1
  <1> QED
    BY <1>4, <1>5
=============================================================================
