----------------------------- MODULE ListProofs ----------------------------
(***************************************************************************)
(* The memtable of DataPath, for every set of keys, values, batches and    *)
(* heights: what a search finds, and what set keeps.                       *)
(***************************************************************************)
EXTENDS DataPath, VersionsProofs, SequenceTheorems

-----------------------------------------------------------------------------
(* The order of keys.                                                        *)

Key == Seq(Nat)

LEMMA SharedPrefixIs ==
    ASSUME NEW a \in Key, NEW b \in Key
    PROVE  LET n == SharedPrefixLen(a, b)
           IN  /\ n \in Nat /\ n =< Len(a) /\ n =< Len(b)
               /\ \A i \in 1 .. n : a[i] = b[i]
               /\ n < Len(a) /\ n < Len(b) => a[n + 1] # b[n + 1]
  <1> DEFINE Shares(n) == /\ n =< Len(b)
                          /\ \A i \in 1 .. n : a[i] = b[i]
                          /\ n < Len(a) /\ n < Len(b) => a[n + 1] # b[n + 1]
             T == {n \in Nat : n >= Len(a) \/ n >= Len(b) \/ a[n + 1] # b[n + 1]}
  <1>1. Len(a) \in Nat /\ Len(b) \in Nat
    BY DEF Key
  <1>2. Len(a) \in T /\ Len(b) \in T
    BY <1>1
  <1>3. PICK n \in T : \A m \in T : n =< m
    BY <1>2, SmallestOf
  <1>4. n =< Len(a) /\ n =< Len(b) /\ n \in Nat
    BY <1>1, <1>2, <1>3
  <1>5. \A i \in 1 .. n : a[i] = b[i]
    <2> SUFFICES ASSUME NEW i \in 1 .. n PROVE a[i] = b[i]
      OBVIOUS
    <2> DEFINE j == i - 1
    <2>1. j \in Nat /\ j < n /\ j + 1 = i
      BY <1>4
    <2>2. j \notin T
      BY <1>3, <1>4, <2>1
    <2>3. a[j + 1] = b[j + 1]
      BY <2>1, <2>2
    <2> QED
      BY <2>1, <2>3
  <1>6. n \in 0 .. Len(a) /\ Shares(n)
    BY <1>1, <1>3, <1>4, <1>5
  <1>7. SharedPrefixLen(a, b) \in 0 .. Len(a) /\ Shares(SharedPrefixLen(a, b))
    BY <1>6 DEF SharedPrefixLen
  <1> QED
    BY <1>1, <1>7

LEMMA SharedPrefixUnique ==
    ASSUME NEW a \in Key, NEW b \in Key, NEW n \in Nat, n =< Len(a), n =< Len(b),
           \A i \in 1 .. n : a[i] = b[i],
           n < Len(a) /\ n < Len(b) => a[n + 1] # b[n + 1]
    PROVE  SharedPrefixLen(a, b) = n
  <1> DEFINE m == SharedPrefixLen(a, b)
  <1>1. /\ m \in Nat /\ m =< Len(a) /\ m =< Len(b)
        /\ \A i \in 1 .. m : a[i] = b[i]
        /\ m < Len(a) /\ m < Len(b) => a[m + 1] # b[m + 1]
    BY SharedPrefixIs
  <1> HIDE DEF m
  <1>2. Len(a) \in Nat /\ Len(b) \in Nat
    BY DEF Key
  <1>3. m < n => m + 1 \in 1 .. n
    BY <1>1
  <1>4. n < m => n + 1 \in 1 .. m
    BY <1>1
  <1>5. m = n
    BY <1>1, <1>2, <1>3, <1>4
  <1> QED
    BY <1>5 DEF m

LEMMA KeyLessIs ==
    ASSUME NEW a \in Key, NEW b \in Key, NEW n, n = SharedPrefixLen(a, b)
    PROVE  /\ n \in Nat /\ n =< Len(a) /\ n =< Len(b)
           /\ \A i \in 1 .. n : a[i] = b[i]
           /\ n < Len(a) => a[n + 1] \in Nat
           /\ n < Len(b) => b[n + 1] \in Nat
           /\ n < Len(a) /\ n < Len(b) => a[n + 1] # b[n + 1]
           /\ KeyLess(a, b) <=> n < Len(b) /\ (n = Len(a) \/ a[n + 1] < b[n + 1])
           /\ Len(a) \in Nat /\ Len(b) \in Nat
  <1>1. /\ n \in Nat /\ n =< Len(a) /\ n =< Len(b)
        /\ \A i \in 1 .. n : a[i] = b[i]
        /\ n < Len(a) /\ n < Len(b) => a[n + 1] # b[n + 1]
    BY SharedPrefixIs
  <1>2. Len(a) \in Nat /\ Len(b) \in Nat /\ \A i \in 1 .. Len(a) : a[i] \in Nat
    BY DEF Key
  <1>3. \A i \in 1 .. Len(b) : b[i] \in Nat
    BY DEF Key
  <1>4. n < Len(a) => n + 1 \in 1 .. Len(a)
    BY <1>1, <1>2
  <1>5. n < Len(b) => n + 1 \in 1 .. Len(b)
    BY <1>1, <1>2
  <1> QED
    BY <1>1, <1>2, <1>3, <1>4, <1>5 DEF KeyLess

\* KeyLess is a strict total order in which NoKey is least.
LEMMA KeyLessIrreflexive ==
    ASSUME NEW a \in Key
    PROVE  ~KeyLess(a, a)
  <1>1. SharedPrefixLen(a, a) = Len(a)
    BY SharedPrefixUnique DEF Key
  <1> QED
    BY <1>1, KeyLessIs

LEMMA KeyLessTotal ==
    ASSUME NEW a \in Key, NEW b \in Key
    PROVE  a = b \/ KeyLess(a, b) \/ KeyLess(b, a)
  <1> DEFINE n == SharedPrefixLen(a, b)
  <1>1. /\ n \in Nat /\ n =< Len(a) /\ n =< Len(b)
        /\ \A i \in 1 .. n : a[i] = b[i]
        /\ n < Len(a) => a[n + 1] \in Nat
        /\ n < Len(b) => b[n + 1] \in Nat
        /\ n < Len(a) /\ n < Len(b) => a[n + 1] # b[n + 1]
        /\ KeyLess(a, b) <=> n < Len(b) /\ (n = Len(a) \/ a[n + 1] < b[n + 1])
        /\ Len(a) \in Nat /\ Len(b) \in Nat
    BY KeyLessIs
  <1>2. SharedPrefixLen(b, a) = n
    <2> HIDE DEF n
    <2> QED
      BY <1>1, SharedPrefixUnique
  <1>3. KeyLess(b, a) <=> n < Len(a) /\ (n = Len(b) \/ b[n + 1] < a[n + 1])
    BY <1>2, KeyLessIs
  <1> HIDE DEF n
  <1>4. ASSUME n = Len(a), n = Len(b) PROVE a = b
    <2>1. a \in [1 .. Len(a) -> Nat] /\ b \in [1 .. Len(b) -> Nat]
      BY LenProperties DEF Key
    <2> QED
      BY <2>1, <1>1, <1>4
  <1> QED
    BY <1>1, <1>3, <1>4

LEMMA KeyLessTransitive ==
    ASSUME NEW a \in Key, NEW b \in Key, NEW c \in Key, KeyLess(a, b), KeyLess(b, c)
    PROVE  KeyLess(a, c)
  <1>1. PICK n : n = SharedPrefixLen(a, b)
    OBVIOUS
  <1>2. PICK m : m = SharedPrefixLen(b, c)
    OBVIOUS
  <1>3. /\ n \in Nat /\ n =< Len(a) /\ n =< Len(b)
        /\ \A i \in 1 .. n : a[i] = b[i]
        /\ n < Len(a) => a[n + 1] \in Nat
        /\ n < Len(b) => b[n + 1] \in Nat
        /\ n < Len(b) /\ (n = Len(a) \/ a[n + 1] < b[n + 1])
        /\ Len(a) \in Nat /\ Len(b) \in Nat
    BY <1>1, KeyLessIs
  <1>4. /\ m \in Nat /\ m =< Len(b) /\ m =< Len(c)
        /\ \A i \in 1 .. m : b[i] = c[i]
        /\ m < Len(b) => b[m + 1] \in Nat
        /\ m < Len(c) => c[m + 1] \in Nat
        /\ m < Len(c) /\ (m = Len(b) \/ b[m + 1] < c[m + 1])
        /\ Len(b) \in Nat /\ Len(c) \in Nat
    BY <1>2, KeyLessIs
  <1>5. PICK p \in Nat : (p = n \/ p = m) /\ p =< n /\ p =< m
    <2>1. CASE n =< m
      BY <2>1, <1>3, <1>4
    <2>2. CASE m =< n
      <3>1. m \in Nat /\ m =< n /\ m =< m
        BY <2>2, <1>4
      <3> QED
        BY <3>1
    <2> QED
      BY <2>1, <2>2, <1>3, <1>4
  <1>6. /\ p =< Len(a) /\ p < Len(c)
        /\ p = Len(a) \/ a[p + 1] < c[p + 1]
    <2>1. CASE n < m
      <3>1. n + 1 \in 1 .. m
        BY <2>1, <1>3, <1>4
      <3> QED
        BY <2>1, <3>1, <1>3, <1>4, <1>5
    <2>2. CASE m < n
      <3>1. m + 1 \in 1 .. n
        BY <2>2, <1>3, <1>4
      <3> QED
        BY <2>2, <3>1, <1>3, <1>4, <1>5
    <2>3. CASE m = n
      BY <2>3, <1>3, <1>4, <1>5
    <2> QED
      BY <2>1, <2>2, <2>3, <1>3, <1>4
  <1>7. \A i \in 1 .. p : a[i] = c[i]
    <2> SUFFICES ASSUME NEW i \in 1 .. p PROVE a[i] = c[i]
      OBVIOUS
    <2>1. i \in 1 .. n /\ i \in 1 .. m
      BY <1>3, <1>4, <1>5
    <2> QED
      BY <2>1, <1>3, <1>4
  <1>8. p < Len(a) => a[p + 1] \in Nat /\ c[p + 1] \in Nat
    <2>1. p < Len(a) => p + 1 \in 1 .. Len(a)
      BY <1>3, <1>5
    <2>2. p + 1 \in 1 .. Len(c)
      BY <1>4, <1>5, <1>6
    <2> QED
      BY <2>1, <2>2 DEF Key
  <1>9. SharedPrefixLen(a, c) = p
    <2>1. p =< Len(c) /\ (p < Len(a) /\ p < Len(c) => a[p + 1] # c[p + 1])
      BY <1>3, <1>4, <1>5, <1>6, <1>8
    <2> QED
      BY <2>1, <1>6, <1>7, SharedPrefixUnique
  <1> QED
    BY <1>6, <1>9 DEF KeyLess

LEMMA NoKeyFirst ==
    /\ NoKey \in Key
    /\ \A a \in Key : a # NoKey => KeyLess(NoKey, a)
    /\ \A a \in Key : ~KeyLess(a, NoKey)
  <1>1. NoKey \in Key /\ Len(NoKey) = 0
    BY DEF NoKey, Key
  <1>2. ASSUME NEW a \in Key
        PROVE  (a # NoKey => KeyLess(NoKey, a)) /\ ~KeyLess(a, NoKey)
    <2>1. SharedPrefixLen(NoKey, a) = 0 /\ SharedPrefixLen(a, NoKey) = 0
      BY <1>1, KeyLessIs
    <2>2. a # NoKey => Len(a) > 0
      BY DEF NoKey, Key
    <2> QED
      BY <1>1, <2>1, <2>2 DEF KeyLess
  <1> QED
    BY <1>1, <1>2

LEMMA GreatestKey ==
    ASSUME NEW S \in SUBSET Key, IsFiniteSet(S), S # {}
    PROVE  \E x \in S : \A y \in S : y = x \/ KeyLess(y, x)
  <1> DEFINE Greatest(U, x) == x \in U /\ \A y \in U : y = x \/ KeyLess(y, x)
             Bad == {U \in SUBSET S : U # {} /\ \A x \in U : ~Greatest(U, x)}
             T == {Cardinality(U) : U \in Bad}
  <1>1. \A U \in SUBSET S : IsFiniteSet(U) /\ Cardinality(U) \in Nat
    BY FS_Subset, FS_CardinalityType
  <1>2. ASSUME NEW W \in Bad PROVE FALSE
    <2>1. T \in SUBSET Nat /\ T # {}
      BY <1>1, <1>2
    <2>2. PICK c \in T : \A d \in T : c =< d
      BY <2>1, SmallestOf
    <2>3. PICK U \in Bad : c = Cardinality(U)
      OBVIOUS
    <2>4. PICK u \in U : TRUE
      OBVIOUS
    <2> DEFINE V == U \ {u}
    <2>5. V \in SUBSET S /\ Cardinality(V) = Cardinality(U) - 1
      BY <1>1, <2>3, <2>4, FS_RemoveElement
    <2>6. V \notin Bad
      <3> SUFFICES ASSUME V \in Bad PROVE FALSE
        OBVIOUS
      <3>1. Cardinality(V) \in T
        OBVIOUS
      <3>2. Cardinality(U) =< Cardinality(V)
        BY <3>1, <2>2, <2>3
      <3>3. Cardinality(U) \in Nat /\ Cardinality(V) \in Nat
        BY <1>1, <2>5
      <3> HIDE DEF V
      <3> QED
        BY <3>2, <3>3, <2>5
    <2>7. CASE V = {}
      <3>1. Greatest(U, u)
        BY <2>7, <2>4
      <3> QED
        BY <3>1, <2>3
    <2>8. CASE V # {}
      <3>1. PICK v \in V : Greatest(V, v)
        BY <2>5, <2>6, <2>8
      <3>2. u \in Key /\ v \in Key /\ V \subseteq Key
        BY <2>5, <2>3
      <3>3. KeyLess(u, v) => Greatest(U, v)
        BY <3>1
      <3>4. KeyLess(v, u) => Greatest(U, u)
        BY <3>1, <3>2, KeyLessTransitive
      <3>5. KeyLess(u, v) \/ KeyLess(v, u)
        BY <3>2, KeyLessTotal
      <3> QED
        BY <3>3, <3>4, <3>5, <2>3, <3>1
    <2> QED
      BY <2>7, <2>8
  <1>3. S \notin Bad
    BY <1>2
  <1> QED
    BY <1>3

-----------------------------------------------------------------------------
(* The list: its type, and which node the one at a level is linked to.       *)

Places == Keys \cup {NoKey}

ListTyped(l) ==
    /\ l \in [next : UNION {[D \cup {NoKey} -> Seq(Places)] : D \in SUBSET Keys},
              entry : UNION {[D -> Version] : D \in SUBSET Keys},
              level : 1 .. MaxLevel, size : Nat, bytes : Int]
    /\ DOMAIN l.next = Nodes(l) \cup {NoKey}
    /\ Len(l.next[NoKey]) = MaxLevel
    /\ \A k \in Nodes(l) : Len(l.next[k]) \in 1 .. l.level

Reaching(l, i) == Level(l, i) \ {NoKey}

\* y is the first node after x at level i, NoKey if there is none.
Follows(l, i, x, y) ==
    IF y = NoKey THEN \A k \in Reaching(l, i) : ~KeyLess(x, k)
    ELSE /\ y \in Reaching(l, i) /\ KeyLess(x, y)
         /\ \A k \in Reaching(l, i) : KeyLess(x, k) => k = y \/ KeyLess(y, k)

Linked(l) ==
    \A i \in 1 .. MaxLevel : \A x \in Level(l, i) : Follows(l, i, x, l.next[x][i])

\* x is the last node below the target at level i, NoKey if there is none.
Stops(l, target, i, x) ==
    /\ x \in Level(l, i) /\ KeyLess(x, target)
    /\ \A k \in Reaching(l, i) : KeyLess(k, target) => k = x \/ KeyLess(k, x)

LEMMA KeysAreKeys == Keys \subseteq Key \ {NoKey} /\ Targets \subseteq Key \ {NoKey}
  BY DataPathAssumption DEF Key

LEMMA TypedIs ==
    ASSUME NEW l, ListTyped(l)
    PROVE  /\ l = [next |-> l.next, entry |-> l.entry, level |-> l.level,
                   size |-> l.size, bytes |-> l.bytes]
           /\ Nodes(l) \subseteq Keys /\ IsFiniteSet(Nodes(l)) /\ NoKey \notin Nodes(l)
           /\ l.next \in [Nodes(l) \cup {NoKey} -> Seq(Places)]
           /\ l.entry \in [Nodes(l) -> Version]
           /\ l.level \in 1 .. MaxLevel /\ l.size \in Nat /\ l.bytes \in Int
           /\ Len(l.next[NoKey]) = MaxLevel
           /\ \A k \in Nodes(l) : Len(l.next[k]) \in 1 .. l.level
           /\ MaxLevel \in Nat \ {0}
  <1>1. PICK D \in SUBSET Keys : l.entry \in [D -> Version]
    BY DEF ListTyped
  <1>2. PICK E \in SUBSET Keys : l.next \in [E \cup {NoKey} -> Seq(Places)]
    BY DEF ListTyped
  <1>3. Nodes(l) = D /\ NoKey \notin D /\ NoKey \notin E
    BY <1>1, KeysAreKeys DEF Nodes
  <1>4. IsFiniteSet(D)
    BY VersionsAssumption, FS_Subset
  <1>5. E \cup {NoKey} = D \cup {NoKey}
    BY <1>2, <1>3 DEF ListTyped
  <1> QED
    BY <1>1, <1>2, <1>3, <1>4, <1>5, SkipListAssumption DEF ListTyped

LEMMA LevelIs ==
    ASSUME NEW l, ListTyped(l), NEW i \in 1 .. MaxLevel
    PROVE  /\ NoKey \in Level(l, i)
           /\ Reaching(l, i) = {k \in Nodes(l) : i =< Len(l.next[k])}
           /\ Reaching(l, i) \subseteq Keys /\ Level(l, i) \subseteq Places
           /\ Level(l, i) = Reaching(l, i) \cup {NoKey}
           /\ IsFiniteSet(Level(l, i)) /\ Level(l, i) \subseteq Key
           /\ l.level < i => Reaching(l, i) = {}
           /\ i = 1 => Reaching(l, i) = Nodes(l)
           /\ \A x \in Level(l, i) : l.next[x][i] \in Places
           /\ \A x \in Level(l, i) : \A j \in 1 .. i : x \in Level(l, j)
  <1>1. /\ Nodes(l) \subseteq Keys /\ IsFiniteSet(Nodes(l)) /\ NoKey \notin Nodes(l)
        /\ l.next \in [Nodes(l) \cup {NoKey} -> Seq(Places)]
        /\ l.level \in 1 .. MaxLevel
        /\ Len(l.next[NoKey]) = MaxLevel
        /\ \A k \in Nodes(l) : Len(l.next[k]) \in 1 .. l.level
        /\ MaxLevel \in Nat \ {0}
    BY TypedIs
  <1>2. \A x \in Nodes(l) \cup {NoKey} :
           /\ DOMAIN l.next[x] = 1 .. Len(l.next[x]) /\ Len(l.next[x]) \in Nat
           /\ l.next[x] \in [1 .. Len(l.next[x]) -> Places]
    BY <1>1, LenProperties
  <1>3. Level(l, i) = {x \in Nodes(l) \cup {NoKey} : i =< Len(l.next[x])}
    BY <1>1, <1>2 DEF Level
  <1>4. IsFiniteSet(Nodes(l) \cup {NoKey})
    BY <1>1, FS_AddElement
  <1>5. IsFiniteSet(Level(l, i))
    BY <1>3, <1>4, FS_Subset
  <1>6. Level(l, i) \subseteq Key
    BY <1>1, <1>3, KeysAreKeys, NoKeyFirst
  <1>7. NoKey \in Level(l, i)
    BY <1>1, <1>3
  <1>8. Reaching(l, i) = {k \in Nodes(l) : i =< Len(l.next[k])}
    BY <1>1, <1>3 DEF Reaching
  <1>9. l.level < i => Reaching(l, i) = {}
    BY <1>1, <1>8
  <1>10. i = 1 => Reaching(l, i) = Nodes(l)
    BY <1>1, <1>8
  <1>11. \A x \in Level(l, i) : l.next[x][i] \in Places
    BY <1>2, <1>3
  <1>12. \A x \in Level(l, i) : \A j \in 1 .. i : x \in Level(l, j)
    BY <1>1, <1>2, <1>3 DEF Level
  <1> QED
    BY <1>1, <1>5, <1>6, <1>7, <1>8, <1>9, <1>10, <1>11, <1>12 DEF Reaching, Places

-----------------------------------------------------------------------------
(* Searching.                                                                *)

LEMMA StopsUnique ==
    ASSUME NEW l, ListTyped(l), NEW i \in 1 .. MaxLevel, NEW target, NEW x, NEW y,
           Stops(l, target, i, x), Stops(l, target, i, y)
    PROVE  x = y
  <1>1. x \in Key /\ y \in Key
    BY LevelIs DEF Stops
  <1>2. x = NoKey \/ x \in Reaching(l, i)
    BY DEF Stops, Reaching
  <1>3. y = NoKey \/ y \in Reaching(l, i)
    BY DEF Stops, Reaching
  <1>4. ASSUME x # y PROVE FALSE
    <2>1. x # NoKey => KeyLess(x, y)
      BY <1>2, <1>4 DEF Stops
    <2>2. y # NoKey => KeyLess(y, x)
      BY <1>3, <1>4 DEF Stops
    <2>3. x = NoKey \/ y = NoKey => FALSE
      BY <1>1, <1>4, <2>1, <2>2, NoKeyFirst
    <2> QED
      BY <1>1, <2>1, <2>2, <2>3, KeyLessTransitive, KeyLessIrreflexive
  <1> QED
    BY <1>4

LEMMA StopExists ==
    ASSUME NEW l, ListTyped(l), NEW i \in 1 .. MaxLevel, NEW target \in Key \ {NoKey}
    PROVE  \E x \in Level(l, i) : Stops(l, target, i, x)
  <1> DEFINE S == {x \in Level(l, i) : KeyLess(x, target)}
  <1>1. IsFiniteSet(S) /\ S \subseteq Key /\ NoKey \in S
    BY LevelIs, NoKeyFirst, FS_Subset
  <1>2. PICK x \in S : \A y \in S : y = x \/ KeyLess(y, x)
    BY <1>1, GreatestKey
  <1>3. \A k \in Reaching(l, i) : KeyLess(k, target) => k \in S
    BY DEF Reaching
  <1> QED
    BY <1>2, <1>3 DEF Stops

\* The walk along a level stops at the last node below the target.
LEMMA WalkStops ==
    ASSUME NEW l, ListTyped(l), Linked(l), NEW i \in 1 .. MaxLevel,
           NEW target \in Key \ {NoKey}, NEW x \in Level(l, i), KeyLess(x, target)
    PROVE  Stops(l, target, i, Walk(l, target, i, x))
  <1> DEFINE N == Level(l, i)
             GoesOn(y) == l.next[y][i] # NoKey /\ KeyLess(l.next[y][i], target)
             Solves(f) == f = [y \in N |-> IF GoesOn(y) THEN f[l.next[y][i]] ELSE y]
             from == CHOOSE f : Solves(f)
  <1>1. PICK stop \in N : Stops(l, target, i, stop)
    BY StopExists
  <1>2. /\ N \subseteq Key /\ IsFiniteSet(N) /\ NoKey \in N
        /\ \A y \in N : Follows(l, i, y, l.next[y][i]) /\ l.next[y][i] \in Places
    BY LevelIs DEF Linked
  <1>3. \A y \in N : GoesOn(y) => l.next[y][i] \in N /\ KeyLess(y, l.next[y][i])
    BY <1>2 DEF Follows, Reaching
  <1>4. ASSUME NEW y \in N, KeyLess(y, target), ~GoesOn(y)
        PROVE  y = stop
    <2>1. ASSUME NEW k \in Reaching(l, i), KeyLess(k, target) PROVE k = y \/ KeyLess(k, y)
      <3>1. k \in Key /\ y \in Key /\ l.next[y][i] \in Key /\ target \in Key
        BY <1>2, LevelIs, KeysAreKeys, NoKeyFirst DEF Places
      <3>2. ~KeyLess(y, k)
        <4> SUFFICES ASSUME KeyLess(y, k) PROVE FALSE
          OBVIOUS
        <4>1. l.next[y][i] # NoKey /\ (k = l.next[y][i] \/ KeyLess(l.next[y][i], k))
          BY <1>2 DEF Follows
        <4>2. KeyLess(l.next[y][i], target)
          BY <2>1, <3>1, <4>1, KeyLessTransitive
        <4> QED
          BY <1>4, <4>1, <4>2
      <3> QED
        BY <3>1, <3>2, KeyLessTotal
    <2>2. Stops(l, target, i, y)
      BY <1>4, <2>1 DEF Stops
    <2> QED
      BY <1>1, <2>2, StopsUnique
  <1>5. Solves([y \in N |-> IF KeyLess(y, target) THEN stop ELSE y])
    <2> DEFINE g == [y \in N |-> IF KeyLess(y, target) THEN stop ELSE y]
    <2>1. ASSUME NEW y \in N
          PROVE  g[y] = IF GoesOn(y) THEN g[l.next[y][i]] ELSE y
      <3>1. CASE GoesOn(y)
        <4>1. l.next[y][i] \in N /\ KeyLess(y, l.next[y][i]) /\ KeyLess(l.next[y][i], target)
          BY <1>3, <3>1
        <4>2. y \in Key /\ l.next[y][i] \in Key /\ target \in Key
          BY <1>2, <4>1
        <4>3. KeyLess(y, target)
          BY <4>1, <4>2, KeyLessTransitive
        <4> QED
          BY <3>1, <4>1, <4>3
      <3>2. CASE ~GoesOn(y)
        BY <3>2, <1>4
      <3> QED
        BY <3>1, <3>2
    <2>2. g = [y \in N |-> IF GoesOn(y) THEN g[l.next[y][i]] ELSE y]
      BY <2>1
    <2> QED
      BY <2>2
  <1>6. Solves(from)
    BY <1>5
  <1>7. \A y \in N : from[y] = IF GoesOn(y) THEN from[l.next[y][i]] ELSE y
    <2> HIDE DEF from
    <2> QED
      BY <1>6
  <1>8. Walk(l, target, i, x) = from[x]
    BY DEF Walk
  <1> HIDE DEF from
  <1> DEFINE Bad == {y \in N : KeyLess(y, target) /\ from[y] # stop}
  <1>9. ASSUME NEW z \in Bad PROVE FALSE
    <2>1. IsFiniteSet(Bad) /\ Bad \subseteq Key
      BY <1>2, FS_Subset
    <2>2. PICK y \in Bad : \A w \in Bad : w = y \/ KeyLess(w, y)
      BY <2>1, <1>9, GreatestKey
    <2>3. GoesOn(y) /\ from[y] = from[l.next[y][i]]
      BY <2>2, <1>4, <1>7
    <2>4. l.next[y][i] \in Bad /\ KeyLess(y, l.next[y][i])
      BY <2>2, <2>3, <1>3
    <2>5. y \in Key /\ l.next[y][i] \in Key
      BY <2>1, <2>2, <2>4
    <2> QED
      BY <2>2, <2>4, <2>5, KeyLessTransitive, KeyLessIrreflexive
  <1>10. x \notin Bad
    BY <1>9
  <1> QED
    BY <1>1, <1>8, <1>10

\* The search leaves, at every level of the list, the last node below the target.
LEMMA PathStops ==
    ASSUME NEW l, ListTyped(l), Linked(l), NEW target \in Key \ {NoKey}
    PROVE  \A i \in 1 .. l.level : Stops(l, target, i, Path(l, target)[i])
  <1> DEFINE M == 1 .. l.level
             Solves(f) == f = [i \in M |->
                                 Walk(l, target, i, IF i = l.level THEN NoKey ELSE f[i + 1])]
             down == CHOOSE f : Solves(f)
             stop == [i \in M |-> CHOOSE x : Stops(l, target, i, x)]
  <1>1. l.level \in Nat /\ M \subseteq 1 .. MaxLevel
    <2>1. l.level \in 1 .. MaxLevel /\ MaxLevel \in Nat
      BY TypedIs
    <2> QED
      BY <2>1
  <1>2. \A i \in M : Stops(l, target, i, stop[i])
    <2> TAKE i \in M
    <2>1. \E x : Stops(l, target, i, x)
      BY <1>1, StopExists
    <2> QED
      BY <2>1
  <1> HIDE DEF stop
  <1>3. ASSUME NEW i \in M, NEW x, x = NoKey \/ (i + 1 \in M /\ x = stop[i + 1])
        PROVE  Walk(l, target, i, x) = stop[i]
    <2>1. x \in Level(l, i) /\ KeyLess(x, target)
      <3>1. CASE x = NoKey
        BY <3>1, <1>1, LevelIs, NoKeyFirst
      <3>2. CASE i + 1 \in M /\ x = stop[i + 1]
        <4>1. Stops(l, target, i + 1, x)
          BY <3>2, <1>2
        <4>2. i \in 1 .. i + 1 /\ i + 1 \in 1 .. MaxLevel
          BY <3>2, <1>1
        <4> QED
          BY <4>1, <4>2, LevelIs DEF Stops
      <3> QED
        BY <3>1, <3>2, <1>3
    <2>2. Stops(l, target, i, Walk(l, target, i, x))
      BY <2>1, <1>1, WalkStops
    <2> QED
      BY <2>2, <1>1, <1>2, StopsUnique
  <1>4. Solves(stop)
    <2>1. \A i \in M : stop[i] = Walk(l, target, i, IF i = l.level THEN NoKey ELSE stop[i + 1])
      <3> TAKE i \in M
      <3>1. i # l.level => i + 1 \in M
        BY <1>1
      <3> QED
        BY <3>1, <1>3
    <2>2. stop = [i \in M |-> stop[i]]
      BY DEF stop
    <2> QED
      BY <2>1, <2>2
  <1>5. Solves(down)
    BY <1>4
  <1>6. Path(l, target) = down
    BY DEF Path
  <1> HIDE DEF down
  <1>7. \A i \in M : down[i] = Walk(l, target, i, IF i = l.level THEN NoKey ELSE down[i + 1])
    BY <1>5
  <1> DEFINE Bad == {i \in M : down[i] # stop[i]}
             T == {l.level - i : i \in Bad}
  <1>8. ASSUME NEW j \in Bad PROVE FALSE
    <2>1. T \in SUBSET Nat /\ T # {}
      BY <1>1, <1>8
    <2>2. PICK c \in T : \A d \in T : c =< d
      BY <2>1, SmallestOf
    <2>3. PICK i \in Bad : c = l.level - i
      OBVIOUS
    <2>4. i = l.level \/ (i + 1 \in M /\ i + 1 \notin Bad)
      <3>1. i \in M /\ (i # l.level => i + 1 \in M)
        BY <2>3, <1>1
      <3>2. ASSUME i + 1 \in Bad PROVE FALSE
        <4>1. l.level - (i + 1) \in T
          BY <3>2
        <4>2. l.level - i =< l.level - (i + 1)
          BY <4>1, <2>2, <2>3
        <4> QED
          BY <4>2, <3>1, <1>1
      <3> QED
        BY <3>1, <3>2
    <2>5. down[i] = stop[i]
      BY <2>3, <2>4, <1>3, <1>7
    <2> QED
      BY <2>3, <2>5
  <1>9. \A i \in M : down[i] = stop[i]
    BY <1>8
  <1> QED
    BY <1>2, <1>6, <1>9

\* The first node not below the target.
LEMMA SeekNodeIs ==
    ASSUME NEW l, ListTyped(l), Linked(l), NEW target \in Key \ {NoKey}
    PROVE  LET y == SeekNode(l, target)
           IN  /\ y \in Nodes(l) \cup {NoKey}
               /\ y # NoKey => ~KeyLess(y, target)
               /\ \A k \in Nodes(l) : ~KeyLess(k, target) => y # NoKey /\ (k = y \/ KeyLess(y, k))
               /\ target \in Nodes(l) <=> y = target
  <1> DEFINE x == Path(l, target)[1]
             y == SeekNode(l, target)
  <1>1. 1 \in 1 .. l.level /\ 1 \in 1 .. MaxLevel
    <2>1. l.level \in 1 .. MaxLevel /\ MaxLevel \in Nat
      BY TypedIs
    <2> QED
      BY <2>1
  <1>2. Stops(l, target, 1, x)
    BY <1>1, PathStops
  <1>3. y = l.next[x][1]
    BY DEF SeekNode
  <1>4. Reaching(l, 1) = Nodes(l) /\ x \in Key /\ Nodes(l) \subseteq Key \ {NoKey}
    BY <1>1, <1>2, LevelIs, TypedIs, KeysAreKeys DEF Stops
  <1> HIDE DEF x, y
  <1>5. Follows(l, 1, x, y)
    BY <1>1, <1>2, <1>3 DEF Linked, Stops
  <1>6. y \in Nodes(l) \cup {NoKey} /\ y \in Key
    BY <1>4, <1>5, NoKeyFirst DEF Follows
  <1>7. y # NoKey => ~KeyLess(y, target)
    <2> SUFFICES ASSUME y # NoKey, KeyLess(y, target) PROVE FALSE
      OBVIOUS
    <2>1. KeyLess(x, y) /\ (y = x \/ KeyLess(y, x))
      BY <1>2, <1>4, <1>5, <1>6 DEF Follows, Stops
    <2> QED
      BY <2>1, <1>4, <1>6, KeyLessTransitive, KeyLessIrreflexive
  <1>8. ASSUME NEW k \in Nodes(l), ~KeyLess(k, target)
        PROVE  y # NoKey /\ (k = y \/ KeyLess(y, k))
    <2>1. KeyLess(x, k)
      <3>1. KeyLess(x, target) /\ (k = target \/ KeyLess(target, k))
        BY <1>2, <1>4, <1>8, KeyLessTotal DEF Stops
      <3> QED
        BY <3>1, <1>4, KeyLessTransitive
    <2> QED
      BY <2>1, <1>4, <1>5 DEF Follows
  <1>9. target \in Nodes(l) => y = target
    BY <1>6, <1>7, <1>8, KeyLessIrreflexive
  <1>10. y = target => target \in Nodes(l)
    BY <1>6
  <1> QED
    BY <1>6, <1>7, <1>8, <1>9, <1>10 DEF y

-----------------------------------------------------------------------------
(* What set does to the links.                                               *)

LEMMA NewListLinked == ListTyped(NewList) /\ Linked(NewList) /\ Nodes(NewList) = {}
  <1> DEFINE n == [i \in 1 .. MaxLevel |-> NoKey]
  <1>1. MaxLevel \in Nat \ {0}
    BY SkipListAssumption
  <1>2. n \in Seq(Places) /\ Len(n) = MaxLevel
    BY <1>1 DEF Places
  <1>3. Nodes(NewList) = {}
    BY DEF NewList, Nodes
  <1>4. NewList.next = [x \in {NoKey} |-> n]
    BY DEF NewList
  <1>5. NewList.next \in [{} \cup {NoKey} -> Seq(Places)]
    BY <1>2, <1>4
  <1>6. NewList.entry \in [{} -> Version]
    BY DEF NewList
  <1>7. ListTyped(NewList)
    <2>1. {} \in SUBSET Keys
      OBVIOUS
    <2>2. NewList.level = 1 /\ NewList.size = 0 /\ NewList.bytes = 0
      BY DEF NewList
    <2>3. NewList = [next |-> NewList.next, entry |-> NewList.entry, level |-> NewList.level,
                     size |-> NewList.size, bytes |-> NewList.bytes]
      BY DEF NewList
    <2>4. NewList \in [next : UNION {[D \cup {NoKey} -> Seq(Places)] : D \in SUBSET Keys},
                       entry : UNION {[D -> Version] : D \in SUBSET Keys},
                       level : 1 .. MaxLevel, size : Nat, bytes : Int]
      <3>1. NewList.next \in UNION {[D \cup {NoKey} -> Seq(Places)] : D \in SUBSET Keys}
        BY <1>5, <2>1
      <3>2. NewList.entry \in UNION {[D -> Version] : D \in SUBSET Keys}
        BY <1>6, <2>1
      <3>3. 1 \in 1 .. MaxLevel /\ 0 \in Nat /\ 0 \in Int
        BY <1>1
      <3> QED
        BY <3>1, <3>2, <3>3, <2>2, <2>3
    <2> QED
      BY <2>4, <1>2, <1>3, <1>4 DEF ListTyped
  <1>8. ASSUME NEW i \in 1 .. MaxLevel, NEW x \in Level(NewList, i)
        PROVE  Follows(NewList, i, x, NewList.next[x][i])
    <2>1. x = NoKey /\ Reaching(NewList, i) = {}
      BY <1>4 DEF Level, Reaching
    <2> QED
      BY <2>1, <1>4 DEF Follows
  <1> QED
    BY <1>3, <1>7, <1>8 DEF Linked

LEMMA EntryBytesType ==
    ASSUME NEW key \in Keys, NEW version
    PROVE  EntryBytes(key, version) \in Nat
  <1>1. Len(key) \in Nat
    BY KeysAreKeys DEF Key
  <1> QED
    BY <1>1 DEF EntryBytes

LEMMA ReplaceLinked ==
    ASSUME NEW l, ListTyped(l), Linked(l), NEW key \in Nodes(l), NEW version \in Version
    PROVE  LET m == Replace(l, key, version)
           IN  /\ ListTyped(m) /\ Linked(m) /\ Nodes(m) = Nodes(l) /\ m.size = l.size
               /\ m.entry = [l.entry EXCEPT ![key] = IF version.seq < @.seq THEN @ ELSE version]
               /\ m.bytes = l.bytes - EntryBytes(key, l.entry[key]) + EntryBytes(key, m.entry[key])
  <1> DEFINE m == Replace(l, key, version)
  <1>1. /\ l = [next |-> l.next, entry |-> l.entry, level |-> l.level,
                size |-> l.size, bytes |-> l.bytes]
        /\ Nodes(l) \subseteq Keys
        /\ l.entry \in [Nodes(l) -> Version] /\ l.bytes \in Int
    BY TypedIs
  <1>2. EntryBytes(key, l.entry[key]) \in Nat /\ EntryBytes(key, version) \in Nat
    BY <1>1, EntryBytesType
  <1>3. CASE version.seq < l.entry[key].seq
    <2>1. m = l
      BY <1>3 DEF Replace
    <2>2. [l.entry EXCEPT ![key] = IF version.seq < @.seq THEN @ ELSE version] = l.entry
      BY <1>1, <1>3
    <2> HIDE DEF m
    <2>3. l.bytes = l.bytes - EntryBytes(key, l.entry[key]) + EntryBytes(key, l.entry[key])
      BY <1>1, <1>2
    <2>4. /\ ListTyped(m) /\ Linked(m) /\ Nodes(m) = Nodes(l) /\ m.size = l.size
          /\ m.entry = [l.entry EXCEPT ![key] = IF version.seq < @.seq THEN @ ELSE version]
          /\ m.bytes = l.bytes - EntryBytes(key, l.entry[key]) + EntryBytes(key, m.entry[key])
      BY <2>1, <2>2, <2>3
    <2> QED
      BY <2>4 DEF m
  <1>4. CASE ~(version.seq < l.entry[key].seq)
    <2>1. m = [next |-> l.next, entry |-> [l.entry EXCEPT ![key] = version], level |-> l.level,
               size |-> l.size,
               bytes |-> l.bytes + EntryBytes(key, version) - EntryBytes(key, l.entry[key])]
      BY <1>1, <1>4 DEF Replace
    <2>2. /\ m.next = l.next /\ m.level = l.level /\ m.size = l.size
          /\ m.entry = [l.entry EXCEPT ![key] = version]
          /\ m.bytes = l.bytes + EntryBytes(key, version) - EntryBytes(key, l.entry[key])
      BY <2>1
    <2> HIDE DEF m
    <2>3. m.entry \in [Nodes(l) -> Version] /\ m.entry[key] = version /\ Nodes(m) = Nodes(l)
      BY <1>1, <2>2 DEF Nodes
    <2>4. m.bytes = l.bytes - EntryBytes(key, l.entry[key]) + EntryBytes(key, m.entry[key])
      BY <1>1, <1>2, <2>2, <2>3
    <2>5. m.bytes \in Int
      BY <1>1, <1>2, <2>2
    <2>6. ListTyped(m)
      <3>1. m.entry \in UNION {[D -> Version] : D \in SUBSET Keys}
        BY <1>1, <2>3
      <3> QED
        BY <2>1, <2>2, <2>3, <2>5, <3>1 DEF ListTyped
    <2>7. \A i : Level(m, i) = Level(l, i) /\ Reaching(m, i) = Reaching(l, i)
      BY <2>2 DEF Level, Reaching
    <2>8. Linked(m)
      BY <2>2, <2>7 DEF Linked, Follows
    <2>9. m.entry = [l.entry EXCEPT ![key] = IF version.seq < @.seq THEN @ ELSE version]
      BY <1>1, <1>4, <2>2
    <2>10. /\ ListTyped(m) /\ Linked(m) /\ Nodes(m) = Nodes(l) /\ m.size = l.size
           /\ m.entry = [l.entry EXCEPT ![key] = IF version.seq < @.seq THEN @ ELSE version]
           /\ m.bytes = l.bytes - EntryBytes(key, l.entry[key]) + EntryBytes(key, m.entry[key])
      BY <2>2, <2>3, <2>4, <2>6, <2>8, <2>9
    <2> QED
      BY <2>10 DEF m
  <1> QED
    BY <1>3, <1>4

\* A new key is linked in at each level of its tower.
LEMMA InsertLinked ==
    ASSUME NEW l, ListTyped(l), Linked(l), NEW key \in Keys, key \notin Nodes(l),
           NEW version \in Version, NEW height \in 1 .. MaxLevel
    PROVE  LET m == Insert(l, key, version, height)
           IN  /\ ListTyped(m) /\ Linked(m)
               /\ Nodes(m) = Nodes(l) \cup {key}
               /\ m.entry = [k \in Nodes(l) \cup {key} |-> IF k = key THEN version ELSE l.entry[k]]
               /\ m.size = l.size + 1 /\ m.bytes = l.bytes + EntryBytes(key, version)
  <1> DEFINE pred == [i \in 1 .. MaxLevel |-> IF i =< l.level THEN Path(l, key)[i] ELSE NoKey]
             D == Nodes(l) \cup {NoKey}
             tower == [i \in 1 .. height |-> l.next[pred[i]][i]]
             row(x) == [i \in DOMAIN l.next[x] |->
                          IF i =< height /\ pred[i] = x THEN key ELSE l.next[x][i]]
             m == [next  |-> [x \in D \cup {key} |-> IF x = key THEN tower ELSE row(x)],
                   entry |-> [k \in Nodes(l) \cup {key} |-> IF k = key THEN version ELSE l.entry[k]],
                   level |-> Larger(l.level, height),
                   size  |-> l.size + 1,
                   bytes |-> l.bytes + EntryBytes(key, version)]
  <1>1. /\ Nodes(l) \subseteq Keys /\ NoKey \notin Nodes(l)
        /\ l.next \in [D -> Seq(Places)] /\ l.entry \in [Nodes(l) -> Version]
        /\ l.level \in 1 .. MaxLevel /\ l.size \in Nat /\ l.bytes \in Int
        /\ Len(l.next[NoKey]) = MaxLevel
        /\ \A k \in Nodes(l) : Len(l.next[k]) \in 1 .. l.level
        /\ MaxLevel \in Nat \ {0}
    BY TypedIs
  <1>2. key \in Key \ {NoKey} /\ key \notin D
    BY KeysAreKeys
  <1>3. \A x \in D : /\ l.next[x] \in [1 .. Len(l.next[x]) -> Places]
                     /\ DOMAIN l.next[x] = 1 .. Len(l.next[x]) /\ Len(l.next[x]) \in 1 .. MaxLevel
    <2> TAKE x \in D
    <2>1. l.next[x] \in Seq(Places)
      BY <1>1
    <2>2. Len(l.next[x]) \in 1 .. MaxLevel
      BY <1>1
    <2> QED
      BY <2>1, <2>2, LenProperties
  <1>4. \A i \in 1 .. MaxLevel : Stops(l, key, i, pred[i])
    <2> TAKE i \in 1 .. MaxLevel
    <2>1. CASE i =< l.level
      BY <2>1, <1>1, <1>2, PathStops
    <2>2. CASE ~(i =< l.level)
      <3>1. pred[i] = NoKey /\ Reaching(l, i) = {} /\ NoKey \in Level(l, i)
        BY <2>2, <1>1, LevelIs
      <3> QED
        BY <3>1, <1>2, NoKeyFirst DEF Stops
    <2> QED
      BY <2>1, <2>2
  <1>5. m = Insert(l, key, version, height)
    <2>1. \A i \in 1 .. MaxLevel : pred[i] = IF i =< l.level THEN Path(l, key)[i] ELSE NoKey
      OBVIOUS
    <2> HIDE DEF pred
    <2>2. DOMAIN l.next = D
      BY <1>1
    <2>3. tower = [i \in 1 .. height |->
                     l.next[IF i =< l.level THEN Path(l, key)[i] ELSE NoKey][i]]
      BY <2>1, <1>1
    <2>4. \A x \in D : row(x) = [i \in DOMAIN l.next[x] |->
                IF i =< height /\ (IF i =< l.level THEN Path(l, key)[i] ELSE NoKey) = x
                  THEN key ELSE l.next[x][i]]
      BY <2>1, <1>1, <1>3
    <2>5. m.next = [x \in D \cup {key} |->
                      IF x = key
                        THEN [i \in 1 .. height |->
                                l.next[IF i =< l.level THEN Path(l, key)[i] ELSE NoKey][i]]
                        ELSE [i \in DOMAIN l.next[x] |->
                                IF i =< height /\ (IF i =< l.level THEN Path(l, key)[i] ELSE NoKey) = x
                                  THEN key ELSE l.next[x][i]]]
      <3> HIDE DEF D, row, tower
      <3> QED
        BY <2>3, <2>4
    <2> HIDE DEF tower, row, D
    <2> QED
      BY <2>2, <2>5 DEF Insert
  <1> HIDE DEF pred
  <1>6. \A i \in 1 .. MaxLevel : pred[i] \in D /\ l.next[pred[i]][i] \in Places
    <2> TAKE i \in 1 .. MaxLevel
    <2>1. pred[i] \in Level(l, i)
      BY <1>4 DEF Stops
    <2> QED
      BY <2>1, <1>1, LevelIs DEF Level
  <1>7. tower \in Seq(Places) /\ Len(tower) = height
    <2>1. height \in Nat /\ \A i \in 1 .. height : i \in 1 .. MaxLevel
      BY <1>1
    <2>2. tower \in [1 .. height -> Places]
      BY <1>6, <2>1
    <2> HIDE DEF tower
    <2> QED
      BY <2>1, <2>2
  <1>8. \A x \in D : row(x) \in Seq(Places) /\ Len(row(x)) = Len(l.next[x])
    <2> TAKE x \in D
    <2>1. row(x) \in [1 .. Len(l.next[x]) -> Places] /\ Len(l.next[x]) \in Nat
      BY <1>1, <1>3 DEF Places
    <2> HIDE DEF row
    <2> QED
      BY <2>1
  <1>9. Larger(l.level, height) \in 1 .. MaxLevel /\ l.level =< Larger(l.level, height)
        /\ height =< Larger(l.level, height)
    BY <1>1 DEF Larger
  <1>10. Nodes(m) = Nodes(l) \cup {key} /\ DOMAIN m.next = Nodes(m) \cup {NoKey}
    <2>1. m.entry = [k \in Nodes(l) \cup {key} |-> IF k = key THEN version ELSE l.entry[k]]
      OBVIOUS
    <2>2. DOMAIN m.next = D \cup {key}
      OBVIOUS
    <2> HIDE DEF m
    <2>3. DOMAIN m.entry = Nodes(l) \cup {key}
      BY <2>1
    <2> QED
      BY <2>2, <2>3 DEF Nodes
  <1>11. m.next[key] = tower /\ \A x \in D : m.next[x] = row(x)
    BY <1>2
  <1>12. ListTyped(m)
    <2>1. m.next \in [(Nodes(l) \cup {key}) \cup {NoKey} -> Seq(Places)]
      BY <1>2, <1>7, <1>8
    <2>2. m.entry \in [Nodes(l) \cup {key} -> Version]
      BY <1>1
    <2>3. m.bytes \in Int /\ m.size \in Nat /\ m.level \in 1 .. MaxLevel
      BY <1>1, <1>9, EntryBytesType
    <2>4. Nodes(l) \cup {key} \in SUBSET Keys
      BY <1>1
    <2>5. m \in [next : UNION {[E \cup {NoKey} -> Seq(Places)] : E \in SUBSET Keys},
                 entry : UNION {[E -> Version] : E \in SUBSET Keys},
                 level : 1 .. MaxLevel, size : Nat, bytes : Int]
      <3>1. m.next \in UNION {[E \cup {NoKey} -> Seq(Places)] : E \in SUBSET Keys}
        BY <2>1, <2>4
      <3>2. m.entry \in UNION {[E -> Version] : E \in SUBSET Keys}
        BY <2>2, <2>4
      <3>3. m = [next |-> m.next, entry |-> m.entry, level |-> m.level,
                 size |-> m.size, bytes |-> m.bytes]
        OBVIOUS
      <3> HIDE DEF m
      <3> QED
        BY <3>1, <3>2, <3>3, <2>3
    <2>6. Len(m.next[NoKey]) = MaxLevel
      <3>1. NoKey \in D
        OBVIOUS
      <3> HIDE DEF m, row, tower
      <3> QED
        BY <3>1, <1>1, <1>8, <1>11
    <2>7. \A k \in Nodes(m) : Len(m.next[k]) \in 1 .. m.level
      <3> TAKE k \in Nodes(m)
      <3>1. m.level = Larger(l.level, height)
        OBVIOUS
      <3> HIDE DEF m, row, tower
      <3>2. CASE k = key
        BY <3>1, <3>2, <1>7, <1>9, <1>11, <1>1
      <3>3. CASE k \in Nodes(l)
        <4>1. Len(m.next[k]) = Len(l.next[k]) /\ Len(l.next[k]) \in 1 .. l.level
          BY <3>3, <1>1, <1>8, <1>11
        <4> QED
          BY <3>1, <4>1, <1>9, <1>1
      <3> QED
        BY <3>2, <3>3, <1>10
    <2> HIDE DEF m
    <2> QED
      BY <2>5, <2>6, <2>7, <1>10 DEF ListTyped
  <1>13. \A i \in 1 .. MaxLevel :
            Reaching(m, i) = IF i =< height THEN Reaching(l, i) \cup {key} ELSE Reaching(l, i)
    <2> TAKE i \in 1 .. MaxLevel
    <2> HIDE DEF m, row, tower
    <2>1. Reaching(m, i) = {k \in Nodes(m) : i =< Len(m.next[k])}
      BY <1>12, LevelIs
    <2>2. Reaching(l, i) = {k \in Nodes(l) : i =< Len(l.next[k])}
      BY LevelIs
    <2>3. \A k \in Nodes(l) : Len(m.next[k]) = Len(l.next[k])
      BY <1>8, <1>11
    <2>4. Len(m.next[key]) = height
      BY <1>7, <1>11
    <2> QED
      BY <2>1, <2>2, <2>3, <2>4, <1>2, <1>10
  <1>14. ASSUME NEW i \in 1 .. MaxLevel, NEW x \in Level(m, i)
         PROVE  Follows(m, i, x, m.next[x][i])
    <2> DEFINE p == pred[i]
               y == l.next[p][i]
    <2>1. Stops(l, key, i, p) /\ Follows(l, i, p, y)
      BY <1>4 DEF Linked, Stops
    <2>2. /\ Reaching(l, i) \subseteq Key /\ NoKey \notin Reaching(l, i) /\ p \in Key
          /\ KeyLess(p, key) /\ p \in Level(l, i)
          /\ Level(l, i) = Reaching(l, i) \cup {NoKey}
      BY <2>1, LevelIs DEF Stops, Reaching
    <2>3. Level(m, i) = Reaching(m, i) \cup {NoKey}
      <3> HIDE DEF m
      <3> QED
        BY <1>12, LevelIs
    <2>4. x = key \/ x \in Level(l, i)
      BY <2>2, <2>3, <1>13
    <2>5. i \in Nat /\ height \in Nat
      BY <1>1
    <2>6. CASE x = key
      <3>1. i =< height
        <4>1. Reaching(l, i) \subseteq Nodes(l)
          BY LevelIs
        <4>2. key \in Reaching(m, i)
          <5> HIDE DEF m
          <5> QED
            BY <2>3, <2>6, <1>2
        <4> HIDE DEF m
        <4> QED
          BY <4>1, <4>2, <1>13
      <3>2. m.next[x][i] = y
        <4>1. i \in 1 .. height
          BY <3>1, <2>5
        <4> QED
          BY <2>6, <4>1, <1>11
      <3>3. Reaching(m, i) = Reaching(l, i) \cup {key}
        BY <3>1, <1>13
      <3> HIDE DEF m, y, p
      <3>4. \A k \in Reaching(m, i) : KeyLess(key, k) => k \in Reaching(l, i) /\ KeyLess(p, k)
        BY <3>3, <1>2, <2>2, KeyLessIrreflexive, KeyLessTransitive
      <3>5. y # NoKey => y \in Reaching(l, i) /\ KeyLess(key, y)
        <4> SUFFICES ASSUME y # NoKey PROVE y \in Reaching(l, i) /\ KeyLess(key, y)
          OBVIOUS
        <4>1. y \in Reaching(l, i) /\ KeyLess(p, y)
          BY <2>1 DEF Follows
        <4>2. ~KeyLess(y, key)
          <5> SUFFICES ASSUME KeyLess(y, key) PROVE FALSE
            OBVIOUS
          <5>1. y = p \/ KeyLess(y, p)
            BY <2>1, <4>1 DEF Stops
          <5> QED
            BY <5>1, <4>1, <2>2, KeyLessTransitive, KeyLessIrreflexive
        <4>3. y # key
          BY <4>1, <1>1, <1>2, LevelIs
        <4> QED
          BY <4>1, <4>2, <4>3, <2>2, <1>2, KeyLessTotal
      <3>6. Follows(m, i, key, y)
        BY <3>3, <3>4, <3>5, <2>1 DEF Follows
      <3> QED
        BY <2>6, <3>2, <3>6
    <2>7. CASE x # key /\ i =< height /\ x = p
      <3>1. m.next[x][i] = key
        <4>1. x \in D /\ i \in DOMAIN l.next[x]
          BY <2>4, <2>7, <1>1 DEF Level
        <4> QED
          BY <4>1, <2>7, <1>11
      <3>2. Reaching(m, i) = Reaching(l, i) \cup {key}
        BY <2>7, <1>13
      <3> HIDE DEF m, y, p
      <3>3. \A k \in Reaching(l, i) : KeyLess(p, k) => KeyLess(key, k)
        <4> TAKE k \in Reaching(l, i)
        <4> SUFFICES ASSUME KeyLess(p, k) PROVE KeyLess(key, k)
          OBVIOUS
        <4>1. ~KeyLess(k, key)
          <5> SUFFICES ASSUME KeyLess(k, key) PROVE FALSE
            OBVIOUS
          <5>1. k = p \/ KeyLess(k, p)
            BY <2>1 DEF Stops
          <5> QED
            BY <5>1, <2>2, KeyLessTransitive, KeyLessIrreflexive
        <4>2. k # key
          BY <1>1, <1>2, LevelIs
        <4> QED
          BY <4>1, <4>2, <2>2, <1>2, KeyLessTotal
      <3>4. Follows(m, i, p, key)
        BY <3>2, <3>3, <1>2, <2>2 DEF Follows
      <3> QED
        BY <2>7, <3>1, <3>4
    <2>8. CASE x # key /\ ~(i =< height /\ x = p)
      <3> DEFINE z == l.next[x][i]
      <3>1. x \in Level(l, i) /\ x \in D /\ i \in DOMAIN l.next[x]
        BY <2>4, <2>8, <1>1 DEF Level
      <3>2. m.next[x][i] = z
        BY <3>1, <2>8, <1>11
      <3>3. Follows(l, i, x, z) /\ x \in Key /\ z \in Key
        BY <3>1, <2>2, NoKeyFirst, LevelIs, KeysAreKeys DEF Linked, Places
      <3> HIDE DEF m, y, p, z
      <3>4. CASE ~(i =< height)
        <4>1. Reaching(m, i) = Reaching(l, i)
          BY <3>4, <1>13
        <4> QED
          BY <4>1, <3>2, <3>3 DEF Follows
      <3>5. CASE i =< height /\ x # p
        <4>1. Reaching(m, i) = Reaching(l, i) \cup {key}
          BY <3>5, <1>13
        <4>2. ASSUME KeyLess(x, key) PROVE z # NoKey /\ KeyLess(z, key)
          <5>1. KeyLess(x, p)
            <6>1. CASE x = NoKey
              BY <6>1, <2>2, <3>5, NoKeyFirst
            <6>2. CASE x # NoKey
              BY <6>2, <2>1, <2>2, <3>1, <3>5, <4>2 DEF Stops
            <6> QED
              BY <6>1, <6>2
          <5>2. p \in Reaching(l, i)
            BY <5>1, <2>2, <3>3, NoKeyFirst
          <5>3. z # NoKey /\ (p = z \/ KeyLess(z, p))
            BY <5>1, <5>2, <3>3 DEF Follows
          <5> QED
            BY <5>3, <2>2, <3>3, <1>2, KeyLessTransitive
        <4>3. Follows(m, i, x, z)
          BY <4>1, <4>2, <3>3 DEF Follows
        <4> QED
          BY <4>3, <3>2
      <3> QED
        BY <3>4, <3>5, <2>8 DEF p
    <2> QED
      BY <2>6, <2>7, <2>8
  <1>15. Linked(m)
    BY <1>14 DEF Linked
  <1>16. /\ m.entry = [k \in Nodes(l) \cup {key} |-> IF k = key THEN version ELSE l.entry[k]]
         /\ m.size = l.size + 1 /\ m.bytes = l.bytes + EntryBytes(key, version)
    OBVIOUS
  <1> HIDE DEF m
  <1> QED
    BY <1>5, <1>10, <1>12, <1>15, <1>16

-----------------------------------------------------------------------------
(* Sums over finite sets: the recursive function that MapThenSumSet takes    *)
(* elements away with.                                                       *)

Picked(s) == CHOOSE x \in s : TRUE

Sums(f, S, w) ==
    f = [s \in SUBSET S |-> IF s = {} THEN 0 ELSE w[Picked(s)] + f[s \ {Picked(s)}]]

LEMMA SumsExist ==
    ASSUME NEW S, IsFiniteSet(S), NEW w
    PROVE  \E f : Sums(f, S, w)
  <1> DEFINE G(n) == {s \in SUBSET S : Cardinality(s) =< n}
             Upto(f, n) == f = [s \in G(n) |->
                                  IF s = {} THEN 0 ELSE w[Picked(s)] + f[s \ {Picked(s)}]]
             Bad == {n \in Nat : \A f : ~Upto(f, n)}
  <1>1. \A s \in SUBSET S : IsFiniteSet(s) /\ Cardinality(s) \in Nat
                            /\ Cardinality(s) =< Cardinality(S)
    BY FS_Subset, FS_CardinalityType
  <1>2. \A s \in SUBSET S : s # {} => /\ s \ {Picked(s)} \in SUBSET S
                                      /\ Cardinality(s \ {Picked(s)}) = Cardinality(s) - 1
    <2> TAKE s \in SUBSET S
    <2>1. s # {} => Picked(s) \in s
      BY DEF Picked
    <2> QED
      BY <2>1, <1>1, FS_RemoveElement
  <1>3. G(0) = {{}}
    BY <1>1, FS_EmptySet
  <1>4. 0 \notin Bad
    <2>1. Upto([s \in {{}} |-> 0], 0)
      BY <1>3
    <2> QED
      BY <2>1
  <1>5. ASSUME NEW n \in Nat, n \notin Bad PROVE n + 1 \notin Bad
    <2>1. PICK f : Upto(f, n)
      BY <1>5
    <2> DEFINE h == [s \in G(n + 1) |->
                       IF s \in G(n) THEN f[s] ELSE w[Picked(s)] + f[s \ {Picked(s)}]]
    <2>2. \A s \in G(n + 1) : s # {} => s \ {Picked(s)} \in G(n)
      <3> TAKE s \in G(n + 1)
      <3>1. s \in SUBSET S /\ Cardinality(s) \in Nat /\ Cardinality(s) =< n + 1
        BY <1>1
      <3>2. s # {} => s \ {Picked(s)} \in SUBSET S /\ Cardinality(s \ {Picked(s)}) =< n
        BY <3>1, <1>2
      <3> QED
        BY <3>2
    <2>3. G(n) \subseteq G(n + 1) /\ {} \in G(n)
      BY <1>1, FS_EmptySet
    <2>4. \A s \in G(n) : f[s] = IF s = {} THEN 0 ELSE w[Picked(s)] + f[s \ {Picked(s)}]
      <3> HIDE DEF G
      <3> QED
        BY <2>1
    <2> HIDE DEF G
    <2>5. \A s \in G(n) : h[s] = f[s]
      BY <2>3
    <2>6. \A s \in G(n + 1) : h[s] = IF s = {} THEN 0 ELSE w[Picked(s)] + h[s \ {Picked(s)}]
      <3> TAKE s \in G(n + 1)
      <3>1. s # {} => h[s \ {Picked(s)}] = f[s \ {Picked(s)}]
        BY <2>2, <2>5
      <3>2. CASE s \in G(n)
        BY <3>1, <3>2, <2>4, <2>5
      <3>3. CASE s \notin G(n)
        BY <3>1, <3>3, <2>3
      <3> QED
        BY <3>2, <3>3
    <2>7. h = [s \in G(n + 1) |-> h[s]]
      OBVIOUS
    <2> HIDE DEF h
    <2>8. Upto(h, n + 1)
      BY <2>6, <2>7
    <2> QED
      BY <2>8
  <1>6. ASSUME NEW m \in Bad PROVE FALSE
    <2>1. PICK n \in Bad : \A k \in Bad : n =< k
      BY <1>6, SmallestOf
    <2>2. n # 0 /\ n \in Nat
      BY <2>1, <1>4
    <2> HIDE DEF Bad
    <2>3. n - 1 \in Nat /\ (n - 1) + 1 = n /\ ~(n =< n - 1)
      BY <2>2
    <2>4. n - 1 \notin Bad
      BY <2>1, <2>3
    <2> QED
      BY <2>1, <2>3, <2>4, <1>5
  <1>7. PICK f : Upto(f, Cardinality(S))
    <2>1. Cardinality(S) \in Nat /\ Cardinality(S) \notin Bad
      BY <1>1, <1>6
    <2> HIDE DEF Upto
    <2> QED
      BY <2>1
  <1>8. G(Cardinality(S)) = SUBSET S
    BY <1>1
  <1>9. Sums(f, S, w)
    <2> HIDE DEF G
    <2> QED
      BY <1>7, <1>8 DEF Sums
  <1> QED
    BY <1>9

LEMMA SumsType ==
    ASSUME NEW S, IsFiniteSet(S), NEW w, \A k \in S : w[k] \in Int, NEW f, Sums(f, S, w)
    PROVE  f \in [SUBSET S -> Int]
  <1> DEFINE Bad == {s \in SUBSET S : f[s] \notin Int}
             T == {Cardinality(s) : s \in Bad}
  <1>1. \A s \in SUBSET S : f[s] = IF s = {} THEN 0 ELSE w[Picked(s)] + f[s \ {Picked(s)}]
    BY DEF Sums
  <1>2. \A s \in SUBSET S : IsFiniteSet(s) /\ Cardinality(s) \in Nat
    BY FS_Subset, FS_CardinalityType
  <1>3. ASSUME NEW b \in Bad PROVE FALSE
    <2>1. T \in SUBSET Nat /\ T # {}
      BY <1>2, <1>3
    <2>2. PICK c \in T : \A d \in T : c =< d
      BY <2>1, SmallestOf
    <2>3. PICK s \in Bad : c = Cardinality(s)
      OBVIOUS
    <2>4. s # {} /\ f[s] = w[Picked(s)] + f[s \ {Picked(s)}]
      BY <2>3, <1>1
    <2>5. Picked(s) \in s
      BY <2>4 DEF Picked
    <2> DEFINE t == s \ {Picked(s)}
    <2>6. t \in SUBSET S /\ Cardinality(t) = Cardinality(s) - 1
      BY <2>3, <2>5, <1>2, FS_RemoveElement
    <2>7. t \notin Bad
      <3> SUFFICES ASSUME t \in Bad PROVE FALSE
        OBVIOUS
      <3>1. Cardinality(s) =< Cardinality(t)
        BY <2>2, <2>3
      <3>2. Cardinality(s) \in Nat
        BY <2>3, <1>2
      <3> HIDE DEF t
      <3> QED
        BY <3>1, <3>2, <2>6
    <2>8. f[t] \in Int /\ w[Picked(s)] \in Int
      BY <2>3, <2>5, <2>6, <2>7
    <2> QED
      BY <2>3, <2>4, <2>8
  <1> QED
    BY <1>3 DEF Sums

\* Whichever element is taken away first, the rest is the same.
LEMMA SumsStep ==
    ASSUME NEW S, IsFiniteSet(S), NEW w, \A k \in S : w[k] \in Int, NEW f, Sums(f, S, w),
           NEW s \in SUBSET S, NEW x \in s
    PROVE  f[s] = w[x] + f[s \ {x}]
  <1> DEFINE Holds2(u) == \A y \in u : f[u] = w[y] + f[u \ {y}]
             Bad == {u \in SUBSET S : ~Holds2(u)}
             T == {Cardinality(u) : u \in Bad}
  <1>1. \A u \in SUBSET S : f[u] = IF u = {} THEN 0 ELSE w[Picked(u)] + f[u \ {Picked(u)}]
    BY DEF Sums
  <1>2. \A u \in SUBSET S : IsFiniteSet(u) /\ Cardinality(u) \in Nat
    BY FS_Subset, FS_CardinalityType
  <1>3. \A u \in SUBSET S : f[u] \in Int
    <2>1. f \in [SUBSET S -> Int]
      BY SumsType
    <2> QED
      BY <2>1
  <1>4. ASSUME NEW b \in Bad PROVE FALSE
    <2>1. T \in SUBSET Nat /\ T # {}
      BY <1>2, <1>4
    <2>2. PICK c \in T : \A d \in T : c =< d
      BY <2>1, SmallestOf
    <2>3. PICK u \in Bad : c = Cardinality(u)
      OBVIOUS
    <2>4. PICK y \in u : f[u] # w[y] + f[u \ {y}]
      BY <2>3
    <2> DEFINE z == Picked(u)
    <2>5. z \in u /\ f[u] = w[z] + f[u \ {z}]
      BY <2>3, <2>4, <1>1 DEF Picked
    <2> HIDE DEF z
    <2>6. \A e \in u : u \ {e} \in SUBSET S /\ Holds2(u \ {e})
      <3> TAKE e \in u
      <3>1. u \ {e} \in SUBSET S /\ Cardinality(u \ {e}) = Cardinality(u) - 1
        BY <2>3, <1>2, FS_RemoveElement
      <3>2. Cardinality(u) \in Nat
        BY <2>3, <1>2
      <3>3. ASSUME u \ {e} \in Bad PROVE FALSE
        <4>1. Cardinality(u) =< Cardinality(u \ {e})
          BY <3>3, <2>2, <2>3
        <4> QED
          BY <4>1, <3>1, <3>2
      <3> QED
        BY <3>1, <3>3
    <2>7. y # z
      BY <2>4, <2>5
    <2>8. f[u \ {z}] = w[y] + f[(u \ {z}) \ {y}] /\ f[u \ {y}] = w[z] + f[(u \ {y}) \ {z}]
      BY <2>5, <2>6, <2>7
    <2>9. (u \ {z}) \ {y} = (u \ {y}) \ {z} /\ (u \ {z}) \ {y} \in SUBSET S
      BY <2>3
    <2>10. w[y] \in Int /\ w[z] \in Int /\ f[(u \ {z}) \ {y}] \in Int
      BY <2>3, <2>5, <2>9, <1>3
    <2>11. \A i, j, r \in Int : i + (j + r) = j + (i + r)
      OBVIOUS
    <2>12. f[u] = w[z] + (w[y] + f[(u \ {z}) \ {y}])
      BY <2>5, <2>8
    <2>13. w[y] + f[u \ {y}] = w[y] + (w[z] + f[(u \ {z}) \ {y}])
      BY <2>8, <2>9
    <2> QED
      BY <2>4, <2>10, <2>11, <2>12, <2>13
  <1> QED
    BY <1>4

\* Sums of what does not differ do not differ.
LEMMA SumsAgree ==
    ASSUME NEW S, IsFiniteSet(S), NEW w, NEW f, Sums(f, S, w),
           NEW R, NEW v, NEW g, Sums(g, R, v),
           NEW s \in SUBSET S, s \in SUBSET R, \A k \in s : w[k] = v[k]
    PROVE  f[s] = g[s]
  <1> DEFINE Bad == {u \in SUBSET s : f[u] # g[u]}
             T == {Cardinality(u) : u \in Bad}
  <1>1. \A u \in SUBSET s : /\ f[u] = IF u = {} THEN 0 ELSE w[Picked(u)] + f[u \ {Picked(u)}]
                            /\ g[u] = IF u = {} THEN 0 ELSE v[Picked(u)] + g[u \ {Picked(u)}]
    BY DEF Sums
  <1>2. \A u \in SUBSET s : IsFiniteSet(u) /\ Cardinality(u) \in Nat
    BY FS_Subset, FS_CardinalityType
  <1>3. ASSUME NEW b \in Bad PROVE FALSE
    <2>1. T \in SUBSET Nat /\ T # {}
      BY <1>2, <1>3
    <2>2. PICK c \in T : \A d \in T : c =< d
      BY <2>1, SmallestOf
    <2>3. PICK u \in Bad : c = Cardinality(u)
      OBVIOUS
    <2>4. u # {} /\ u \in SUBSET s
      BY <2>3, <1>1
    <2>5. Picked(u) \in u /\ w[Picked(u)] = v[Picked(u)]
      BY <2>4 DEF Picked
    <2> DEFINE t == u \ {Picked(u)}
    <2>6. t \in SUBSET s /\ Cardinality(t) = Cardinality(u) - 1 /\ Cardinality(u) \in Nat
      BY <2>4, <2>5, <1>2, FS_RemoveElement
    <2>7. f[t] = g[t]
      <3> SUFFICES ASSUME f[t] # g[t] PROVE FALSE
        OBVIOUS
      <3>1. t \in Bad
        BY <2>6
      <3>2. Cardinality(u) =< Cardinality(t)
        BY <3>1, <2>2, <2>3
      <3> HIDE DEF t
      <3> QED
        BY <3>2, <2>6
    <2> QED
      BY <2>3, <2>4, <2>5, <2>7, <1>1
  <1> QED
    BY <1>3

Charge(l) == [k \in Nodes(l) |-> EntryBytes(k, l.entry[k])]

\* What Accounted compares bytes with.
LEMMA ChargeSums ==
    ASSUME NEW l, ListTyped(l)
    PROVE  \E f : /\ Sums(f, Nodes(l), Charge(l))
                  /\ Accounted(l) <=> l.size = Cardinality(Nodes(l)) /\ l.bytes = f[Nodes(l)]
  <1> DEFINE N == Nodes(l)
             Solves(f) == f = [s \in SUBSET N |->
                                 IF s = {} THEN 0
                                 ELSE EntryBytes(Picked(s), l.entry[Picked(s)]) + f[s \ {Picked(s)}]]
             f == CHOOSE g : Solves(g)
  <1>1. \A s \in SUBSET N : s # {} => Picked(s) \in N
    BY DEF Picked
  <1>2. IsFiniteSet(N)
    BY TypedIs
  <1>3. \A g : Solves(g) <=> Sums(g, N, Charge(l))
    <2> TAKE g
    <2>1. \A s \in SUBSET N : s # {} => Charge(l)[Picked(s)] = EntryBytes(Picked(s), l.entry[Picked(s)])
      BY <1>1 DEF Charge
    <2> HIDE DEF N
    <2>2. [s \in SUBSET N |-> IF s = {} THEN 0
                              ELSE EntryBytes(Picked(s), l.entry[Picked(s)]) + g[s \ {Picked(s)}]]
          = [s \in SUBSET N |-> IF s = {} THEN 0 ELSE Charge(l)[Picked(s)] + g[s \ {Picked(s)}]]
      BY <2>1
    <2> QED
      BY <2>2 DEF Sums
  <1>4. \E g : Solves(g)
    BY <1>2, <1>3, SumsExist
  <1>5. Solves(f)
    BY <1>4
  <1>6. f[N] = MapThenSumSet(LAMBDA k : EntryBytes(k, l.entry[k]), N)
    BY DEF MapThenSumSet, MapThenFoldSet, Picked
  <1> HIDE DEF f
  <1> QED
    BY <1>3, <1>5, <1>6 DEF Accounted

-----------------------------------------------------------------------------
(* What set keeps.                                                           *)

ListInv(l) == ListTyped(l) /\ Linked(l) /\ Accounted(l)

LEMMA NewListInv == ListInv(NewList)
  <1>1. Nodes(NewList) = {} /\ ListTyped(NewList) /\ Linked(NewList)
    BY NewListLinked
  <1>2. PICK f : /\ Sums(f, {}, Charge(NewList))
                 /\ Accounted(NewList) <=> NewList.size = Cardinality({}) /\ NewList.bytes = f[{}]
    BY <1>1, ChargeSums
  <1>3. f[{}] = 0
    BY <1>2 DEF Sums
  <1>4. NewList.size = 0 /\ NewList.bytes = 0
    BY DEF NewList
  <1> QED
    BY <1>1, <1>2, <1>3, <1>4, FS_EmptySet DEF ListInv

\* Changing one entry, or adding it, changes the sum by what it is charged for.
LEMMA ChargeOf ==
    ASSUME NEW l, ListTyped(l), Accounted(l), NEW m, ListTyped(m), NEW key \in Keys,
           Nodes(m) = Nodes(l) \cup {key},
           \A k \in Nodes(l) \ {key} : m.entry[k] = l.entry[k],
           m.size = IF key \in Nodes(l) THEN l.size ELSE l.size + 1,
           m.bytes = (IF key \in Nodes(l) THEN l.bytes - EntryBytes(key, l.entry[key])
                                          ELSE l.bytes) + EntryBytes(key, m.entry[key])
    PROVE  Accounted(m)
  <1> DEFINE R == Nodes(l) \ {key}
  <1>1. PICK f : Sums(f, Nodes(l), Charge(l)) /\ l.size = Cardinality(Nodes(l)) /\ l.bytes = f[Nodes(l)]
    BY ChargeSums
  <1>2. PICK g : /\ Sums(g, Nodes(m), Charge(m))
                 /\ Accounted(m) <=> m.size = Cardinality(Nodes(m)) /\ m.bytes = g[Nodes(m)]
    BY ChargeSums
  <1>3. /\ IsFiniteSet(Nodes(l)) /\ IsFiniteSet(Nodes(m)) /\ Nodes(l) \subseteq Keys
        /\ Nodes(m) \subseteq Keys /\ l.size \in Nat
    BY TypedIs
  <1>4. /\ \A k \in Nodes(l) : Charge(l)[k] \in Int /\ Charge(l)[k] = EntryBytes(k, l.entry[k])
        /\ \A k \in Nodes(m) : Charge(m)[k] \in Int /\ Charge(m)[k] = EntryBytes(k, m.entry[k])
    BY <1>3, EntryBytesType DEF Charge
  <1>5. f[R] = g[R]
    <2>1. \A k \in R : Charge(l)[k] = Charge(m)[k]
      BY <1>4
    <2>2. R \in SUBSET Nodes(l) /\ R \in SUBSET Nodes(m)
      OBVIOUS
    <2> HIDE DEF R
    <2> QED
      BY <2>1, <2>2, <1>1, <1>2, <1>3, SumsAgree
  <1>6. g[Nodes(m)] = EntryBytes(key, m.entry[key]) + g[R]
    <2>1. Nodes(m) \ {key} = R /\ key \in Nodes(m) /\ Nodes(m) \in SUBSET Nodes(m)
      OBVIOUS
    <2> HIDE DEF R
    <2>2. g[Nodes(m)] = Charge(m)[key] + g[Nodes(m) \ {key}]
      BY <2>1, <1>2, <1>3, <1>4, SumsStep
    <2> QED
      BY <2>1, <2>2, <1>4
  <1>7. f[R] \in Int /\ f[Nodes(l)] \in Int /\ EntryBytes(key, m.entry[key]) \in Int
    <2>1. f \in [SUBSET Nodes(l) -> Int]
      BY <1>1, <1>3, <1>4, SumsType
    <2> QED
      BY <2>1, EntryBytesType
  <1>8. CASE key \in Nodes(l)
    <2>1. f[Nodes(l)] = Charge(l)[key] + f[Nodes(l) \ {key}]
      <3>1. Nodes(l) \in SUBSET Nodes(l)
        OBVIOUS
      <3> QED
        BY <3>1, <1>1, <1>3, <1>4, <1>8, SumsStep
    <2>2. Nodes(m) = Nodes(l)
      BY <1>8
    <2>3. EntryBytes(key, l.entry[key]) \in Int /\ Charge(l)[key] = EntryBytes(key, l.entry[key])
      BY <1>4, <1>8, EntryBytesType
    <2>4. l.bytes - EntryBytes(key, l.entry[key]) = f[R]
      BY <2>1, <2>3, <1>1, <1>7
    <2>5. m.bytes = g[Nodes(m)]
      BY <2>4, <1>5, <1>6, <1>7, <1>8
    <2> QED
      BY <2>2, <2>5, <1>1, <1>2, <1>8
  <1>9. CASE key \notin Nodes(l)
    <2>1. R = Nodes(l) /\ Cardinality(Nodes(m)) = Cardinality(Nodes(l)) + 1
      BY <1>3, <1>9, FS_AddElement
    <2>2. m.bytes = g[Nodes(m)]
      <3>1. m.bytes = f[Nodes(l)] + EntryBytes(key, m.entry[key])
        BY <1>1, <1>9
      <3>2. f[Nodes(l)] = g[R]
        BY <2>1, <1>5
      <3> HIDE DEF R
      <3> QED
        BY <3>1, <3>2, <1>6, <1>7
    <2> QED
      BY <2>1, <2>2, <1>1, <1>2, <1>9
  <1> QED
    BY <1>8, <1>9

LEMMA SetIs ==
    ASSUME NEW l, ListInv(l), NEW key \in Keys, NEW version \in Version,
           NEW height \in 1 .. MaxLevel
    PROVE  LET m == Set(l, key, version, height)
           IN  /\ ListInv(m) /\ Nodes(m) = Nodes(l) \cup {key}
               /\ \A k \in Nodes(l) \ {key} : m.entry[k] = l.entry[k]
               /\ m.entry[key] = IF key \in Nodes(l) /\ version.seq < l.entry[key].seq
                                   THEN l.entry[key] ELSE version
  <1> DEFINE m == Set(l, key, version, height)
  <1>1. ListTyped(l) /\ Linked(l) /\ Accounted(l) /\ key \in Key \ {NoKey}
    BY KeysAreKeys DEF ListInv
  <1>2. l.entry \in [Nodes(l) -> Version]
    BY <1>1, TypedIs
  <1>3. key \in Nodes(l) <=> SeekNode(l, key) = key
    BY <1>1, SeekNodeIs
  <1>4. CASE key \in Nodes(l)
    <2>1. m = Replace(l, key, version)
      BY <1>3, <1>4 DEF Set
    <2> HIDE DEF m
    <2>2. /\ ListTyped(m) /\ Linked(m) /\ Nodes(m) = Nodes(l) /\ m.size = l.size
          /\ m.entry = [l.entry EXCEPT ![key] = IF version.seq < @.seq THEN @ ELSE version]
          /\ m.bytes = l.bytes - EntryBytes(key, l.entry[key]) + EntryBytes(key, m.entry[key])
      BY <2>1, <1>1, <1>4, ReplaceLinked
    <2>3. /\ Nodes(m) = Nodes(l) \cup {key}
          /\ \A k \in Nodes(l) \ {key} : m.entry[k] = l.entry[k]
          /\ m.entry[key] = IF key \in Nodes(l) /\ version.seq < l.entry[key].seq
                              THEN l.entry[key] ELSE version
      BY <2>2, <1>2, <1>4
    <2>4. Accounted(m)
      BY <2>2, <2>3, <1>1, <1>4, ChargeOf
    <2> QED
      BY <2>2, <2>3, <2>4 DEF ListInv, m
  <1>5. CASE key \notin Nodes(l)
    <2>1. m = Insert(l, key, version, height)
      BY <1>3, <1>5 DEF Set
    <2> HIDE DEF m
    <2>2. /\ ListTyped(m) /\ Linked(m)
          /\ Nodes(m) = Nodes(l) \cup {key}
          /\ m.entry = [k \in Nodes(l) \cup {key} |-> IF k = key THEN version ELSE l.entry[k]]
          /\ m.size = l.size + 1 /\ m.bytes = l.bytes + EntryBytes(key, version)
      BY <2>1, <1>1, <1>5, InsertLinked
    <2>3. /\ \A k \in Nodes(l) \ {key} : m.entry[k] = l.entry[k]
          /\ m.entry[key] = version
      BY <2>2
    <2>4. Accounted(m)
      BY <2>2, <2>3, <1>1, <1>5, ChargeOf
    <2> QED
      BY <2>2, <2>3, <2>4, <1>5 DEF ListInv, m
  <1> QED
    BY <1>4, <1>5

\* The list a frame has been applied to, record by record.
FrameSteps(l, frame, heights, done) ==
    /\ done[0] = l /\ done[Len(frame)] = SetFrame(l, frame, heights)
    /\ \A i \in 1 .. Len(frame) :
          done[i] = Set(done[i - 1], frame[i].key, VersionOf(frame[i]), heights[frame[i].key])

LEMMA SetFrameSteps ==
    ASSUME NEW l, NEW frame \in Seq(Record), NEW heights
    PROVE  \E done : FrameSteps(l, frame, heights, done)
  <1> DEFINE n == Len(frame)
             D == 1 .. n
             Then(m, r) == Set(m, r.key, VersionOf(r), heights[r.key])
             Solves(f) == f = [s \in SUBSET D |->
                                 IF s = {} THEN l ELSE Then(f[s \ {Max(s)}], frame[Max(s)])]
             f == CHOOSE g : Solves(g)
             Upto(g, i) == g = [s \in SUBSET (1 .. i) |->
                                  IF s = {} THEN l ELSE Then(g[s \ {Max(s)}], frame[Max(s)])]
             Bad == {i \in Nat : \A g : ~Upto(g, i)}
  <1>1. n \in Nat /\ DOMAIN frame = D
    OBVIOUS
  <1>2. \A i \in Nat : \A s \in SUBSET (1 .. i) : i \in s => Max(s) = i
    <2> SUFFICES ASSUME NEW i \in Nat, NEW s \in SUBSET (1 .. i), i \in s PROVE Max(s) = i
      OBVIOUS
    <2>1. \A y \in s : i >= y
      OBVIOUS
    <2>2. \A x \in s : (\A y \in s : x >= y) => x = i
      OBVIOUS
    <2> QED
      BY <2>1, <2>2 DEF Max
  <1> HIDE DEF Then
  <1>3. 0 \notin Bad
    <2> DEFINE g == [s \in {{}} |-> l]
    <2>1. SUBSET (1 .. 0) = {{}}
      OBVIOUS
    <2>2. Upto(g, 0)
      BY <2>1
    <2> QED
      BY <2>2
  <1>4. ASSUME NEW i \in Nat, i \notin Bad PROVE i + 1 \notin Bad
    <2>1. PICK g : Upto(g, i)
      BY <1>4
    <2> DEFINE h == [s \in SUBSET (1 .. i + 1) |->
                       IF i + 1 \in s THEN Then(g[s \ {i + 1}], frame[i + 1]) ELSE g[s]]
    <2>2. \A s \in SUBSET (1 .. i) : s \in SUBSET (1 .. i + 1) /\ i + 1 \notin s
      OBVIOUS
    <2>3. \A s \in SUBSET (1 .. i + 1) :
             /\ i + 1 \notin s => s \in SUBSET (1 .. i)
             /\ s \ {i + 1} \in SUBSET (1 .. i)
      OBVIOUS
    <2>4. \A s \in SUBSET (1 .. i) : h[s] = g[s]
      BY <2>2
    <2>5. \A s \in SUBSET (1 .. i + 1) :
             h[s] = IF i + 1 \in s THEN Then(g[s \ {i + 1}], frame[i + 1]) ELSE g[s]
      OBVIOUS
    <2>6. h = [s \in SUBSET (1 .. i + 1) |-> h[s]]
      OBVIOUS
    <2> HIDE DEF h
    <2>7. \A s \in SUBSET (1 .. i) :
             g[s] = IF s = {} THEN l ELSE Then(g[s \ {Max(s)}], frame[Max(s)])
      BY <2>1
    <2>8. \A s \in SUBSET (1 .. i + 1) :
             h[s] = IF s = {} THEN l ELSE Then(h[s \ {Max(s)}], frame[Max(s)])
      <3> TAKE s \in SUBSET (1 .. i + 1)
      <3>1. CASE i + 1 \in s
        <4>1. Max(s) = i + 1
          BY <3>1, <1>2
        <4>2. h[s \ {i + 1}] = g[s \ {i + 1}]
          BY <2>3, <2>4
        <4> QED
          BY <3>1, <4>1, <4>2, <2>5
      <3>2. CASE i + 1 \notin s
        <4>1. s \in SUBSET (1 .. i) /\ s \ {Max(s)} \in SUBSET (1 .. i)
          BY <3>2, <2>3
        <4>2. h[s \ {Max(s)}] = g[s \ {Max(s)}] /\ h[s] = g[s]
          BY <4>1, <2>4
        <4> QED
          BY <4>1, <4>2, <2>7
      <3> QED
        BY <3>1, <3>2
    <2>9. Upto(h, i + 1)
      BY <2>6, <2>8
    <2> QED
      BY <2>9
  <1>5. ASSUME NEW b \in Bad PROVE FALSE
    <2>1. PICK i \in Bad : \A k \in Bad : i =< k
      BY <1>5, SmallestOf
    <2>2. i # 0 /\ i \in Nat
      BY <2>1, <1>3
    <2> HIDE DEF Bad
    <2>3. i - 1 \in Nat /\ (i - 1) + 1 = i /\ ~(i =< i - 1)
      BY <2>2
    <2>4. i - 1 \notin Bad
      BY <2>1, <2>3
    <2> QED
      BY <2>1, <2>3, <2>4, <1>4
  <1>6. Solves(f)
    <2>1. n \notin Bad
      BY <1>5
    <2>2. \E g : Upto(g, n)
      BY <2>1, <1>1
    <2>3. \A g : Upto(g, n) <=> Solves(g)
      OBVIOUS
    <2> HIDE DEF Upto, Solves
    <2>4. \E g : Solves(g)
      BY <2>2, <2>3
    <2> QED
      BY <2>4
  <1>7. SetFrame(l, frame, heights) = f[D]
    BY <1>1 DEF SetFrame, FoldLeft, MapThenFoldSet, Then
  <1> HIDE DEF f
  <1>8. \A s \in SUBSET D : f[s] = IF s = {} THEN l ELSE Then(f[s \ {Max(s)}], frame[Max(s)])
    BY <1>6
  <1> DEFINE done == [i \in 0 .. n |-> f[1 .. i]]
  <1>9. done[0] = l
    <2>1. 1 .. 0 = {} /\ {} \in SUBSET D /\ 0 \in 0 .. n
      BY <1>1
    <2> QED
      BY <2>1, <1>8
  <1>10. ASSUME NEW i \in 1 .. n
         PROVE  done[i] = Then(done[i - 1], frame[i])
    <2>1. 1 .. i \in SUBSET D /\ i \in 1 .. i /\ i \in 0 .. n /\ i - 1 \in 0 .. n /\ i \in Nat
      BY <1>1
    <2>2. (1 .. i) \ {i} = 1 .. (i - 1)
      BY <1>1
    <2>3. Max(1 .. i) = i
      BY <2>1, <1>2
    <2>4. f[1 .. i] = Then(f[1 .. (i - 1)], frame[i])
      BY <2>1, <2>2, <2>3, <1>8
    <2> QED
      BY <2>1, <2>4
  <1>11. done[n] = f[D]
    BY <1>1
  <1> HIDE DEF done
  <1> QED
    BY <1>7, <1>9, <1>10, <1>11 DEF Then, FrameSteps

-----------------------------------------------------------------------------
(* Walking along a level to its end.                                         *)

After(l, i, x) == {k \in Reaching(l, i) : KeyLess(x, k)}

LEMMA Prepended ==
    ASSUME NEW z \in Keys, NEW s \in Seq(Keys), Sorted(s), s # <<>> => KeyLess(z, s[1])
    PROVE  LET t == <<z>> \o s
           IN  t \in Seq(Keys) /\ Sorted(t) /\ ToSet(t) = {z} \cup ToSet(s) /\ t # <<>> /\ t[1] = z
  <1> DEFINE t == <<z>> \o s
  <1>1. /\ t \in Seq(Keys) /\ Len(t) = Len(s) + 1 /\ t[1] = z /\ Len(s) \in Nat
        /\ \A i \in 2 .. Len(t) : t[i] = s[i - 1]
    OBVIOUS
  <1> HIDE DEF t
  <1>2. \A i \in 2 .. Len(t) : KeyLess(t[i - 1], t[i])
    <2> TAKE i \in 2 .. Len(t)
    <2>1. CASE i = 2
      <3>1. s # <<>> /\ t[i] = s[1] /\ t[i - 1] = z
        BY <2>1, <1>1
      <3> QED
        BY <3>1
    <2>2. CASE i # 2
      <3>1. i - 1 \in 2 .. Len(t) /\ i - 1 \in 2 .. Len(s)
        BY <2>2, <1>1
      <3>2. t[i] = s[i - 1] /\ t[i - 1] = s[(i - 1) - 1]
        BY <3>1, <1>1
      <3> QED
        BY <3>1, <3>2 DEF Sorted
    <2> QED
      BY <2>1, <2>2
  <1>3. ToSet(t) = {z} \cup ToSet(s)
    <2>1. DOMAIN t = 1 .. Len(t) /\ DOMAIN s = 1 .. Len(s)
      BY <1>1
    <2>2. ToSet(t) \subseteq {z} \cup ToSet(s)
      <3> SUFFICES ASSUME NEW i \in 1 .. Len(t) PROVE t[i] = z \/ \E j \in 1 .. Len(s) : t[i] = s[j]
        BY <2>1 DEF ToSet
      <3>1. CASE i = 1
        BY <3>1, <1>1
      <3>2. CASE i # 1
        <4>1. i - 1 \in 1 .. Len(s) /\ i \in 2 .. Len(t)
          BY <3>2, <1>1
        <4> QED
          BY <4>1, <1>1
      <3> QED
        BY <3>1, <3>2
    <2>3. z \in ToSet(t)
      <3>1. 1 \in 1 .. Len(t)
        BY <1>1
      <3> QED
        BY <3>1, <2>1, <1>1 DEF ToSet
    <2>4. ToSet(s) \subseteq ToSet(t)
      <3> SUFFICES ASSUME NEW j \in 1 .. Len(s) PROVE \E i \in 1 .. Len(t) : t[i] = s[j]
        BY <2>1 DEF ToSet
      <3>1. j + 1 \in 2 .. Len(t) /\ j + 1 \in 1 .. Len(t) /\ (j + 1) - 1 = j
        BY <1>1
      <3>2. t[j + 1] = s[j]
        BY <3>1, <1>1
      <3> QED
        BY <3>1, <3>2
    <2> QED
      BY <2>2, <2>3, <2>4
  <1>4. t # <<>>
    BY <1>1
  <1> QED
    BY <1>1, <1>2, <1>3, <1>4 DEF Sorted, t

\* From a node on, a level delivers the keys after it in order.
LEMMA KeysAfterIs ==
    ASSUME NEW l, ListTyped(l), Linked(l), NEW i \in 1 .. MaxLevel, NEW x \in Level(l, i)
    PROVE  LET s == KeysAfter(l, x, i)
           IN  /\ s \in Seq(Keys) /\ Sorted(s) /\ ToSet(s) = After(l, i, x)
               /\ s # <<>> => s[1] = l.next[x][i]
               /\ l.next[x][i] # NoKey => s = <<l.next[x][i]>> \o KeysAfter(l, l.next[x][i], i)
               /\ l.next[x][i] = NoKey => s = <<>>
  <1> DEFINE N == Level(l, i)
             nxt(y) == l.next[y][i]
             Solves(f, D) == f = [y \in D |-> IF nxt(y) = NoKey THEN <<>> ELSE <<nxt(y)>> \o f[nxt(y)]]
             Up(y) == {z \in N : z = y \/ KeyLess(y, z)}
             from == CHOOSE f : Solves(f, N)
  <1>1. /\ N \subseteq Key /\ IsFiniteSet(N) /\ NoKey \in N
        /\ N = Reaching(l, i) \cup {NoKey} /\ NoKey \notin Reaching(l, i)
        /\ Reaching(l, i) \subseteq Keys
        /\ \A y \in N : Follows(l, i, y, nxt(y))
    BY LevelIs DEF Linked, Reaching
  <1>2. \A y \in N : nxt(y) # NoKey => /\ nxt(y) \in Reaching(l, i) /\ KeyLess(y, nxt(y))
                                       /\ After(l, i, y) = {nxt(y)} \cup After(l, i, nxt(y))
    <2> TAKE y \in N
    <2> SUFFICES ASSUME nxt(y) # NoKey
                 PROVE  /\ nxt(y) \in Reaching(l, i) /\ KeyLess(y, nxt(y))
                        /\ After(l, i, y) = {nxt(y)} \cup After(l, i, nxt(y))
      OBVIOUS
    <2>1. PICK z : z = nxt(y)
      OBVIOUS
    <2>2. /\ z \in Reaching(l, i) /\ KeyLess(y, z)
          /\ \A k \in Reaching(l, i) : KeyLess(y, k) => k = z \/ KeyLess(z, k)
      BY <2>1, <1>1 DEF Follows
    <2>3. After(l, i, y) = {z} \cup After(l, i, z)
      <3>1. \A k \in Reaching(l, i) : KeyLess(z, k) => KeyLess(y, k)
        BY <2>2, <1>1, KeyLessTransitive
      <3> QED
        BY <2>2, <3>1 DEF After
    <2> QED
      BY <2>1, <2>2, <2>3
  <1>3. \A y \in N : nxt(y) = NoKey => After(l, i, y) = {}
    BY <1>1 DEF Follows, After
  <1> HIDE DEF nxt
  <1>4. \E f : Solves(f, N)
    <2> DEFINE Bad == {y \in N : \A f : ~Solves(f, Up(y))}
    <2>1. ASSUME NEW b \in Bad PROVE FALSE
      <3>1. IsFiniteSet(Bad) /\ Bad \subseteq Key
        BY <1>1, FS_Subset
      <3>2. PICK y \in Bad : \A w \in Bad : w = y \/ KeyLess(w, y)
        BY <2>1, <3>1, GreatestKey
      <3>3. CASE nxt(y) = NoKey
        <4>1. Up(y) = {y}
          <5>1. \A z \in N : KeyLess(y, z) => z \in After(l, i, y)
            BY <1>1, <3>2, NoKeyFirst DEF After
          <5> QED
            BY <5>1, <3>2, <3>3, <1>3
        <4>2. Solves([z \in {y} |-> <<>>], {y})
          BY <3>3
        <4> HIDE DEF Solves, Up
        <4> QED
          BY <3>2, <4>1, <4>2
      <3>4. CASE nxt(y) # NoKey
        <4>1. PICK z : z = nxt(y)
          OBVIOUS
        <4>2. z \in N /\ KeyLess(y, z) /\ After(l, i, y) = {z} \cup After(l, i, z) /\ z \in Key /\ y \in Key
          BY <4>1, <3>4, <3>2, <1>1, <1>2
        <4>3. z \notin Bad
          <5> SUFFICES ASSUME z \in Bad PROVE FALSE
            OBVIOUS
          <5> QED
            BY <4>2, <3>2, KeyLessTransitive, KeyLessIrreflexive
        <4>4. PICK g : Solves(g, Up(z))
          BY <4>2, <4>3
        <4>5. Up(y) = {y} \cup Up(z) /\ y \notin Up(z)
          <5>1. \A w \in N : KeyLess(y, w) <=> w \in After(l, i, y)
            BY <1>1, <3>2, NoKeyFirst DEF After
          <5>2. \A w \in N : KeyLess(z, w) <=> w \in After(l, i, z)
            BY <1>1, <4>2, NoKeyFirst DEF After
          <5>3. Up(y) = {y} \cup Up(z)
            BY <5>1, <5>2, <4>2, <3>2
          <5>4. y \notin Up(z)
            BY <4>2, KeyLessTransitive, KeyLessIrreflexive
          <5> QED
            BY <5>3, <5>4
        <4>6. z \in Up(z) /\ \A w \in Up(z) : nxt(w) # NoKey => nxt(w) \in Up(z)
          <5>1. ASSUME NEW w \in Up(z), nxt(w) # NoKey PROVE nxt(w) \in Up(z)
            <6>1. w \in N /\ nxt(w) \in N /\ KeyLess(w, nxt(w))
              BY <5>1, <1>1, <1>2
            <6>2. w \in Key /\ nxt(w) \in Key
              BY <6>1, <1>1
            <6> QED
              BY <6>1, <6>2, <4>2, KeyLessTransitive
          <5> QED
            BY <5>1, <4>2
        <4> HIDE DEF Up
        <4> DEFINE h == [w \in {y} \cup Up(z) |-> IF w = y THEN <<z>> \o g[z] ELSE g[w]]
        <4>7. \A w \in Up(z) : g[w] = IF nxt(w) = NoKey THEN <<>> ELSE <<nxt(w)>> \o g[nxt(w)]
          BY <4>4
        <4>8. h[y] = <<z>> \o g[z] /\ \A w \in Up(z) : h[w] = g[w]
          BY <4>5
        <4>9. h = [w \in {y} \cup Up(z) |-> h[w]]
          OBVIOUS
        <4> HIDE DEF h
        <4>10. \A w \in {y} \cup Up(z) :
                  h[w] = IF nxt(w) = NoKey THEN <<>> ELSE <<nxt(w)>> \o h[nxt(w)]
          <5> TAKE w \in {y} \cup Up(z)
          <5>1. CASE w = y
            BY <5>1, <4>1, <4>6, <4>8, <3>4
          <5>2. CASE w \in Up(z)
            BY <5>2, <4>6, <4>7, <4>8
          <5> QED
            BY <5>1, <5>2
        <4>11. Solves(h, {y} \cup Up(z))
          BY <4>9, <4>10
        <4> HIDE DEF Solves
        <4>12. Solves(h, Up(y))
          BY <4>5, <4>11
        <4> QED
          BY <3>2, <4>12
      <3> QED
        BY <3>3, <3>4
    <2>2. NoKey \notin Bad
      BY <2>1
    <2>3. Up(NoKey) = N
      BY <1>1, NoKeyFirst
    <2> HIDE DEF Solves, Up
    <2> QED
      BY <2>2, <2>3, <1>1
  <1>5. Solves(from, N)
    <2> HIDE DEF Solves
    <2> QED
      BY <1>4
  <1>6. \A y \in N : KeysAfter(l, y, i) = from[y]
    BY DEF KeysAfter, nxt
  <1> HIDE DEF from
  <1>7. \A y \in N : from[y] = IF nxt(y) = NoKey THEN <<>> ELSE <<nxt(y)>> \o from[nxt(y)]
    BY <1>5
  <1> DEFINE Right(y) == /\ from[y] \in Seq(Keys) /\ Sorted(from[y])
                         /\ ToSet(from[y]) = After(l, i, y)
                         /\ from[y] # <<>> => from[y][1] = nxt(y)
             Bad == {y \in N : ~Right(y)}
  <1>8. ASSUME NEW b \in Bad PROVE FALSE
    <2>1. IsFiniteSet(Bad) /\ Bad \subseteq Key
      BY <1>1, FS_Subset
    <2>2. PICK y \in Bad : \A w \in Bad : w = y \/ KeyLess(w, y)
      BY <1>8, <2>1, GreatestKey
    <2>3. CASE nxt(y) = NoKey
      <3>1. from[y] = <<>> /\ After(l, i, y) = {}
        BY <2>2, <2>3, <1>3, <1>7
      <3>2. Sorted(<<>>) /\ ToSet(<<>>) = {}
        BY DEF Sorted, ToSet
      <3>3. <<>> \in Seq(Keys) /\ Sorted(from[y]) /\ ToSet(from[y]) = After(l, i, y)
        BY <3>1, <3>2
      <3>4. Right(y)
        BY <3>1, <3>3
      <3> QED
        BY <2>2, <3>4
    <2>4. CASE nxt(y) # NoKey
      <3>1. PICK z : z = nxt(y)
        OBVIOUS
      <3>2. /\ z \in N /\ z \in Keys /\ KeyLess(y, z) /\ After(l, i, y) = {z} \cup After(l, i, z)
            /\ z \in Key /\ y \in Key
        BY <3>1, <2>4, <2>2, <1>1, <1>2
      <3>3. z \notin Bad
        <4> SUFFICES ASSUME z \in Bad PROVE FALSE
          OBVIOUS
        <4> QED
          BY <3>2, <2>2, KeyLessTransitive, KeyLessIrreflexive
      <3>4. Right(z) /\ from[y] = <<z>> \o from[z]
        BY <3>1, <3>2, <3>3, <2>2, <2>4, <1>7
      <3>5. from[z] # <<>> => KeyLess(z, from[z][1])
        <4>1. from[z] # <<>> => nxt(z) # NoKey
          BY <3>2, <1>7
        <4> QED
          BY <4>1, <3>2, <3>4, <1>2
      <3>6. /\ from[y] \in Seq(Keys) /\ Sorted(from[y]) /\ ToSet(from[y]) = {z} \cup ToSet(from[z])
            /\ from[y][1] = z
        BY <3>2, <3>4, <3>5, Prepended
      <3> QED
        BY <2>2, <3>1, <3>2, <3>4, <3>6
    <2> QED
      BY <2>3, <2>4
  <1>9. Right(x)
    BY <1>8
  <1>10. KeysAfter(l, x, i) = from[x] /\ nxt(x) = l.next[x][i]
    BY <1>6 DEF nxt
  <1>11. nxt(x) # NoKey => from[x] = <<nxt(x)>> \o KeysAfter(l, nxt(x), i)
    <2>1. nxt(x) # NoKey => nxt(x) \in N
      BY <1>1, <1>2
    <2> QED
      BY <2>1, <1>6, <1>7
  <1>12. nxt(x) = NoKey => from[x] = <<>>
    BY <1>7
  <1> QED
    BY <1>9, <1>10, <1>11, <1>12

LEMMA LinkedIsNested ==
    ASSUME NEW l, ListTyped(l), Linked(l)
    PROVE  LevelsNested(l)
  <1>1. /\ \A k \in Nodes(l) : Len(l.next[k]) \in 1 .. l.level
        /\ l.level \in 1 .. MaxLevel /\ MaxLevel \in Nat
    BY TypedIs
  <1>2. \A k \in Nodes(l) : Len(l.next[k]) =< l.level
    BY <1>1
  <1>3. ASSUME NEW i \in 1 .. MaxLevel
        PROVE  LET keys == KeysAfter(l, NoKey, i)
               IN  Sorted(keys) /\ ToSet(keys) = {k \in Nodes(l) : Len(l.next[k]) >= i}
    <2>1. /\ NoKey \in Level(l, i)
          /\ Reaching(l, i) = {k \in Nodes(l) : i =< Len(l.next[k])}
          /\ Reaching(l, i) \subseteq Keys
      BY LevelIs
    <2>2. After(l, i, NoKey) = Reaching(l, i)
      BY <2>1, NoKeyFirst, KeysAreKeys DEF After
    <2>3. \A k \in Nodes(l) : i =< Len(l.next[k]) <=> Len(l.next[k]) >= i
      BY <1>1
    <2>4. Sorted(KeysAfter(l, NoKey, i)) /\ ToSet(KeysAfter(l, NoKey, i)) = After(l, i, NoKey)
      BY <2>1, KeysAfterIs
    <2> QED
      BY <2>1, <2>2, <2>3, <2>4
  <1> QED
    BY <1>2, <1>3 DEF LevelsNested

-----------------------------------------------------------------------------
(* Frames: what the list holds when one has been applied to it.              *)

MemOf(l, k) == IF k \in Nodes(l) THEN l.entry[k] ELSE NoVersion

LEMMA MemGetIs ==
    ASSUME NEW l, ListTyped(l), Linked(l), NEW k \in Targets
    PROVE  MemGet(l, k) = MemOf(l, k)
  <1>1. k \in Nodes(l) <=> SeekNode(l, k) = k
    BY KeysAreKeys, SeekNodeIs
  <1> QED
    BY <1>1 DEF MemGet, MemOf

LEMMA FlattenedIs ==
    ASSUME NEW S, NEW seqs \in Seq(Seq(S))
    PROVE  /\ FlattenSeq(seqs) \in Seq(S)
           /\ ToSet(FlattenSeq(seqs)) = UNION {ToSet(s) : s \in ToSet(seqs)}
  <1> DEFINE n == Len(seqs)
             Solves(f, i) == f = [j \in 1 .. i |-> IF j = 1 THEN seqs[j] ELSE f[j - 1] \o seqs[j]]
             flat == CHOOSE f : Solves(f, n)
             Bad == {i \in Nat : \A f : ~Solves(f, i)}
  <1>1. n \in Nat /\ DOMAIN seqs = 1 .. n
    OBVIOUS
  <1>2. CASE n = 0
    <2>1. seqs = <<>>
      BY <1>2
    <2>2. FlattenSeq(seqs) = <<>>
      BY <1>2, <2>1 DEF FlattenSeq
    <2>3. ToSet(seqs) = {}
      BY <1>1, <1>2 DEF ToSet
    <2>4. ToSet(FlattenSeq(seqs)) = {} /\ FlattenSeq(seqs) \in Seq(S)
      BY <2>2 DEF ToSet
    <2> QED
      BY <2>3, <2>4
  <1>3. CASE n # 0
    <2>1. 1 \notin Bad
      <3> DEFINE f == [j \in 1 .. 1 |-> seqs[j]]
      <3>1. f = [j \in 1 .. 1 |-> IF j = 1 THEN seqs[j] ELSE f[j - 1] \o seqs[j]]
        <4>1. \A j \in 1 .. 1 : j = 1
          OBVIOUS
        <4> QED
          BY <4>1
      <3> HIDE DEF f
      <3> QED
        BY <3>1
    <2>2. ASSUME NEW i \in Nat \ {0}, i \notin Bad PROVE i + 1 \notin Bad
      <3>1. PICK f : Solves(f, i)
        BY <2>2
      <3> DEFINE h == [j \in 1 .. i + 1 |-> IF j = i + 1 THEN f[i] \o seqs[i + 1] ELSE f[j]]
      <3>2. \A j \in 1 .. i : f[j] = IF j = 1 THEN seqs[j] ELSE f[j - 1] \o seqs[j]
        BY <3>1
      <3>3. \A j \in 1 .. i : h[j] = f[j]
        OBVIOUS
      <3>4. h[i + 1] = f[i] \o seqs[i + 1]
        <4>1. i + 1 \in 1 .. i + 1
          OBVIOUS
        <4> QED
          BY <4>1
      <3>0. h = [j \in 1 .. i + 1 |-> h[j]]
        OBVIOUS
      <3> HIDE DEF h
      <3>5. \A j \in 1 .. i + 1 : h[j] = IF j = 1 THEN seqs[j] ELSE h[j - 1] \o seqs[j]
        <4> TAKE j \in 1 .. i + 1
        <4>1. CASE j = i + 1
          <5>1. j # 1 /\ j - 1 = i /\ i \in 1 .. i
            BY <4>1
          <5> QED
            BY <4>1, <5>1, <3>3, <3>4
        <4>2. CASE j # i + 1
          <5>1. j \in 1 .. i /\ (j # 1 => j - 1 \in 1 .. i)
            BY <4>2
          <5> QED
            BY <5>1, <3>2, <3>3
        <4> QED
          BY <4>1, <4>2
      <3>6. Solves(h, i + 1)
        BY <3>0, <3>5
      <3> QED
        BY <3>6
    <2>3. ASSUME NEW b \in Bad, b # 0 PROVE FALSE
      <3>0. Bad \ {0} \in SUBSET Nat /\ Bad \ {0} # {}
        BY <2>3
      <3>1. PICK i \in Bad \ {0} : \A k \in Bad \ {0} : i =< k
        <4> HIDE DEF Bad
        <4> QED
          BY <3>0, SmallestOf
      <3>2. i # 1 /\ i \in Nat \ {0}
        BY <3>1, <2>1
      <3> HIDE DEF Bad
      <3>3. i - 1 \in Nat \ {0} /\ (i - 1) + 1 = i /\ ~(i =< i - 1)
        BY <3>2
      <3>4. i - 1 \notin Bad
        BY <3>1, <3>3
      <3> QED
        BY <3>1, <3>3, <3>4, <2>2
    <2>4. Solves(flat, n)
      <3>1. n \notin Bad
        BY <1>3, <2>3
      <3> HIDE DEF Solves
      <3> QED
        BY <3>1, <1>1
    <2>5. FlattenSeq(seqs) = flat[n]
      BY <1>3 DEF FlattenSeq
    <2> HIDE DEF flat
    <2>6. \A j \in 1 .. n : flat[j] = IF j = 1 THEN seqs[j] ELSE flat[j - 1] \o seqs[j]
      BY <2>4
    <2> DEFINE Right(j) == /\ flat[j] \in Seq(S)
                           /\ ToSet(flat[j]) = UNION {ToSet(seqs[k]) : k \in 1 .. j}
               Wrong == {j \in 1 .. n : ~Right(j)}
    <2>7. \A j \in 1 .. n : seqs[j] \in Seq(S)
      BY <1>1
    <2> HIDE DEF Right
    <2>8. ASSUME Wrong # {} PROVE FALSE
      <3>0. Wrong \in SUBSET Nat
        BY <1>1
      <3>1. PICK j \in Wrong : \A k \in Wrong : j =< k
        <4> HIDE DEF Wrong
        <4> QED
          BY <3>0, <2>8, SmallestOf
      <3>2. CASE j = 1
        <4>1. 1 \in 1 .. n /\ 1 .. 1 = {1}
          BY <3>1, <3>2
        <4>2. flat[1] = seqs[1] /\ seqs[1] \in Seq(S)
          BY <4>1, <2>6, <2>7
        <4>3. UNION {ToSet(seqs[k]) : k \in {1}} = ToSet(seqs[1])
          OBVIOUS
        <4>4. Right(1)
          BY <4>1, <4>2, <4>3 DEF Right
        <4> QED
          BY <4>4, <3>1, <3>2
      <3>3. CASE j # 1
        <4>1. j - 1 \in 1 .. n /\ ~(j =< j - 1) /\ 1 .. j = (1 .. j - 1) \cup {j}
          BY <3>1, <3>3, <1>1
        <4>2. Right(j - 1)
          BY <4>1, <3>1
        <4>3. flat[j] = flat[j - 1] \o seqs[j] /\ seqs[j] \in Seq(S)
          BY <3>1, <3>3, <2>6, <2>7
        <4>4. \A s, t \in Seq(S) : s \o t \in Seq(S) /\ ToSet(s \o t) = ToSet(s) \cup ToSet(t)
          <5> TAKE s, t \in Seq(S)
          <5>1. /\ s \o t \in Seq(S) /\ Len(s \o t) = Len(s) + Len(t) /\ Len(s) \in Nat /\ Len(t) \in Nat
                /\ \A k \in 1 .. Len(s) : (s \o t)[k] = s[k]
                /\ \A k \in 1 .. Len(t) : (s \o t)[Len(s) + k] = t[k]
            OBVIOUS
          <5>2. PICK u : u = s \o t
            OBVIOUS
          <5>3. DOMAIN u = 1 .. Len(u) /\ DOMAIN s = 1 .. Len(s) /\ DOMAIN t = 1 .. Len(t)
            BY <5>1, <5>2
          <5>4. ToSet(u) \subseteq ToSet(s) \cup ToSet(t)
            <6> SUFFICES ASSUME NEW k \in 1 .. Len(u)
                         PROVE  \/ \E m \in 1 .. Len(s) : u[k] = s[m]
                                \/ \E m \in 1 .. Len(t) : u[k] = t[m]
              BY <5>3 DEF ToSet
            <6>1. CASE k =< Len(s)
              BY <6>1, <5>1, <5>2
            <6>2. CASE ~(k =< Len(s))
              <7>1. k - Len(s) \in 1 .. Len(t) /\ k = Len(s) + (k - Len(s))
                BY <6>2, <5>1, <5>2
              <7> QED
                BY <7>1, <5>1, <5>2
            <6> QED
              BY <6>1, <6>2
          <5>5. ToSet(s) \subseteq ToSet(u)
            <6> SUFFICES ASSUME NEW m \in 1 .. Len(s) PROVE \E k \in 1 .. Len(u) : u[k] = s[m]
              BY <5>3 DEF ToSet
            <6>1. m \in 1 .. Len(u)
              BY <5>1, <5>2
            <6> QED
              BY <6>1, <5>1, <5>2
          <5>6. ToSet(t) \subseteq ToSet(u)
            <6> SUFFICES ASSUME NEW m \in 1 .. Len(t) PROVE \E k \in 1 .. Len(u) : u[k] = t[m]
              BY <5>3 DEF ToSet
            <6>1. Len(s) + m \in 1 .. Len(u)
              BY <5>1, <5>2
            <6> QED
              BY <6>1, <5>1, <5>2
          <5> QED
            BY <5>1, <5>2, <5>4, <5>5, <5>6
        <4>5. flat[j] \in Seq(S) /\ ToSet(flat[j]) = ToSet(flat[j - 1]) \cup ToSet(seqs[j])
          BY <4>2, <4>3, <4>4 DEF Right
        <4>6. UNION {ToSet(seqs[k]) : k \in 1 .. j}
              = (UNION {ToSet(seqs[k]) : k \in 1 .. j - 1}) \cup ToSet(seqs[j])
          <5>1. PICK below : below = 1 .. j - 1
            OBVIOUS
          <5>2. UNION {ToSet(seqs[k]) : k \in below \cup {j}}
                  = (UNION {ToSet(seqs[k]) : k \in below}) \cup ToSet(seqs[j])
            OBVIOUS
          <5> QED
            BY <5>1, <5>2, <4>1
        <4>7. Right(j)
          BY <4>2, <4>5, <4>6 DEF Right
        <4> QED
          BY <4>7, <3>1
      <3> QED
        BY <3>2, <3>3
    <2>9. Right(n)
      <3>1. n \in 1 .. n
        BY <1>1, <1>3
      <3> HIDE DEF Right
      <3> QED
        BY <3>1, <2>8
    <2>10. {ToSet(s) : s \in ToSet(seqs)} = {ToSet(seqs[k]) : k \in 1 .. n}
      <3>1. ToSet(seqs) = {seqs[k] : k \in 1 .. n}
        BY <1>1 DEF ToSet
      <3> QED
        BY <3>1
    <2> QED
      BY <2>5, <2>9, <2>10 DEF Right
  <1> QED
    BY <1>2, <1>3

\* The list keeps its shape over a frame; what it holds of a key is the newest of
\* what it held and what the frame has, if no number is used twice for the key.
LEMMA SetFrameIs ==
    ASSUME NEW l, ListInv(l), NEW frame \in Seq(Record), NEW heights \in [Keys -> 1 .. MaxLevel]
    PROVE  LET m == SetFrame(l, frame, heights)
           IN  /\ ListInv(m)
               /\ Nodes(m) = Nodes(l) \cup {r.key : r \in ToSet(frame)}
               /\ \A k \in Nodes(m) :
                     /\ m.entry[k] \in (IF k \in Nodes(l) THEN {l.entry[k]} ELSE {}) \cup
                                       {VersionOf(r) : r \in {s \in ToSet(frame) : s.key = k}}
                     /\ k \in Nodes(l) => l.entry[k].seq =< m.entry[k].seq
                     /\ \A r \in ToSet(frame) : r.key = k => r.seq =< m.entry[k].seq
  <1> DEFINE n == Len(frame)
             Upto(i) == {frame[j] : j \in 1 .. i}
             Right(m, i) ==
                /\ ListInv(m)
                /\ Nodes(m) = Nodes(l) \cup {r.key : r \in Upto(i)}
                /\ \A k \in Nodes(m) :
                      /\ m.entry[k] \in (IF k \in Nodes(l) THEN {l.entry[k]} ELSE {}) \cup
                                        {VersionOf(r) : r \in {s \in Upto(i) : s.key = k}}
                      /\ k \in Nodes(l) => l.entry[k].seq =< m.entry[k].seq
                      /\ \A r \in Upto(i) : r.key = k => r.seq =< m.entry[k].seq
  <1>1. PICK done : /\ done[0] = l /\ done[n] = SetFrame(l, frame, heights)
                    /\ \A i \in 1 .. n :
                          done[i] = Set(done[i - 1], frame[i].key, VersionOf(frame[i]), heights[frame[i].key])
    <2>1. PICK done : FrameSteps(l, frame, heights, done)
      BY SetFrameSteps
    <2> QED
      BY <2>1 DEF FrameSteps
  <1>2. n \in Nat /\ DOMAIN frame = 1 .. n /\ \A i \in 1 .. n : frame[i] \in Record
    OBVIOUS
  <1>3. \A m : ListInv(m) => m.entry \in [Nodes(m) -> Version]
    BY TypedIs DEF ListInv
  <1>4. Right(l, 0)
    <2>1. Upto(0) = {}
      OBVIOUS
    <2>2. \A k \in Nodes(l) : l.entry[k].seq =< l.entry[k].seq
      BY <1>3 DEF Version
    <2> HIDE DEF Upto
    <2> QED
      BY <2>1, <2>2
  <1>5. ASSUME NEW i \in 1 .. n, NEW m, Right(m, i - 1),
               NEW p, p = Set(m, frame[i].key, VersionOf(frame[i]), heights[frame[i].key])
        PROVE  Right(p, i)
    <2> DEFINE r == frame[i]
               key == frame[i].key
               v == VersionOf(frame[i])
    <2>1. r \in Record /\ key \in Keys /\ v \in Version /\ v.seq = r.seq
      BY <1>2 DEF Record, VersionOf, Version
    <2>2. heights[key] \in 1 .. MaxLevel
      BY <2>1
    <2> HIDE DEF v
    <2>3. /\ ListInv(p) /\ Nodes(p) = Nodes(m) \cup {key}
          /\ \A k \in Nodes(m) \ {key} : p.entry[k] = m.entry[k]
          /\ p.entry[key] = IF key \in Nodes(m) /\ v.seq < m.entry[key].seq
                              THEN m.entry[key] ELSE v
      <3>1. p = Set(m, key, v, heights[key]) /\ ListInv(m)
        BY <1>5 DEF v
      <3> HIDE DEF key, Right
      <3> QED
        BY <3>1, <2>1, <2>2, SetIs
    <2>4. Upto(i) = Upto(i - 1) \cup {r}
      <3>1. 1 .. i = (1 .. i - 1) \cup {i}
        BY <1>2
      <3> QED
        BY <3>1
    <2>5. \A k \in Nodes(m) : m.entry[k].seq \in Nat
      <3>1. m.entry \in [Nodes(m) -> Version]
        BY <1>3, <1>5
      <3> QED
        BY <3>1 DEF Version
    <2>6. \A k \in Nodes(l) : l.entry[k].seq \in Nat
      <3>1. l.entry \in [Nodes(l) -> Version]
        BY <1>3
      <3> QED
        BY <3>1 DEF Version
    <2>7. v.seq \in Nat /\ \A q \in Upto(i) : q.seq \in Nat
      <3>1. \A j \in 1 .. i : j \in 1 .. n
        BY <1>2
      <3>2. \A q \in Upto(i) : q \in Record
        BY <3>1, <1>2
      <3> HIDE DEF Upto
      <3> QED
        BY <3>2, <2>1 DEF Version, Record
    <2>8. Nodes(p) = Nodes(l) \cup {q.key : q \in Upto(i)}
      <3>1. Nodes(m) = Nodes(l) \cup {q.key : q \in Upto(i - 1)}
        BY <1>5
      <3> HIDE DEF Upto
      <3> QED
        BY <3>1, <2>3, <2>4
    <2>9. ASSUME NEW k \in Nodes(p)
          PROVE  /\ p.entry[k] \in (IF k \in Nodes(l) THEN {l.entry[k]} ELSE {}) \cup
                                   {VersionOf(q) : q \in {s \in Upto(i) : s.key = k}}
                 /\ k \in Nodes(l) => l.entry[k].seq =< p.entry[k].seq
                 /\ \A q \in Upto(i) : q.key = k => q.seq =< p.entry[k].seq
      <3>1. k \in Nodes(m) =>
               /\ m.entry[k] \in (IF k \in Nodes(l) THEN {l.entry[k]} ELSE {}) \cup
                                 {VersionOf(q) : q \in {s \in Upto(i - 1) : s.key = k}}
               /\ k \in Nodes(l) => l.entry[k].seq =< m.entry[k].seq
               /\ \A q \in Upto(i - 1) : q.key = k => q.seq =< m.entry[k].seq
        BY <1>5
      <3>2. k \in Nodes(m) <=> k \in Nodes(l) \/ \E q \in Upto(i - 1) : q.key = k
        BY <1>5
      <3> HIDE DEF Upto
      <3>3. CASE k # key
        <4>1. k \in Nodes(m) /\ p.entry[k] = m.entry[k]
          BY <3>3, <2>3
        <4> QED
          BY <4>1, <3>1, <3>3, <2>4
      <3>4. CASE k = key /\ p.entry[k] = v /\ (k \in Nodes(m) => ~(v.seq < m.entry[k].seq))
        <4>1. p.entry[k] \in {VersionOf(q) : q \in {s \in Upto(i) : s.key = k}}
          BY <3>4, <2>4 DEF v
        <4>2. k \in Nodes(m) => m.entry[k].seq =< v.seq
          BY <3>4, <2>5, <2>7
        <4>3. k \in Nodes(l) => l.entry[k].seq =< p.entry[k].seq
          BY <4>2, <3>1, <3>2, <3>4, <2>5, <2>6, <2>7
        <4>4. ASSUME NEW q \in Upto(i), q.key = k PROVE q.seq =< p.entry[k].seq
          <5>1. CASE q = r
            BY <5>1, <3>4, <2>1, <2>7
          <5>2. CASE q \in Upto(i - 1)
            BY <5>2, <4>2, <4>4, <3>1, <3>2, <3>4, <2>5, <2>7
          <5> QED
            BY <5>1, <5>2, <2>4
        <4> QED
          BY <4>1, <4>3, <4>4
      <3>5. CASE k = key /\ k \in Nodes(m) /\ v.seq < m.entry[k].seq /\ p.entry[k] = m.entry[k]
        <4>1. \A q \in Upto(i) : q.key = k => q.seq =< p.entry[k].seq
          BY <3>1, <3>5, <2>1, <2>4, <2>5, <2>7
        <4> QED
          BY <4>1, <3>1, <3>5, <2>4
      <3> QED
        BY <3>3, <3>4, <3>5, <2>3
    <2> HIDE DEF Upto
    <2> QED
      BY <2>3, <2>8, <2>9
  <1> HIDE DEF Right
  <1> DEFINE Wrong == {i \in 0 .. n : ~Right(done[i], i)}
  <1>6. ASSUME NEW b \in Wrong PROVE FALSE
    <2>0. Wrong \in SUBSET Nat /\ Wrong # {}
      BY <1>6, <1>2
    <2>1. PICK i \in Wrong : \A k \in Wrong : i =< k
      <3> HIDE DEF Wrong
      <3> QED
        BY <2>0, SmallestOf
    <2>2. i # 0
      BY <2>1, <1>1, <1>4
    <2>3. i \in 1 .. n /\ i - 1 \in 0 .. n /\ ~(i =< i - 1)
      BY <2>1, <2>2, <1>2
    <2>4. Right(done[i - 1], i - 1)
      BY <2>1, <2>3
    <2>5. Right(done[i], i)
      BY <2>3, <2>4, <1>1, <1>5
    <2> QED
      BY <2>1, <2>5
  <1>7. Right(done[n], n)
    BY <1>2, <1>6
  <1>8. Upto(n) = ToSet(frame)
    BY <1>2 DEF ToSet
  <1> HIDE DEF Upto
  <1> QED
    BY <1>1, <1>7, <1>8 DEF Right

-----------------------------------------------------------------------------
(* The list and a cursor in it, over the operations of the engine.           *)

LEMMA SortedRest ==
    ASSUME NEW s \in Seq(Keys), Sorted(s), s # <<>>
    PROVE  /\ Head(s) \in Keys /\ Tail(s) \in Seq(Keys) /\ Sorted(Tail(s))
           /\ ToSet(s) = {Head(s)} \cup ToSet(Tail(s))
           /\ \A k \in ToSet(Tail(s)) : KeyLess(Head(s), k)
  <1> DEFINE n == Len(s)
             r == Tail(s)
             Wrong == {i \in 2 .. n : ~KeyLess(s[1], s[i])}
  <1>1. /\ n \in Nat \ {0} /\ DOMAIN s = 1 .. n /\ Head(s) = s[1]
        /\ \A i \in 1 .. n : s[i] \in Keys
    OBVIOUS
  <1>2. /\ r \in Seq(Keys) /\ Len(r) = n - 1 /\ DOMAIN r = 1 .. n - 1
        /\ \A i \in 1 .. n - 1 : r[i] = s[i + 1]
    BY <1>1
  <1> HIDE DEF n, r
  <1>3. Sorted(r)
    <2> SUFFICES ASSUME NEW i \in 2 .. n - 1 PROVE KeyLess(r[i - 1], r[i])
      BY <1>2 DEF Sorted
    <2>1. i + 1 \in 2 .. n /\ i \in 1 .. n - 1 /\ i - 1 \in 1 .. n - 1 /\ (i - 1) + 1 = (i + 1) - 1
      BY <1>1
    <2>2. KeyLess(s[(i + 1) - 1], s[i + 1])
      BY <2>1 DEF Sorted, n
    <2>3. r[i - 1] = s[(i - 1) + 1] /\ r[i] = s[i + 1]
      BY <2>1, <1>2
    <2> QED
      BY <2>1, <2>2, <2>3
  <1>4. ToSet(s) = {s[1]} \cup ToSet(r)
    <2>1. \A i \in 1 .. n : i = 1 \/ (i - 1 \in 1 .. n - 1 /\ r[i - 1] = s[i])
      <3> TAKE i \in 1 .. n
      <3>1. i # 1 => i - 1 \in 1 .. n - 1 /\ (i - 1) + 1 = i
        BY <1>1
      <3> QED
        BY <3>1, <1>2
    <2>2. \A i \in 1 .. n - 1 : i + 1 \in 1 .. n /\ r[i] = s[i + 1]
      BY <1>1, <1>2
    <2>3. 1 \in 1 .. n
      BY <1>1
    <2>4. ToSet(s) = {s[i] : i \in 1 .. n} /\ ToSet(r) = {r[i] : i \in 1 .. n - 1}
      BY <1>1, <1>2 DEF ToSet
    <2>5. ToSet(s) \subseteq {s[1]} \cup ToSet(r)
      BY <2>1, <2>4
    <2>6. {s[1]} \cup ToSet(r) \subseteq ToSet(s)
      BY <2>2, <2>3, <2>4
    <2> QED
      BY <2>5, <2>6
  <1>5. ASSUME Wrong # {} PROVE FALSE
    <2>1. Wrong \in SUBSET Nat
      BY <1>1
    <2>2. PICK i \in Wrong : \A k \in Wrong : i =< k
      <3> HIDE DEF Wrong
      <3> QED
        BY <2>1, <1>5, SmallestOf
    <2>3. KeyLess(s[i - 1], s[i]) /\ i \in 2 .. n /\ i - 1 \in 1 .. n /\ i \in 1 .. n
      BY <2>2, <1>1 DEF Sorted, n
    <2>4. i = 2 => i - 1 = 1
      BY <1>1
    <2>5. i # 2 => i - 1 \in 2 .. n /\ ~(i =< i - 1)
      BY <2>3, <1>1
    <2>6. i # 2 => KeyLess(s[1], s[i - 1])
      BY <2>2, <2>5
    <2>7. s[1] \in Key /\ s[i - 1] \in Key /\ s[i] \in Key
      BY <2>3, <1>1, KeysAreKeys
    <2> QED
      BY <2>2, <2>3, <2>4, <2>6, <2>7, KeyLessTransitive
  <1>6. \A i \in 1 .. n - 1 : KeyLess(s[1], r[i])
    <2> TAKE i \in 1 .. n - 1
    <2>1. i + 1 \in 2 .. n
      BY <1>1
    <2> QED
      BY <2>1, <1>2, <1>5
  <1> QED
    BY <1>1, <1>2, <1>3, <1>4, <1>6 DEF r, ToSet

\* Where a cursor stands and what its caller is due: ahead of it in the list it
\* is in, the live one, or the rest of the old one.
Ahead ==
    /\ cursor \in [valid : BOOLEAN, at : Places, detached : BOOLEAN, own : Seq(Keys)]
    /\ cursor.valid => \A k \in due : k \in Keys /\ KeyLess(cursor.at, k)
    /\ cursor.valid /\ ~cursor.detached => /\ cursor.at \in Nodes(list) \cup {NoKey}
                                           /\ due \subseteq Nodes(list)
    /\ cursor.valid /\ cursor.detached => Sorted(cursor.own) /\ due \subseteq ToSet(cursor.own)
    /\ ~cursor.valid => due = {}

\* The inductive invariant of the memtable.
MemInv ==
    /\ ListInv(list)
    /\ frames \in Seq(Seq(Record))
    /\ nextSeq \in Nat
    /\ Ahead

LEMMA FrameOfType ==
    ASSUME NEW ops \in Batches, nextSeq \in Nat
    PROVE  FrameOf(ops) \in Seq(Record) /\ Len(FrameOf(ops)) = Len(ops) /\ Len(ops) \in Nat
  <1>1. ops \in Seq([key : Keys, val : Contents])
    BY DataPathAssumption
  <1>2. Len(ops) \in Nat /\ DOMAIN ops = 1 .. Len(ops)
    BY <1>1
  <1>3. \A i \in 1 .. Len(ops) : ops[i].key \in Keys /\ ops[i].val \in Contents /\ nextSeq + i \in Nat
    <2> DEFINE Op == [key : Keys, val : Contents]
    <2>1. Op = [key : Keys, val : Contents]
      OBVIOUS
    <2> HIDE DEF Op
    <2>2. ops \in Seq(Op)
      BY <1>1, <2>1
    <2>3. \A i \in 1 .. Len(ops) : ops[i] \in Op
      BY <2>2
    <2> QED
      BY <2>1, <2>3
  <1>4. FrameOf(ops) \in [1 .. Len(ops) -> Record]
    BY <1>2, <1>3 DEF FrameOf, Record
  <1>5. FrameOf(ops) \in Seq(Record)
    BY <1>2, <1>4, SeqDef
  <1> QED
    BY <1>2, <1>4, <1>5

LEMMA CursorOnType ==
    ASSUME NEW x \in Places
    PROVE  /\ CursorOn(x) \in [valid : BOOLEAN, at : Places, detached : BOOLEAN, own : Seq(Keys)]
           /\ CursorOn(x).at = x /\ ~CursorOn(x).detached
           /\ CursorOn(x).valid <=> x # NoKey
  <1>1. <<>> \in Seq(Keys)
    OBVIOUS
  <1> QED
    BY <1>1 DEF CursorOn

LEMMA MemInit == Init => MemInv
  <1> SUFFICES ASSUME Init PROVE MemInv
    OBVIOUS
  <1>1. NoKey \in Places
    BY DEF Places
  <1>2. Ahead
    BY <1>1, CursorOnType DEF Init, NoCursor, Ahead
  <1> QED
    BY <1>2, NewListInv DEF Init, MemInv

\* A list that only gains nodes keeps what a cursor stands on.
LEMMA AheadWider ==
    ASSUME Ahead, Nodes(list) \subseteq Nodes(list'), UNCHANGED <<cursor, due>>
    PROVE  Ahead'
  BY DEF Ahead

LEMMA WriteMem ==
    ASSUME MemInv, NEW ops \in Batches, NEW heights \in Heights, Write(ops, heights)
    PROVE  MemInv'
  <1>1. FrameOf(ops) \in Seq(Record) /\ Len(ops) \in Nat
    BY FrameOfType DEF MemInv
  <1>2. heights \in [Keys -> 1 .. MaxLevel]
    BY DataPathAssumption
  <1>3. ListInv(list') /\ Nodes(list) \subseteq Nodes(list')
    <2>1. ListInv(list) /\ list' = SetFrame(list, FrameOf(ops), heights)
      BY DEF MemInv, Write
    <2> QED
      BY <2>1, <1>1, <1>2, SetFrameIs
  <1>4. Ahead'
    BY <1>3, AheadWider DEF MemInv, Write
  <1>5. frames' \in Seq(Seq(Record)) /\ nextSeq' \in Nat
    BY <1>1 DEF MemInv, Write
  <1> QED
    BY <1>3, <1>4, <1>5 DEF MemInv

LEMMA FlushMem ==
    ASSUME MemInv, Flush
    PROVE  MemInv'
  <1> DEFINE file == WriteFile(Snapshot(list))
  <1>1. CASE ~file.ok
    <2>1. UNCHANGED <<list, cursor, frames, nextSeq, due>>
      BY <1>1 DEF Flush
    <2> QED
      BY <2>1 DEF MemInv, Ahead
  <1>2. CASE file.ok
    <2>1. /\ list' = NewList /\ cursor' = Detach(list, cursor)
          /\ frames' = <<>> \/ frames' = frames
          /\ UNCHANGED <<nextSeq, due>>
      BY <1>2 DEF Flush
    <2>2. frames' \in Seq(Seq(Record)) /\ nextSeq' \in Nat /\ ListInv(list')
      <3>1. <<>> \in Seq(Seq(Record))
        OBVIOUS
      <3> HIDE DEF file
      <3> QED
        BY <3>1, <2>1, NewListInv DEF MemInv
    <2>3. CASE cursor.valid /\ ~cursor.detached
      <3> DEFINE own == KeysAfter(list, cursor.at, 1)
      <3>1. ListTyped(list) /\ Linked(list) /\ 1 \in 1 .. MaxLevel
        BY SkipListAssumption DEF MemInv, ListInv
      <3>2. Level(list, 1) = Nodes(list) \cup {NoKey} /\ Reaching(list, 1) = Nodes(list)
        BY <3>1, LevelIs
      <3>3. cursor.at \in Level(list, 1)
        BY <2>3, <3>2 DEF MemInv, Ahead
      <3>4. own \in Seq(Keys) /\ Sorted(own) /\ ToSet(own) = After(list, 1, cursor.at)
        BY <3>1, <3>3, KeysAfterIs
      <3>5. due \subseteq ToSet(own)
        BY <2>3, <3>2, <3>4 DEF MemInv, Ahead, After
      <3> HIDE DEF own
      <3>6. cursor' = [cursor EXCEPT !.detached = TRUE, !.own = own]
        BY <2>1, <2>3 DEF Detach, own
      <3>7. Ahead'
        BY <2>1, <2>3, <3>4, <3>5, <3>6 DEF MemInv, Ahead
      <3> QED
        BY <2>2, <3>7 DEF MemInv
    <2>4. CASE ~(cursor.valid /\ ~cursor.detached)
      <3>1. cursor' = cursor
        BY <2>1, <2>4 DEF Detach
      <3>2. Ahead'
        BY <2>1, <2>4, <3>1 DEF MemInv, Ahead
      <3> QED
        BY <2>2, <3>2 DEF MemInv
    <2> QED
      BY <2>3, <2>4
  <1> QED
    BY <1>1, <1>2

LEMMA RestartMem ==
    ASSUME MemInv, NEW heights \in Heights, Restart(heights)
    PROVE  MemInv'
  <1>1. FlattenSeq(frames) \in Seq(Record)
    BY FlattenedIs DEF MemInv
  <1>2. heights \in [Keys -> 1 .. MaxLevel]
    BY DataPathAssumption
  <1>3. ListInv(list')
    <2>1. list' = SetFrame(NewList, FlattenSeq(frames), heights)
      BY DEF Restart
    <2> QED
      BY <2>1, <1>1, <1>2, NewListInv, SetFrameIs
  <1>4. NoKey \in Places
    BY DEF Places
  <1>5. Ahead'
    BY <1>4, CursorOnType DEF Restart, NoCursor, Ahead
  <1>6. frames' \in Seq(Seq(Record)) /\ nextSeq' \in Nat
    BY DEF Restart, MemInv
  <1> QED
    BY <1>3, <1>5, <1>6 DEF MemInv

\* A cursor that is set anew is due what lies ahead of it.
LEMMA StandAtMem ==
    ASSUME MemInv, NEW c, StandAt(c),
           c \in [valid : BOOLEAN, at : Places, detached : BOOLEAN, own : Seq(Keys)],
           ~c.detached, c.at \in Nodes(list) \cup {NoKey}
    PROVE  MemInv'
  <1>1. /\ cursor' = c /\ due' = IF c.valid THEN {k \in Nodes(list) : KeyLess(c.at, k)} ELSE {}
        /\ UNCHANGED <<list, frames, nextSeq>>
    BY DEF StandAt
  <1>2. Nodes(list) \subseteq Keys
    BY TypedIs DEF MemInv, ListInv
  <1>3. Ahead'
    BY <1>1, <1>2 DEF Ahead
  <1> QED
    BY <1>1, <1>3 DEF MemInv

LEMMA ToFirstMem == MemInv /\ MemSeekToFirst => MemInv'
  <1> SUFFICES ASSUME MemInv, MemSeekToFirst PROVE MemInv'
    OBVIOUS
  <1>1. ListTyped(list) /\ Linked(list) /\ 1 \in 1 .. MaxLevel
    BY SkipListAssumption DEF MemInv, ListInv
  <1>2. Level(list, 1) = Nodes(list) \cup {NoKey} /\ Reaching(list, 1) = Nodes(list)
        /\ Nodes(list) \subseteq Keys
    BY <1>1, LevelIs
  <1> DEFINE x == list.next[NoKey][1]
  <1>3. Follows(list, 1, NoKey, x)
    BY <1>1, <1>2 DEF Linked
  <1> HIDE DEF x
  <1>4. x \in Nodes(list) \cup {NoKey} /\ x \in Places
    BY <1>2, <1>3 DEF Follows, Places
  <1>5. StandAt(CursorOn(x))
    BY DEF MemSeekToFirst, ToFirst, x
  <1> QED
    BY <1>4, <1>5, CursorOnType, StandAtMem

LEMMA SeekMem ==
    ASSUME MemInv, NEW target \in Targets, MemSeek(target)
    PROVE  MemInv'
  <1> DEFINE x == SeekNode(list, target)
  <1>1. x \in Nodes(list) \cup {NoKey}
    BY SeekNodeIs, KeysAreKeys DEF MemInv, ListInv
  <1>2. x \in Places
    BY <1>1, TypedIs DEF MemInv, ListInv, Places
  <1>3. StandAt(CursorOn(x))
    BY DEF MemSeek, ToNode
  <1> HIDE DEF x
  <1> QED
    BY <1>1, <1>2, <1>3, CursorOnType, StandAtMem

LEMMA NewIteratorMem == MemInv /\ MemNewIterator => MemInv'
  <1> SUFFICES ASSUME MemInv, MemNewIterator PROVE MemInv'
    OBVIOUS
  <1>1. /\ NewCursor \in [valid : BOOLEAN, at : Places, detached : BOOLEAN, own : Seq(Keys)]
        /\ ~NewCursor.detached /\ NewCursor.at = NoKey
    BY DEF NewCursor, Places
  <1>2. StandAt(NewCursor)
    BY DEF MemNewIterator
  <1> QED
    BY <1>1, <1>2, StandAtMem

\* A step of a cursor passes over nothing its caller is due.
LEMMA NextMem == MemInv /\ MemNext => MemInv'
  <1> SUFFICES ASSUME MemInv, MemNext PROVE MemInv'
    OBVIOUS
  <1>1. /\ cursor.valid /\ cursor' = Advance(list, cursor) /\ due' = due \ {cursor'.at}
        /\ UNCHANGED <<list, frames, nextSeq>>
    BY DEF MemNext
  <1>2. /\ cursor \in [valid : BOOLEAN, at : Places, detached : BOOLEAN, own : Seq(Keys)]
        /\ \A k \in due : k \in Keys /\ KeyLess(cursor.at, k)
    BY <1>1 DEF MemInv, Ahead
  <1>3. NoKey \in Places /\ Keys \subseteq Places /\ NoKey \notin Keys /\ Keys \subseteq Key
    BY KeysAreKeys DEF Places
  <1>4. CASE ~cursor.detached
    <2>1. ListTyped(list) /\ Linked(list) /\ 1 \in 1 .. MaxLevel
      BY SkipListAssumption DEF MemInv, ListInv
    <2>2. Level(list, 1) = Nodes(list) \cup {NoKey} /\ Reaching(list, 1) = Nodes(list)
          /\ Nodes(list) \subseteq Keys
      BY <2>1, LevelIs
    <2> DEFINE y == list.next[cursor.at][1]
    <2>3. due \subseteq Nodes(list) /\ cursor.at \in Level(list, 1)
      BY <1>1, <1>4, <2>2 DEF MemInv, Ahead
    <2>4. Follows(list, 1, cursor.at, y)
      BY <2>1, <2>3 DEF Linked
    <2>5. cursor' = CursorOn(y)
      BY <1>1, <1>4 DEF Advance
    <2> HIDE DEF y
    <2>6. y \in Nodes(list) \cup {NoKey} /\ y \in Places
      BY <2>2, <2>4, <1>3 DEF Follows
    <2>7. y = NoKey => due = {}
      BY <1>2, <2>2, <2>3, <2>4 DEF Follows
    <2>8. y # NoKey => \A k \in due \ {y} : KeyLess(y, k)
      BY <1>2, <2>2, <2>3, <2>4 DEF Follows
    <2>9. due' = due \ {y}
      BY <1>1, <2>5, <2>6, CursorOnType
    <2>10. Ahead'
      BY <1>1, <1>2, <2>3, <2>5, <2>6, <2>7, <2>8, <2>9, CursorOnType DEF Ahead
    <2> QED
      BY <1>1, <2>10 DEF MemInv
  <1>5. CASE cursor.detached /\ cursor.own = <<>>
    <2>1. due = {}
      BY <1>1, <1>5 DEF MemInv, Ahead, ToSet
    <2>2. cursor' = CursorOn(NoKey) /\ due' = {}
      BY <1>1, <1>5, <2>1 DEF Advance
    <2>3. Ahead'
      BY <1>3, <2>2, CursorOnType DEF Ahead
    <2> QED
      BY <1>1, <2>3 DEF MemInv
  <1>6. CASE cursor.detached /\ cursor.own # <<>>
    <2> DEFINE h == Head(cursor.own)
               r == Tail(cursor.own)
    <2>1. cursor.own \in Seq(Keys) /\ Sorted(cursor.own) /\ due \subseteq ToSet(cursor.own)
      BY <1>1, <1>2, <1>6 DEF MemInv, Ahead
    <2>2. /\ h \in Keys /\ r \in Seq(Keys) /\ Sorted(r)
          /\ ToSet(cursor.own) = {h} \cup ToSet(r) /\ \A k \in ToSet(r) : KeyLess(h, k)
      BY <2>1, <1>6, SortedRest
    <2>3. cursor' = [cursor EXCEPT !.at = h, !.own = r]
      BY <1>1, <1>2, <1>6 DEF Advance
    <2> HIDE DEF h, r
    <2>4. /\ cursor' \in [valid : BOOLEAN, at : Places, detached : BOOLEAN, own : Seq(Keys)]
          /\ cursor'.at = h /\ cursor'.own = r /\ cursor'.valid /\ cursor'.detached
      BY <1>1, <1>2, <1>3, <1>6, <2>2, <2>3
    <2>5. due' \subseteq ToSet(r) /\ \A k \in due' : k \in Keys
      BY <1>1, <1>2, <2>1, <2>2, <2>4
    <2>6. Ahead'
      BY <2>2, <2>4, <2>5 DEF Ahead
    <2> QED
      BY <1>1, <2>6 DEF MemInv
  <1> QED
    BY <1>4, <1>5, <1>6

LEMMA MemStep == MemInv /\ [Next]_vars => MemInv'
  <1> SUFFICES ASSUME MemInv, [Next]_vars PROVE MemInv'
    OBVIOUS
  <1> DEFINE Same == UNCHANGED <<list, frames, nextSeq, cursor, due>>
  <1>1. ASSUME Same PROVE MemInv'
    BY <1>1 DEF MemInv, Ahead
  <1>2. CASE \E ops \in Batches, heights \in Heights : Write(ops, heights)
    BY <1>2, WriteMem
  <1>3. CASE \E heights \in Heights : Restart(heights)
    BY <1>3, RestartMem
  <1>4. CASE \E i \in DOMAIN tables : Damage(i)
    BY <1>1, <1>4 DEF Damage
  <1>5. CASE Flush
    BY <1>5, FlushMem
  <1>6. CASE Compact
    BY <1>1, <1>6 DEF Compact
  <1>7. CASE \E target \in Targets : Seek(target)
    BY <1>1, <1>7 DEF Seek, MoveTo
  <1>8. CASE \E target \in Targets : MemSeek(target)
    BY <1>8, SeekMem
  <1>9. CASE NewIterator
    <2>1. UNCHANGED <<list, frames, nextSeq>> /\ cursor' = CursorOn(NoKey) /\ due' = {}
      BY <1>9 DEF NewIterator, NoCursor
    <2>2. NoKey \in Places
      BY DEF Places
    <2>3. Ahead'
      BY <2>1, <2>2, CursorOnType DEF Ahead
    <2> QED
      BY <2>1, <2>3 DEF MemInv
  <1>10. CASE SeekToFirst
    BY <1>1, <1>10 DEF SeekToFirst, MoveTo
  <1>11. CASE IterNext
    BY <1>1, <1>11 DEF IterNext, MoveTo
  <1>12. CASE MemNewIterator
    BY <1>12, NewIteratorMem
  <1>13. CASE MemSeekToFirst
    BY <1>13, ToFirstMem
  <1>14. CASE MemNext
    BY <1>14, NextMem
  <1>15. CASE UNCHANGED vars
    BY <1>1, <1>15 DEF vars
  <1> QED
    BY <1>2, <1>3, <1>4, <1>5, <1>6, <1>7, <1>8, <1>9, <1>10, <1>11, <1>12, <1>13, <1>14,
       <1>15 DEF Next

\* The memtable's invariant holds in every state: the list is well formed, its
\* counters are those of what it holds, and no cursor has lost sight of a key its
\* caller is due.
THEOREM MemInvariant == Spec => []MemInv
  <1>1. Init => MemInv
    BY MemInit
  <1>2. MemInv /\ [Next]_vars => MemInv'
    BY MemStep
  <1> QED
    BY <1>1, <1>2, PTL DEF Spec

\* SkipList.set: whatever heights randomLevel draws, and however writes, flushes
\* and replays mix, every level of the list is in order and is the part of the one
\* below whose towers reach it.
THEOREM TowersNested == Spec => []TowersAgree
  <1>1. MemInv => TowersAgree
    BY LinkedIsNested DEF MemInv, ListInv, TowersAgree
  <1> QED
    BY <1>1, MemInvariant, PTL

\* SkipList.set, estimateBytes: the two counters that decide when the memtable is
\* flushed are the number and the size of the entries held, however often and with
\* whatever a key was overwritten.
THEOREM BytesExact == Spec => []BytesAgree
  <1>1. MemInv => BytesAgree
    BY DEF MemInv, ListInv, BytesAgree
  <1> QED
    BY <1>1, MemInvariant, PTL

\* Iterator: a walk with the lock released between its calls shows every key that
\* was ahead of it when it was set, through writes, replays and Clear.
THEOREM WalkComplete == Spec => []CursorComplete
  <1>1. MemInv => CursorComplete
    BY DEF MemInv, Ahead, CursorComplete
  <1> QED
    BY <1>1, MemInvariant, PTL

-----------------------------------------------------------------------------
(* The list is a function from keys to versions.                             *)

\* The records of the log.
Logged == FrameRecords(ToSet(frames))

\* Every record of the log has a number of its own, and no entry of the list has
\* one that was not given out.
NumberedInv ==
    /\ \A r \in Logged : 0 < r.seq /\ r.seq =< nextSeq
    /\ \A r, s \in Logged : r.seq = s.seq => r = s
    /\ \A k \in Nodes(list) : 0 < list.entry[k].seq /\ list.entry[k].seq =< nextSeq

LogInv == MemInv /\ NumberedInv

VersionsIn(frame, k) == {VersionOf(r) : r \in {s \in ToSet(frame) : s.key = k}}

FrameMakes(l, frame, heights, k) ==
    LET m == SetFrame(l, frame, heights)
        V == VersionsIn(frame, k)
    IN  /\ MemOf(m, k) = Newest({MemOf(l, k)} \cup V)
        /\ k \notin Nodes(l) => MemOf(m, k) = Newest(V)

\* A frame with numbers of its own makes the list what MemApply makes of it.
LEMMA SetFrameNewest ==
    ASSUME NEW l, ListInv(l), NEW frame \in Seq(Record), NEW heights \in [Keys -> 1 .. MaxLevel],
           \A r \in ToSet(frame) : 0 < r.seq,
           \A r, s \in ToSet(frame) : r.seq = s.seq => r = s,
           \A k \in Nodes(l) : 0 < l.entry[k].seq /\ \A r \in ToSet(frame) : l.entry[k].seq # r.seq,
           NEW k \in Keys
    PROVE  FrameMakes(l, frame, heights, k)
  <1>1. PICK m : m = SetFrame(l, frame, heights)
    OBVIOUS
  <1>2. PICK V : V = VersionsIn(frame, k)
    OBVIOUS
  <1>3. /\ ListInv(m)
        /\ Nodes(m) = Nodes(l) \cup {r.key : r \in ToSet(frame)}
        /\ k \in Nodes(m) =>
              /\ m.entry[k] \in (IF k \in Nodes(l) THEN {l.entry[k]} ELSE {}) \cup V
              /\ k \in Nodes(l) => l.entry[k].seq =< m.entry[k].seq
              /\ \A r \in ToSet(frame) : r.key = k => r.seq =< m.entry[k].seq
    BY <1>1, <1>2, SetFrameIs DEF VersionsIn
  <1>4. \A r \in ToSet(frame) : r \in Record
    BY DEF ToSet
  <1>5. /\ V \in SUBSET Version
        /\ \A v \in V : 0 < v.seq /\ \E r \in ToSet(frame) : r.key = k /\ v = VersionOf(r) /\ v.seq = r.seq
    BY <1>2, <1>4 DEF VersionsIn, VersionOf, Version, Record
  <1>6. \A v, w \in V : v.seq = w.seq => v = w
    BY <1>5
  <1>7. l.entry \in [Nodes(l) -> Version]
    BY TypedIs DEF ListInv
  <1>8. NoVersion \in Version /\ NoVersion.seq = 0
    BY DEF NoVersion, Version, Contents
  <1>9. MemOf(l, k) \in Version
    BY <1>7, <1>8 DEF MemOf
  <1> DEFINE S == {MemOf(l, k)} \cup V
  <1>10. CASE k \in Nodes(m)
    <2>1. PICK v : v = m.entry[k]
      OBVIOUS
    <2>2. MemOf(m, k) = v
      BY <1>10, <2>1 DEF MemOf
    <2>3. k \in Nodes(l) => MemOf(l, k) = l.entry[k]
      BY DEF MemOf
    <2>4. k \notin Nodes(l) => MemOf(l, k) = NoVersion
      BY DEF MemOf
    <2>5. v \in S /\ (k \notin Nodes(l) => v \in V)
      BY <1>3, <1>10, <2>1, <2>3
    <2>6. v \in Version /\ 0 < v.seq /\ v.seq \in Nat
      BY <2>3, <2>5, <1>3, <1>5, <1>7, <1>9, <1>10, <2>1 DEF Version
    <2>7. ASSUME NEW w \in S PROVE w.seq =< v.seq /\ (w.seq = v.seq => w = v)
      <3>1. CASE w \in V
        <4>1. w.seq =< v.seq
          BY <3>1, <1>3, <1>5, <1>10, <2>1
        <4>2. v = MemOf(l, k) /\ k \in Nodes(l) => w.seq # v.seq
          BY <3>1, <1>5, <2>3
        <4> QED
          BY <3>1, <4>1, <4>2, <2>5, <1>6
      <3>2. CASE w = MemOf(l, k) /\ k \in Nodes(l)
        <4>1. w.seq =< v.seq
          BY <3>2, <1>3, <1>10, <2>1, <2>3
        <4>2. v \in V => w.seq # v.seq
          BY <3>2, <1>5, <2>3
        <4> QED
          BY <3>2, <4>1, <4>2, <2>5
      <3>3. CASE w = NoVersion
        BY <3>3, <1>8, <2>6
      <3> QED
        BY <3>1, <3>2, <3>3, <2>4
    <2>8. S \in SUBSET Version
      BY <1>5, <1>9
    <2> HIDE DEF S
    <2>9. Newest(S) = v
      BY <2>5, <2>7, <2>8, NewestIs
    <2>10. k \notin Nodes(l) => Newest(V) = v
      <3>1. \A w \in V : w \in S
        BY DEF S
      <3> QED
        BY <3>1, <2>5, <2>7, <1>5, NewestIs
    <2> QED
      BY <1>1, <1>2, <2>2, <2>9, <2>10 DEF S, FrameMakes
  <1>11. CASE k \notin Nodes(m)
    <2>1. V = {} /\ MemOf(l, k) = NoVersion /\ MemOf(m, k) = NoVersion
      BY <1>3, <1>5, <1>11 DEF MemOf
    <2>2. Newest({NoVersion}) = NoVersion
      BY <1>8, NewestIs
    <2>3. Newest({}) = NoVersion
      BY DEF Newest
    <2> QED
      BY <1>1, <1>2, <2>1, <2>2, <2>3 DEF FrameMakes
  <1> QED
    BY <1>10, <1>11

\* The numbers of a new frame.
LEMMA FrameOfIs ==
    ASSUME NEW ops \in Batches, nextSeq \in Nat
    PROVE  /\ \A r \in ToSet(FrameOf(ops)) : nextSeq < r.seq /\ r.seq =< nextSeq + Len(ops) /\ r.seq \in Nat
           /\ \A r, s \in ToSet(FrameOf(ops)) : r.seq = s.seq => r = s
  <1> DEFINE n == Len(ops)
             frame == FrameOf(ops)
  <1>1. n \in Nat /\ frame \in Seq(Record) /\ Len(frame) = n
    BY FrameOfType
  <1>2. DOMAIN frame = 1 .. n
    <2> HIDE DEF frame, n
    <2> QED
      BY <1>1
  <1>3. \A i \in 1 .. n : frame[i].seq = nextSeq + i
    BY <1>2 DEF FrameOf
  <1> HIDE DEF frame, n
  <1>4. \A r \in ToSet(frame) : \E i \in 1 .. n : r = frame[i] /\ r.seq = nextSeq + i
    BY <1>2, <1>3 DEF ToSet
  <1> QED
    BY <1>1, <1>4 DEF frame, n

LEMMA FrameRecordsAppend ==
    ASSUME NEW S, NEW fs \in Seq(Seq(S)), NEW f \in Seq(S)
    PROVE  FrameRecords(ToSet(Append(fs, f))) = FrameRecords(ToSet(fs)) \cup ToSet(f)
  <1>1. ToSet(Append(fs, f)) = ToSet(fs) \cup {f}
    <2>1. /\ Len(fs) \in Nat /\ DOMAIN fs = 1 .. Len(fs)
          /\ DOMAIN Append(fs, f) = 1 .. Len(fs) + 1
          /\ Append(fs, f)[Len(fs) + 1] = f
          /\ \A i \in 1 .. Len(fs) : Append(fs, f)[i] = fs[i]
      OBVIOUS
    <2>2. 1 .. Len(fs) + 1 = (1 .. Len(fs)) \cup {Len(fs) + 1}
      BY <2>1
    <2> QED
      BY <2>1, <2>2 DEF ToSet
  <1> QED
    BY <1>1 DEF FrameRecords

LEMMA NumberedInit == Init => NumberedInv
  <1> SUFFICES ASSUME Init PROVE NumberedInv
    OBVIOUS
  <1>1. frames = <<>> /\ Nodes(list) = {}
    BY NewListLinked DEF Init
  <1>2. Logged = {}
    BY <1>1 DEF Logged, FrameRecords, ToSet
  <1> QED
    BY <1>1, <1>2 DEF NumberedInv

\* What is in the list after a frame was there before, or is in the frame.
LEMMA SetFrameFrom ==
    ASSUME NEW l, ListInv(l), NEW frame \in Seq(Record), NEW heights \in [Keys -> 1 .. MaxLevel],
           NEW n \in Nat, \A k \in Nodes(l) : 0 < l.entry[k].seq /\ l.entry[k].seq =< n,
           \A r \in ToSet(frame) : 0 < r.seq /\ r.seq =< n
    PROVE  LET m == SetFrame(l, frame, heights)
           IN  \A k \in Nodes(m) : 0 < m.entry[k].seq /\ m.entry[k].seq =< n
  <1>1. PICK m : m = SetFrame(l, frame, heights)
    OBVIOUS
  <1>2. SUFFICES ASSUME NEW k \in Nodes(m) PROVE 0 < m.entry[k].seq /\ m.entry[k].seq =< n
    BY <1>1
  <1>3. m.entry[k] \in (IF k \in Nodes(l) THEN {l.entry[k]} ELSE {}) \cup
                       {VersionOf(r) : r \in {s \in ToSet(frame) : s.key = k}}
    BY <1>1, SetFrameIs
  <1> QED
    BY <1>3 DEF VersionOf

LEMMA NumberedStep == LogInv /\ [Next]_vars => NumberedInv'
  <1> SUFFICES ASSUME LogInv, [Next]_vars PROVE NumberedInv'
    OBVIOUS
  <1>1. ListInv(list) /\ frames \in Seq(Seq(Record)) /\ nextSeq \in Nat /\ NumberedInv
    BY DEF LogInv, MemInv
  <1>2. ASSUME UNCHANGED <<list, frames, nextSeq>> PROVE NumberedInv'
    BY <1>1, <1>2 DEF NumberedInv, Logged
  <1>3. ASSUME NEW ops \in Batches, NEW heights \in Heights, Write(ops, heights)
        PROVE  NumberedInv'
    <2> DEFINE frame == FrameOf(ops)
               n == Len(ops)
    <2>1. frame \in Seq(Record) /\ n \in Nat /\ heights \in [Keys -> 1 .. MaxLevel]
      BY <1>1, FrameOfType, DataPathAssumption
    <2>2. /\ \A r \in ToSet(frame) : nextSeq < r.seq /\ r.seq =< nextSeq + n /\ r.seq \in Nat
          /\ \A r, s \in ToSet(frame) : r.seq = s.seq => r = s
      BY <1>1, FrameOfIs
    <2>3. /\ frames' = Append(frames, frame) /\ nextSeq' = nextSeq + n
          /\ list' = SetFrame(list, frame, heights)
      BY <1>3 DEF Write
    <2> HIDE DEF frame, n
    <2>4. Logged' = Logged \cup ToSet(frame)
      BY <1>1, <2>1, <2>3, FrameRecordsAppend DEF Logged
    <2>5. \A r \in Logged : r.seq \in Nat
      <3>1. \A f \in ToSet(frames) : f \in Seq(Record)
        BY <1>1 DEF ToSet
      <3>2. \A f \in ToSet(frames) : \A r \in ToSet(f) : r \in Record
        BY <3>1 DEF ToSet
      <3> QED
        BY <3>2 DEF Logged, FrameRecords, Record
    <2>6. \A r \in Logged' : 0 < r.seq /\ r.seq =< nextSeq'
      BY <1>1, <2>1, <2>2, <2>3, <2>4, <2>5 DEF NumberedInv
    <2>7. \A r, s \in Logged' : r.seq = s.seq => r = s
      BY <1>1, <2>2, <2>4, <2>5 DEF NumberedInv
    <2>8. \A k \in Nodes(list) : list.entry[k].seq \in Nat
      <3>1. list.entry \in [Nodes(list) -> Version]
        BY <1>1, TypedIs DEF ListInv
      <3> QED
        BY <3>1 DEF Version
    <2>9. /\ \A k \in Nodes(list) : 0 < list.entry[k].seq /\ list.entry[k].seq =< nextSeq + n
          /\ \A r \in ToSet(frame) : 0 < r.seq /\ r.seq =< nextSeq + n
      BY <1>1, <2>1, <2>2, <2>8 DEF NumberedInv
    <2>10. \A k \in Nodes(list') : 0 < list'.entry[k].seq /\ list'.entry[k].seq =< nextSeq'
      <3>1. nextSeq + n \in Nat
        BY <1>1, <2>1
      <3> QED
        BY <3>1, <1>1, <2>1, <2>3, <2>9, SetFrameFrom
    <2> QED
      BY <2>6, <2>7, <2>10 DEF NumberedInv
  <1>4. ASSUME NEW heights \in Heights, Restart(heights) PROVE NumberedInv'
    <2> DEFINE flat == FlattenSeq(frames)
    <2>1. flat \in Seq(Record) /\ ToSet(flat) = Logged /\ heights \in [Keys -> 1 .. MaxLevel]
      BY <1>1, FlattenedIs, DataPathAssumption DEF Logged, FrameRecords
    <2>2. list' = SetFrame(NewList, flat, heights) /\ frames' = frames /\ nextSeq' = nextSeq
      BY <1>4 DEF Restart
    <2> HIDE DEF flat
    <2>3. \A k \in Nodes(list') : 0 < list'.entry[k].seq /\ list'.entry[k].seq =< nextSeq
      <3>1. Nodes(NewList) = {} /\ ListInv(NewList)
        BY NewListLinked, NewListInv
      <3>2. \A k \in Nodes(NewList) : 0 < NewList.entry[k].seq /\ NewList.entry[k].seq =< nextSeq
        BY <3>1
      <3> QED
        BY <3>1, <3>2, <1>1, <2>1, <2>2, SetFrameFrom DEF NumberedInv
    <2> QED
      BY <1>1, <2>2, <2>3 DEF NumberedInv, Logged
  <1>5. CASE Flush
    <2> DEFINE file == WriteFile(Snapshot(list))
    <2>1. \/ UNCHANGED <<list, frames, nextSeq>>
          \/ list' = NewList /\ (frames' = <<>> \/ frames' = frames) /\ nextSeq' = nextSeq
      <3> HIDE DEF file
      <3> QED
        BY <1>5 DEF Flush
    <2>2. CASE list' = NewList /\ (frames' = <<>> \/ frames' = frames) /\ nextSeq' = nextSeq
      <3>1. Nodes(list') = {}
        BY <2>2, NewListLinked
      <3>2. Logged' \in {{}, Logged}
        BY <2>2 DEF Logged, FrameRecords, ToSet
      <3> QED
        BY <1>1, <2>2, <3>1, <3>2 DEF NumberedInv
    <2> QED
      BY <1>2, <2>1, <2>2
  <1>6. CASE \E i \in DOMAIN tables : Damage(i)
    BY <1>2, <1>6 DEF Damage
  <1>7. CASE Compact
    BY <1>2, <1>7 DEF Compact
  <1>8. CASE \E target \in Targets : Seek(target) \/ MemSeek(target)
    BY <1>2, <1>8 DEF Seek, MoveTo, MemSeek, StandAt
  <1>9. CASE NewIterator \/ SeekToFirst \/ IterNext
    BY <1>2, <1>9 DEF NewIterator, SeekToFirst, IterNext, MoveTo
  <1>10. CASE MemNewIterator \/ MemSeekToFirst \/ MemNext
    BY <1>2, <1>10 DEF MemNewIterator, MemSeekToFirst, MemNext, StandAt
  <1>11. CASE UNCHANGED vars
    BY <1>2, <1>11 DEF vars
  <1> QED
    BY <1>3, <1>4, <1>5, <1>6, <1>7, <1>8, <1>9, <1>10, <1>11 DEF Next

THEOREM LogInvariant == Spec => []LogInv
  <1>1. Init => LogInv
    BY MemInit, NumberedInit DEF LogInv
  <1>2. LogInv /\ [Next]_vars => LogInv'
    BY MemStep, NumberedStep DEF LogInv
  <1> QED
    BY <1>1, <1>2, PTL DEF Spec

LEMMA ListTableIs ==
    ASSUME ListInv(list)
    PROVE  ListTable = [k \in Keys |-> MemOf(list, k)]
  <1>1. Keys \subseteq Targets
    BY DataPathAssumption
  <1> QED
    BY <1>1, MemGetIs DEF ListTable, ListInv

LEMMA ListTableNext ==
    ASSUME ListInv(list)'
    PROVE  ListTable' = [k \in Keys |-> MemOf(list', k)]
  <1>1. Keys \subseteq Targets
    BY DataPathAssumption
  <1> QED
    BY <1>1, MemGetIs DEF ListTable, ListInv

LEMMA TableOfNewList == [k \in Keys |-> MemOf(NewList, k)] = EmptyTable
  BY NewListLinked DEF MemOf, EmptyTable

LEMMA StoreOperators ==
    /\ \A t, f : Store!MemApply(t, f) = MemApply(t, f)
    /\ \A fs : Store!TableOf(Store!FrameRecords(Store!ToSet(fs))) = TableOf(FrameRecords(ToSet(fs)))
    /\ \A t : Store!KeysIn(t) = KeysIn(t)
    /\ Store!EmptyTable = EmptyTable
  BY DEF Store!MemApply, MemApply, Store!TableOf, TableOf, Store!FrameRecords, FrameRecords, Store!ToSet,
         ToSet, Store!VersionOf, VersionOf, Store!Newest, Newest, Store!NoVersion, NoVersion,
         Store!KeysIn, KeysIn, Store!Holds, Holds, Store!EmptyTable, EmptyTable

LEMMA WriteIsMemWrite ==
    ASSUME LogInv, LogInv', NEW ops \in Batches, NEW heights \in Heights, Write(ops, heights)
    PROVE  Store!MemWrite
  <1> DEFINE frame == FrameOf(ops)
  <1>1. ListInv(list) /\ ListInv(list)' /\ frames \in Seq(Seq(Record)) /\ nextSeq \in Nat /\ NumberedInv
    BY DEF LogInv, MemInv
  <1>2. frame \in Seq(Record) /\ heights \in [Keys -> 1 .. MaxLevel]
    BY <1>1, FrameOfType, DataPathAssumption
  <1>3. /\ \A r \in ToSet(frame) : nextSeq < r.seq /\ r.seq \in Nat
        /\ \A r, s \in ToSet(frame) : r.seq = s.seq => r = s
    BY <1>1, FrameOfIs
  <1>4. /\ frames' = Append(frames, frame) /\ nextSeq' = nextSeq + Len(ops)
        /\ list' = SetFrame(list, frame, heights)
    BY DEF Write
  <1>5. frame = Store!Numbered(ops, nextSeq)
    BY DEF FrameOf, Store!Numbered
  <1> HIDE DEF frame
  <1>6. \A k \in Nodes(list) : 0 < list.entry[k].seq /\ \A r \in ToSet(frame) : list.entry[k].seq # r.seq
    BY <1>1, <1>3 DEF NumberedInv
  <1>7. \A r \in ToSet(frame) : 0 < r.seq
    BY <1>1, <1>3
  <1>8. \A k \in Keys : MemOf(list', k) = Newest({MemOf(list, k)} \cup VersionsIn(frame, k))
    <2> TAKE k \in Keys
    <2>1. PICK l : l = list
      OBVIOUS
    <2>2. ListInv(l) /\ \A j \in Nodes(l) : 0 < l.entry[j].seq /\ \A r \in ToSet(frame) : l.entry[j].seq # r.seq
      BY <2>1, <1>1, <1>6
    <2>3. FrameMakes(l, frame, heights, k)
      BY <2>2, <1>2, <1>3, <1>7, SetFrameNewest
    <2> QED
      BY <2>1, <2>3, <1>4 DEF FrameMakes
  <1>9. ListTable' = MemApply(ListTable, frame)
    BY <1>1, <1>8, ListTableIs, ListTableNext DEF MemApply, VersionsIn
  <1> QED
    BY <1>4, <1>5, <1>9, StoreOperators DEF Store!MemWrite

LEMMA ClearIsMemFlush ==
    ASSUME LogInv, LogInv', list.size > 0, list' = NewList, frames' = <<>> \/ frames' = frames,
           nextSeq' = nextSeq
    PROVE  Store!MemFlush
  <1>1. ListInv(list) /\ ListInv(list)' /\ NumberedInv
    BY DEF LogInv, MemInv
  <1>2. Nodes(list) # {}
    <2>1. list.size = Cardinality(Nodes(list))
      BY <1>1 DEF ListInv, Accounted
    <2>2. Cardinality({}) = 0
      BY FS_EmptySet
    <2>3. ASSUME Nodes(list) = {} PROVE FALSE
      <3>1. list.size = 0
        BY <2>1, <2>2, <2>3
      <3> QED
        BY <3>1
    <2> QED
      BY <2>3
  <1>3. PICK k \in Nodes(list) : TRUE
    BY <1>2
  <1>4. k \in Keys
    BY <1>1, TypedIs DEF ListInv
  <1>5. ListTable[k] = list.entry[k]
    BY <1>1, <1>3, <1>4, ListTableIs DEF MemOf
  <1>6. k \in KeysIn(ListTable)
    BY <1>1, <1>3, <1>4, <1>5 DEF KeysIn, Holds, NumberedInv
  <1>7. ListTable' = EmptyTable
    BY <1>1, ListTableNext, TableOfNewList
  <1> QED
    BY <1>6, <1>7, StoreOperators DEF Store!MemFlush

LEMMA FlushIsMemFlush ==
    ASSUME LogInv, LogInv', Flush
    PROVE  Store!MemFlush \/ UNCHANGED <<ListTable, frames, nextSeq>>
  <1> DEFINE file == WriteFile(Snapshot(list))
  <1>1. \/ UNCHANGED <<list, frames, nextSeq>>
        \/ /\ list' = NewList /\ (frames' = <<>> \/ frames' = frames) /\ nextSeq' = nextSeq
           /\ list.size > 0
    <2> HIDE DEF file
    <2> QED
      BY DEF Flush
  <1>2. CASE UNCHANGED <<list, frames, nextSeq>>
    BY <1>2 DEF ListTable
  <1> QED
    BY <1>1, <1>2, ClearIsMemFlush

LEMMA RestartIsMemRestart ==
    ASSUME LogInv, LogInv', NEW heights \in Heights, Restart(heights)
    PROVE  Store!MemRestart
  <1> DEFINE flat == FlattenSeq(frames)
  <1>1. ListInv(list)' /\ frames \in Seq(Seq(Record)) /\ NumberedInv
    BY DEF LogInv, MemInv
  <1>2. flat \in Seq(Record) /\ ToSet(flat) = Logged /\ heights \in [Keys -> 1 .. MaxLevel]
    BY <1>1, FlattenedIs, DataPathAssumption DEF Logged, FrameRecords
  <1>3. list' = SetFrame(NewList, flat, heights) /\ frames' = frames /\ nextSeq' = nextSeq
    BY DEF Restart
  <1> HIDE DEF flat
  <1>4. Nodes(NewList) = {} /\ ListInv(NewList)
    BY NewListLinked, NewListInv
  <1>5. \A r \in ToSet(flat) : 0 < r.seq
    BY <1>1, <1>2 DEF NumberedInv
  <1>6. \A r, s \in ToSet(flat) : r.seq = s.seq => r = s
    BY <1>1, <1>2 DEF NumberedInv
  <1>7. \A k \in Keys : MemOf(list', k) = Newest(VersionsIn(flat, k))
    <2> TAKE k \in Keys
    <2>1. PICK l : l = NewList
      OBVIOUS
    <2>2. ListInv(l) /\ Nodes(l) = {}
      BY <2>1, <1>4
    <2>3. /\ \A j \in Nodes(l) : 0 < l.entry[j].seq /\ \A r \in ToSet(flat) : l.entry[j].seq # r.seq
          /\ k \notin Nodes(l)
      BY <2>2
    <2>4. FrameMakes(l, flat, heights, k)
      <3>1. ListInv(l) /\ flat \in Seq(Record) /\ heights \in [Keys -> 1 .. MaxLevel]
        BY <2>2, <1>2
      <3> QED
        BY <3>1, <2>3, <1>5, <1>6, SetFrameNewest
    <2> QED
      BY <2>1, <2>3, <2>4, <1>3 DEF FrameMakes
  <1>8. ListTable' = TableOf(Logged)
    BY <1>1, <1>2, <1>7, ListTableNext DEF TableOf, VersionsIn
  <1> QED
    BY <1>3, <1>8, StoreOperators DEF Store!MemRestart, Logged

LEMMA ListStep ==
    ASSUME LogInv, LogInv', [Next]_vars
    PROVE  \/ Store!MemWrite \/ Store!MemFlush \/ Store!MemRestart
           \/ UNCHANGED <<ListTable, frames, nextSeq>>
  <1>1. UNCHANGED <<list, frames, nextSeq>> => UNCHANGED <<ListTable, frames, nextSeq>>
    BY DEF ListTable
  <1>2. CASE \E ops \in Batches, heights \in Heights : Write(ops, heights)
    BY <1>2, WriteIsMemWrite
  <1>3. CASE \E heights \in Heights : Restart(heights)
    BY <1>3, RestartIsMemRestart
  <1>4. CASE Flush
    BY <1>4, FlushIsMemFlush
  <1>5. CASE \E i \in DOMAIN tables : Damage(i)
    BY <1>1, <1>5 DEF Damage
  <1>6. CASE Compact
    BY <1>1, <1>6 DEF Compact
  <1>7. CASE \E target \in Targets : Seek(target) \/ MemSeek(target)
    BY <1>1, <1>7 DEF Seek, MoveTo, MemSeek, StandAt
  <1>8. CASE NewIterator \/ SeekToFirst \/ IterNext
    BY <1>1, <1>8 DEF NewIterator, SeekToFirst, IterNext, MoveTo
  <1>9. CASE MemNewIterator \/ MemSeekToFirst \/ MemNext
    BY <1>1, <1>9 DEF MemNewIterator, MemSeekToFirst, MemNext, StandAt
  <1>10. CASE UNCHANGED vars
    BY <1>1, <1>10 DEF vars
  <1> QED
    BY <1>2, <1>3, <1>4, <1>5, <1>6, <1>7, <1>8, <1>9, <1>10 DEF Next

\* MemTable: what Get finds in the skip list is, through every write, flush and
\* replay, what the plain function from keys to versions holds that TableStore, and
\* LSMKV with it, takes the memtable to be.
THEOREM ListIsTable == Spec => Store!MemSpec
  <1>1. Init => Store!MemInit
    <2> SUFFICES ASSUME Init PROVE Store!MemInit
      OBVIOUS
    <2>1. list = NewList /\ frames = <<>> /\ nextSeq = 0
      BY DEF Init
    <2>2. ListTable = EmptyTable
      BY <2>1, NewListInv, ListTableIs, TableOfNewList
    <2> QED
      BY <2>1, <2>2, StoreOperators DEF Store!MemInit
  <1>2. LogInv /\ LogInv' /\ [Next]_vars =>
           [Store!MemWrite \/ Store!MemFlush \/ Store!MemRestart]_<<ListTable, frames, nextSeq>>
    BY ListStep
  <1> QED
    BY <1>1, <1>2, LogInvariant, PTL DEF Spec, Store!MemSpec
=============================================================================
