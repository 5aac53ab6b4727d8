----------------------------- MODULE LockProofs ----------------------------
(***************************************************************************)
(* The LOCK file, for every set of processes, and the log under it, for    *)
(* every set of keys, values and batches and every bound.                  *)
(***************************************************************************)
EXTENDS LockedLog, VersionsProofs

-----------------------------------------------------------------------------
(* The lock by itself.                                                       *)

NewFile(p) == [there |-> TRUE, by |-> p, old |-> FALSE, orphan |-> FALSE]

LEMMA NewFileType == \A p \in Procs : NewFile(p) \in LockFile /\ NewFile(p).by = p
  BY DEF NewFile, LockFile

LEMMA OnDiskType ==
    ASSUME LockTypeOK, lockFile.there
    PROVE  lockFile \in LockFile /\ lockFile.by \in Procs
  <1>1. CASE lockFile = Absent
    <2>1. lockFile.there = FALSE
      BY <1>1 DEF Absent
    <2> QED
      BY <2>1
  <1>2. CASE lockFile \in LockFile
    BY <1>2 DEF LockFile
  <1> QED
    BY <1>1, <1>2 DEF LockTypeOK

LEMMA LockTypeInit == LockInit => LockTypeOK
  BY DEF LockInit, LockTypeOK, Steps

LEMMA LockTypeNext == LockTypeOK /\ [LockNext]_lockVars => LockTypeOK'
  <1> SUFFICES ASSUME LockTypeOK, [LockNext]_lockVars PROVE LockTypeOK'
    OBVIOUS
  <1> USE DEF LockTypeOK, Goes, Steps
  <1>1. ASSUME NEW p \in Procs, Call(p)
        PROVE  /\ lockFile' \in LockFile \cup {Absent}
               /\ step' \in [Procs -> Steps]
    <2>1. CASE Acquire(p) \/ Stat(p) \/ WriteContent(p)
      BY <2>1 DEF Acquire, Stat, WriteContent
    <2>2. CASE RemoveStale(p) \/ WriteContentFails(p) \/ Release(p)
      BY <2>2 DEF RemoveStale, WriteContentFails, Release, GiveUp
    <2>3. CASE TryCreate(p) \/ Recreate(p)
      <3>1. lockFile' = lockFile \/ lockFile' = NewFile(p)
        BY <2>3 DEF TryCreate, Recreate, Create, NewFile
      <3>2. lockFile' \in LockFile \cup {Absent}
        BY <3>1, NewFileType
      <3>3. \E s \in Steps : step' = [step EXCEPT ![p] = s]
        BY <2>3 DEF TryCreate, Recreate, Create
      <3> QED
        BY <3>2, <3>3
    <2>4. CASE KillProcess(p)
      BY <2>4 DEF KillProcess, LockFile, Absent
    <2> QED
      BY <1>1, <2>1, <2>2, <2>3, <2>4 DEF Call
  <1>2. ASSUME NEW p \in Procs, Call(p) PROVE aged' \in BOOLEAN
    BY <1>2 DEF Call
  <1>3. CASE Age
    <2>1. lockFile' \in LockFile
      BY <1>3, OnDiskType DEF Age, LockFile
    <2> QED
      BY <1>3, <2>1 DEF Age
  <1>4. CASE UNCHANGED lockVars
    BY <1>4 DEF lockVars
  <1> QED
    BY <1>1, <1>2, <1>3, <1>4 DEF LockNext

\* The variables keep their types.
THEOREM LockTypeCorrect == LockSpec => []LockTypeOK
  BY LockTypeInit, LockTypeNext, PTL DEF LockSpec

-----------------------------------------------------------------------------
(* Mutual exclusion, as long as no lock file gets older than StaleAge: a     *)
(* process that has created the file is its creator for as long as it is     *)
(* inside, because nothing else removes a file that is not old.              *)

OwnedBy(p) ==
    /\ step[p] \notin {"remove", "recreate"}
    /\ Inside(p) => lockFile.there /\ lockFile.by = p

Owned == ~aged => (lockFile.there => ~lockFile.old) /\ \A p \in Procs : OwnedBy(p)

LEMMA OwnedInit == LockInit => Owned
  BY DEF LockInit, Owned, OwnedBy, Inside, Absent

LEMMA OwnedNext == LockTypeOK /\ Owned /\ [LockNext]_lockVars => Owned'
  <1> SUFFICES ASSUME LockTypeOK, Owned, [LockNext]_lockVars, ~aged' PROVE Owned'
    BY DEF Owned
  <1>1. CASE Age
    BY <1>1 DEF Age
  <1>2. CASE UNCHANGED lockVars
    BY <1>2 DEF lockVars, Owned, OwnedBy, Inside
  <1>3. ASSUME NEW p \in Procs, Call(p) PROVE Owned'
    <2>1. ~aged /\ (lockFile.there => ~lockFile.old) /\ \A q \in Procs : OwnedBy(q)
      BY <1>3 DEF Call, Owned
    <2> USE DEF LockTypeOK, OwnedBy, Inside, Goes
    <2>2. CASE Acquire(p) \/ Stat(p) \/ WriteContent(p)
      BY <2>1, <2>2 DEF Owned, Acquire, Stat, WriteContent
    <2>3. CASE WriteContentFails(p) \/ Release(p)
      BY <2>1, <2>3 DEF Owned, WriteContentFails, Release, GiveUp, Absent
    <2>4. CASE TryCreate(p)
      BY <2>1, <2>4 DEF Owned, TryCreate, Create
    <2>5. CASE KillProcess(p)
      BY <2>1, <2>5 DEF Owned, KillProcess, LockFile, Absent
    <2>6. CASE RemoveStale(p) \/ Recreate(p)
      BY <2>1, <2>6 DEF RemoveStale, Recreate
    <2> QED
      BY <1>3, <2>2, <2>3, <2>4, <2>5, <2>6 DEF Call
  <1> QED
    BY <1>1, <1>2, <1>3 DEF LockNext

\* Two processes never hold the lock together before a lock file gets stale.
THEOREM Exclusion == LockSpec => []FreshExclusion
  <1>1. Owned => FreshExclusion
    BY DEF Owned, OwnedBy, FreshExclusion, MutualExclusion, Inside
  <1> QED
    BY <1>1, OwnedInit, OwnedNext, LockTypeCorrect, PTL DEF LockSpec

-----------------------------------------------------------------------------
LEMMA NoLeakNext == LockTypeOK /\ NoLeak /\ [LockNext]_lockVars => NoLeak'
  <1> SUFFICES ASSUME LockTypeOK, NoLeak, [LockNext]_lockVars PROVE NoLeak'
    OBVIOUS
  <1>1. ASSUME lockFile' = lockFile, \A q \in Procs : Inside(q) => Inside(q)'
        PROVE  NoLeak'
    BY <1>1, OnDiskType DEF NoLeak
  <1> USE DEF LockTypeOK, NoLeak, Inside, Goes
  <1>2. ASSUME NEW p \in Procs, Call(p) PROVE NoLeak'
    <2>1. CASE Acquire(p) \/ Stat(p) \/ WriteContent(p)
      <3>1. lockFile' = lockFile /\ \A q \in Procs : Inside(q) => Inside(q)'
        BY <2>1 DEF Acquire, Stat, WriteContent
      <3> QED
        BY <1>1, <3>1
    <2>2. CASE RemoveStale(p) \/ WriteContentFails(p) \/ Release(p)
      BY <2>2 DEF RemoveStale, WriteContentFails, Release, GiveUp, Absent
    <2>3. CASE (TryCreate(p) \/ Recreate(p)) /\ lockFile.there
      <3>1. lockFile' = lockFile /\ \A q \in Procs : Inside(q) => Inside(q)'
        BY <2>3 DEF TryCreate, Recreate, Create
      <3> QED
        BY <1>1, <3>1
    <2>4. CASE (TryCreate(p) \/ Recreate(p)) /\ ~lockFile.there
      <3>1. lockFile'.by = p /\ step'[p] = "write"
        BY <2>4 DEF TryCreate, Recreate, Create
      <3> QED
        BY <3>1
    <2>5. CASE KillProcess(p)
      BY <2>5 DEF KillProcess, LockFile, Absent
    <2> QED
      BY <1>2, <2>1, <2>2, <2>3, <2>4, <2>5 DEF Call
  <1>3. CASE Age
    <2>1. lockFile'.by = lockFile.by /\ lockFile'.orphan = lockFile.orphan /\ step' = step
      BY <1>3, OnDiskType DEF Age, LockFile
    <2> QED
      BY <1>3, <2>1 DEF Age
  <1>4. CASE UNCHANGED lockVars
    BY <1>4 DEF lockVars
  <1> QED
    BY <1>2, <1>3, <1>4 DEF LockNext

\* The lock file of a process that was not killed never stays behind, whatever
\* gets stale and however the processes interleave.
THEOREM NothingLeaks == LockSpec => []NoLeak
  <1>1. LockInit => NoLeak
    BY DEF LockInit, NoLeak, Absent
  <1> QED
    BY <1>1, NoLeakNext, LockTypeCorrect, PTL DEF LockSpec

-----------------------------------------------------------------------------
(* What the scan of a file finds.  Scan and ValidEnd run from the front, so  *)
(* the recursion that defines them is founded at the end.                    *)

Headers == [frame : Seq(Record)]
Cell    == Headers \cup Record

\* A header and a record are not to be mistaken for each other.
LEMMA CellsDiffer ==
    /\ \A c \in Headers : "frame" \in DOMAIN c /\ c.frame \in Seq(Record) /\ c \notin Record
    /\ \A c \in Record : "frame" \notin DOMAIN c
  <1>1. \A c \in Record : "frame" \notin DOMAIN c
    BY DEF Record
  <1>2. \A c \in Headers : "frame" \in DOMAIN c /\ c.frame \in Seq(Record)
    BY DEF Headers
  <1> QED
    BY <1>1, <1>2

LEMMA DownwardInduction ==
    ASSUME NEW n \in Nat, NEW S \in SUBSET Nat, n \in S,
           \A k \in 1 .. n : k \in S => k - 1 \in S
    PROVE  0 \in S
  <1>1. PICK x \in S : \A y \in S : x =< y
    BY SmallestOf
  <1>2. x =< n /\ x \in Nat
    BY <1>1
  <1>3. x # 0 => x \in 1 .. n /\ x - 1 < x /\ x - 1 \in S
    BY <1>1, <1>2
  <1> QED
    BY <1>1, <1>2, <1>3

LEMMA DownwardRecursion ==
    ASSUME NEW n \in Nat, NEW V, NEW R \in SUBSET (0 .. n),
           NEW nxt \in [R -> 0 .. n], \A i \in R : i < nxt[i],
           NEW base \in [0 .. n -> V], NEW op \in [R -> [V -> V]]
    PROVE  \E g \in [0 .. n -> V] :
              \A i \in 0 .. n : g[i] = IF i \in R THEN op[i][g[nxt[i]]] ELSE base[i]
  <1> DEFINE Solves(g, m) ==
                /\ g \in [m .. n -> V]
                /\ \A i \in m .. n : g[i] = IF i \in R THEN op[i][g[nxt[i]]] ELSE base[i]
             S == {m \in 0 .. n + 1 : \E g : Solves(g, m)}
  <1>1. n + 1 \in S
    <2>1. (n + 1) .. n = {}
      OBVIOUS
    <2> DEFINE g == [i \in (n + 1) .. n |-> 0]
    <2>2. g \in [(n + 1) .. n -> V]
      BY <2>1
    <2>3. Solves(g, n + 1)
      BY <2>1, <2>2
    <2> QED
      BY <2>3
  <1>2. ASSUME NEW k \in 1 .. n + 1, k \in S PROVE k - 1 \in S
    <2>1. PICK g : Solves(g, k)
      BY <1>2
    <2>2. k - 1 \in 0 .. n /\ (k - 1) .. n = {k - 1} \cup (k .. n) /\ k - 1 \notin k .. n
      BY <1>2
    <2> DEFINE first == IF k - 1 \in R THEN op[k - 1][g[nxt[k - 1]]] ELSE base[k - 1]
               h == [i \in (k - 1) .. n |-> IF i = k - 1 THEN first ELSE g[i]]
    <2>3. \A i \in R : i \in (k - 1) .. n => nxt[i] \in k .. n
      BY <2>2
    <2>4. first \in V
      BY <2>1, <2>2, <2>3
    <2>5. h \in [(k - 1) .. n -> V] /\ h[k - 1] = first /\ \A i \in k .. n : h[i] = g[i]
      BY <2>1, <2>2, <2>4
    <2> HIDE DEF first, h
    <2>6. ASSUME NEW i \in (k - 1) .. n
          PROVE  h[i] = IF i \in R THEN op[i][h[nxt[i]]] ELSE base[i]
      <3>1. i \in R => h[nxt[i]] = g[nxt[i]]
        BY <2>3, <2>5
      <3>2. CASE i = k - 1
        BY <2>5, <3>1, <3>2 DEF first
      <3>3. CASE i \in k .. n
        BY <2>1, <2>5, <3>1, <3>3
      <3> QED
        BY <2>2, <3>2, <3>3
    <2>7. Solves(h, k - 1)
      BY <2>5, <2>6
    <2> QED
      BY <2>2, <2>7
  <1>3. 0 \in S
    <2>1. S \in SUBSET Nat /\ n + 1 \in Nat
      OBVIOUS
    <2> HIDE DEF S
    <2> QED
      BY <1>1, <1>2, <2>1, DownwardInduction
  <1> QED
    BY <1>3

LEMMA ReadableIs ==
    ASSUME NEW f \in Seq(Cell), NEW i \in 0 .. Len(f), ReadableAt(f, i)
    PROVE  /\ i < Len(f) /\ f[i + 1] \in Headers
           /\ f[i + 1].frame \in Seq(Record) /\ f[i + 1].frame # <<>>
           /\ NextFrame(f, i) \in 0 .. Len(f) /\ i < NextFrame(f, i)
           /\ NextFrame(f, i) = i + 1 + Len(f[i + 1].frame)
           /\ \A j \in 1 .. Len(f[i + 1].frame) : f[i + 1 + j] = f[i + 1].frame[j]
  <1> DEFINE payload == f[i + 1].frame
  <1>1. /\ i < Len(f) /\ "frame" \in DOMAIN f[i + 1] /\ payload # <<>>
        /\ i + 1 + Len(payload) =< Len(f)
        /\ SubSeq(f, i + 2, i + 1 + Len(payload)) = payload
    BY DEF ReadableAt
  <1>2. f[i + 1] \in Cell
    BY <1>1
  <1>3. f[i + 1] \in Headers /\ payload \in Seq(Record)
    BY <1>1, <1>2, CellsDiffer DEF Cell
  <1>4. Len(payload) \in Nat /\ Len(payload) > 0
    BY <1>1, <1>3
  <1> HIDE DEF payload
  <1>5. \A j \in 1 .. Len(payload) : SubSeq(f, i + 2, i + 1 + Len(payload))[j] = f[i + 1 + j]
    <2> TAKE j \in 1 .. Len(payload)
    <2>1. i + 2 + j - 1 = i + 1 + j /\ j \in 1 .. (i + 1 + Len(payload)) - (i + 2) + 1
      BY <1>1, <1>4
    <2> QED
      BY <1>1, <1>4, <2>1
  <1>6. \A j \in 1 .. Len(payload) : f[i + 1 + j] = payload[j]
    BY <1>1, <1>5
  <1>7. NextFrame(f, i) = i + 1 + Len(payload)
    BY DEF NextFrame, payload
  <1>8. NextFrame(f, i) \in 0 .. Len(f) /\ i < NextFrame(f, i)
    BY <1>1, <1>4, <1>7
  <1>9. /\ i < Len(f) /\ f[i + 1] \in Headers
        /\ payload \in Seq(Record) /\ payload # <<>>
    BY <1>1, <1>3
  <1> QED
    BY <1>6, <1>7, <1>8, <1>9 DEF payload

\* The recursion in Scan has a solution, and Scan is what it says.
LEMMA ScanIs ==
    ASSUME NEW f \in Seq(Cell)
    PROVE  \E from \in [0 .. Len(f) -> Seq(Seq(Record))] :
              /\ Scan(f) = from[0]
              /\ \A i \in 0 .. Len(f) :
                    from[i] = IF ReadableAt(f, i) THEN <<f[i + 1].frame>> \o from[NextFrame(f, i)]
                                                  ELSE <<>>
  <1> DEFINE V == Seq(Seq(Record))
             N == 0 .. Len(f)
             R == {i \in N : ReadableAt(f, i)}
             nxt == [i \in R |-> NextFrame(f, i)]
             op  == [i \in R |-> [v \in V |-> <<f[i + 1].frame>> \o v]]
             base == [i \in N |-> <<>>]
             Good(g) == g = [i \in N |-> IF ReadableAt(f, i)
                                            THEN <<f[i + 1].frame>> \o g[NextFrame(f, i)] ELSE <<>>]
  <1>1. Len(f) \in Nat /\ R \in SUBSET N
    OBVIOUS
  <1>2. nxt \in [R -> N] /\ \A i \in R : i < nxt[i]
    BY ReadableIs
  <1>3. base \in [N -> V]
    OBVIOUS
  <1>4. op \in [R -> [V -> V]]
    <2> SUFFICES ASSUME NEW i \in R, NEW v \in V PROVE <<f[i + 1].frame>> \o v \in V
      OBVIOUS
    <2>1. f[i + 1].frame \in Seq(Record)
      BY ReadableIs
    <2> QED
      BY <2>1
  <1>5. PICK g \in [N -> V] :
           \A i \in N : g[i] = IF i \in R THEN op[i][g[nxt[i]]] ELSE base[i]
    <2>1. R \in SUBSET (0 .. Len(f)) /\ nxt \in [R -> 0 .. Len(f)] /\ base \in [0 .. Len(f) -> V]
      BY <1>1, <1>2, <1>3
    <2> HIDE DEF nxt, op, base, R, V
    <2>2. \E g \in [0 .. Len(f) -> V] :
             \A i \in 0 .. Len(f) : g[i] = IF i \in R THEN op[i][g[nxt[i]]] ELSE base[i]
      BY <1>1, <1>2, <1>4, <2>1, DownwardRecursion
    <2> QED
      BY <2>2
  <1>6. ASSUME NEW i \in N
        PROVE  g[i] = IF ReadableAt(f, i) THEN <<f[i + 1].frame>> \o g[NextFrame(f, i)] ELSE <<>>
    <2>1. CASE ReadableAt(f, i)
      <3>1. i \in R /\ g[NextFrame(f, i)] \in V
        BY <1>5, <2>1, ReadableIs
      <3> QED
        BY <1>5, <2>1, <3>1
    <2>2. CASE ~ReadableAt(f, i)
      BY <1>5, <2>2
    <2> QED
      BY <2>1, <2>2
  <1>7. Good(g)
    BY <1>5, <1>6
  <1> DEFINE from == CHOOSE h : Good(h)
  <1>8. Good(from)
    BY <1>7
  <1>9. Scan(f) = from[0]
    BY DEF Scan
  <1> HIDE DEF from
  <1>10. from \in [N -> V]
    <2> DEFINE S == {k \in 0 .. Len(f) + 1 : \A i \in k .. Len(f) : from[i] \in V}
    <2>1. Len(f) + 1 \in S
      OBVIOUS
    <2>2. ASSUME NEW k \in 1 .. Len(f) + 1, k \in S PROVE k - 1 \in S
      <3>1. k - 1 \in N /\ \A i \in (k - 1) .. Len(f) : i = k - 1 \/ i \in k .. Len(f)
        BY <1>1, <2>2
      <3>2. ReadableAt(f, k - 1) =>
               /\ NextFrame(f, k - 1) \in k .. Len(f)
               /\ f[(k - 1) + 1].frame \in Seq(Record)
        <4> SUFFICES ASSUME ReadableAt(f, k - 1)
                     PROVE  /\ NextFrame(f, k - 1) \in k .. Len(f)
                            /\ f[(k - 1) + 1].frame \in Seq(Record)
          OBVIOUS
        <4>1. /\ NextFrame(f, k - 1) \in 0 .. Len(f) /\ k - 1 < NextFrame(f, k - 1)
              /\ f[(k - 1) + 1].frame \in Seq(Record)
          BY <3>1, ReadableIs
        <4> HIDE DEF S
        <4> QED
          BY <1>1, <4>1
      <3>3. from[k - 1] = IF ReadableAt(f, k - 1)
                             THEN <<f[(k - 1) + 1].frame>> \o from[NextFrame(f, k - 1)] ELSE <<>>
        BY <1>8, <3>1
      <3>4. from[k - 1] \in V
        BY <2>2, <3>2, <3>3
      <3> QED
        BY <1>1, <2>2, <3>1, <3>4
    <2>3. 0 \in S
      <3>1. S \in SUBSET Nat /\ Len(f) + 1 \in Nat
        BY <1>1
      <3> HIDE DEF S
      <3> QED
        BY <2>1, <2>2, <3>1, DownwardInduction
    <2> QED
      BY <1>8, <2>3
  <1>11. \A i \in N : from[i] = IF ReadableAt(f, i)
                                   THEN <<f[i + 1].frame>> \o from[NextFrame(f, i)] ELSE <<>>
    BY <1>8
  <1> QED
    BY <1>9, <1>10, <1>11

\* The same of ValidEnd: the end of the frames is in the file, at a place where
\* no frame starts.
LEMMA EndIs ==
    ASSUME NEW f \in Seq(Cell)
    PROVE  \E end \in [0 .. Len(f) -> 0 .. Len(f)] :
              /\ ValidEnd(f) = end[0]
              /\ \A i \in 0 .. Len(f) :
                    /\ end[i] = IF ReadableAt(f, i) THEN end[NextFrame(f, i)] ELSE i
                    /\ i =< end[i]
                    /\ ~ReadableAt(f, end[i])
  <1> DEFINE N == 0 .. Len(f)
             R == {i \in N : ReadableAt(f, i)}
             nxt == [i \in R |-> NextFrame(f, i)]
             op  == [i \in R |-> [v \in N |-> v]]
             base == [i \in N |-> i]
             Good(g) == g = [i \in N |-> IF ReadableAt(f, i) THEN g[NextFrame(f, i)] ELSE i]
  <1>1. Len(f) \in Nat /\ R \in SUBSET N
    OBVIOUS
  <1>2. nxt \in [R -> N] /\ \A i \in R : i < nxt[i]
    BY ReadableIs
  <1>3. base \in [N -> N] /\ op \in [R -> [N -> N]]
    OBVIOUS
  <1>4. PICK g \in [N -> N] :
           \A i \in N : g[i] = IF i \in R THEN op[i][g[nxt[i]]] ELSE base[i]
    <2>1. R \in SUBSET (0 .. Len(f)) /\ nxt \in [R -> 0 .. Len(f)] /\ base \in [0 .. Len(f) -> N]
      BY <1>1, <1>2, <1>3
    <2>2. op \in [R -> [0 .. Len(f) -> 0 .. Len(f)]] /\ \A i \in R : i < nxt[i]
      BY <1>2, <1>3
    <2> DEFINE V == 0 .. Len(f)
    <2>3. /\ R \in SUBSET (0 .. Len(f)) /\ nxt \in [R -> 0 .. Len(f)] /\ Len(f) \in Nat
          /\ op \in [R -> [V -> V]] /\ base \in [0 .. Len(f) -> V]
          /\ \A i \in R : i < nxt[i]
      BY <1>1, <2>1, <2>2
    <2> HIDE DEF nxt, op, base, R, V
    <2>4. \E g \in [0 .. Len(f) -> V] :
             \A i \in 0 .. Len(f) : g[i] = IF i \in R THEN op[i][g[nxt[i]]] ELSE base[i]
      BY <2>3, DownwardRecursion, SMTT(30)
    <2> QED
      BY <2>4 DEF V
  <1>5. ASSUME NEW i \in N
        PROVE  g[i] = IF ReadableAt(f, i) THEN g[NextFrame(f, i)] ELSE i
    <2>1. CASE ReadableAt(f, i)
      <3>1. i \in R /\ NextFrame(f, i) \in N /\ g[NextFrame(f, i)] \in N
        BY <1>4, <2>1, ReadableIs
      <3> QED
        BY <1>4, <2>1, <3>1
    <2>2. CASE ~ReadableAt(f, i)
      BY <1>4, <2>2
    <2> QED
      BY <2>1, <2>2
  <1>6. Good(g)
    BY <1>4, <1>5
  <1> DEFINE end == CHOOSE h : Good(h)
  <1>7. Good(end)
    BY <1>6
  <1>8. ValidEnd(f) = end[0]
    BY DEF ValidEnd
  <1> HIDE DEF end
  <1>9. \A i \in N : end[i] = IF ReadableAt(f, i) THEN end[NextFrame(f, i)] ELSE i
    BY <1>7
  <1> DEFINE Right(i) == end[i] \in N /\ i =< end[i] /\ ~ReadableAt(f, end[i])
  <1>10. \A i \in N : Right(i)
    <2> DEFINE S == {k \in 0 .. Len(f) + 1 : \A i \in k .. Len(f) : Right(i)}
    <2>1. Len(f) + 1 \in S
      OBVIOUS
    <2>2. ASSUME NEW k \in 1 .. Len(f) + 1, k \in S PROVE k - 1 \in S
      <3>1. k - 1 \in N /\ \A i \in (k - 1) .. Len(f) : i = k - 1 \/ i \in k .. Len(f)
        BY <1>1, <2>2
      <3>2. \A i \in k .. Len(f) : Right(i)
        BY <2>2
      <3> HIDE DEF S
      <3>3. ASSUME ReadableAt(f, k - 1) PROVE Right(k - 1)
        <4>1. NextFrame(f, k - 1) \in k .. Len(f)
          <5>1. NextFrame(f, k - 1) \in 0 .. Len(f) /\ k - 1 < NextFrame(f, k - 1)
            BY <3>1, <3>3, ReadableIs
          <5> QED
            BY <1>1, <5>1
        <4>2. end[k - 1] = end[NextFrame(f, k - 1)]
          BY <1>9, <3>1, <3>3
        <4> QED
          BY <1>1, <3>1, <3>2, <4>1, <4>2
      <3>4. ASSUME ~ReadableAt(f, k - 1) PROVE Right(k - 1)
        BY <1>9, <3>1, <3>4
      <3>5. Right(k - 1)
        BY <3>3, <3>4
      <3>6. \A i \in (k - 1) .. Len(f) : Right(i)
        BY <3>1, <3>2, <3>5
      <3> QED
        BY <1>1, <3>6 DEF S
    <2>3. 0 \in S
      <3>1. S \in SUBSET Nat /\ Len(f) + 1 \in Nat
        BY <1>1
      <3> HIDE DEF S
      <3> QED
        BY <2>1, <2>2, <3>1, DownwardInduction
    <2> QED
      BY <2>3
  <1>11. DOMAIN end = N
    BY <1>7
  <1>12. end = [i \in N |-> end[i]]
    BY <1>7
  <1>13. end \in [N -> N]
    BY <1>10, <1>12
  <1> QED
    BY <1>8, <1>9, <1>10, <1>13

LEMMA ValidEndType ==
    ASSUME NEW f \in Seq(Cell)
    PROVE  ValidEnd(f) \in 0 .. Len(f)
  <1>1. PICK end \in [0 .. Len(f) -> 0 .. Len(f)] : ValidEnd(f) = end[0]
    BY EndIs
  <1>2. 0 \in 0 .. Len(f)
    OBVIOUS
  <1> QED
    BY <1>1, <1>2

\* No frame that can be read contains a header.
LEMMA FrameStops ==
    ASSUME NEW f \in Seq(Cell), NEW i \in Nat, NEW j \in Nat,
           ReadableAt(f, i), i < j, j < Len(f), f[j + 1] \in Headers
    PROVE  NextFrame(f, i) =< j
  <1> DEFINE n == NextFrame(f, i)
             payload == f[i + 1].frame
             m == j - i
  <1>1. i \in 0 .. Len(f) /\ Len(f) \in Nat
    OBVIOUS
  <1>2. /\ i < n /\ n \in 0 .. Len(f) /\ n = i + 1 + Len(payload) /\ payload \in Seq(Record)
        /\ \A l \in 1 .. Len(payload) : f[i + 1 + l] = payload[l]
    BY <1>1, ReadableIs
  <1> HIDE DEF n, payload
  <1>3. ASSUME n > j PROVE FALSE
    <2>1. Len(payload) \in Nat
      BY <1>2
    <2>2. m \in 1 .. Len(payload) /\ i + 1 + m = j + 1
      BY <1>1, <1>2, <1>3, <2>1
    <2>3. f[j + 1] = payload[m] /\ payload[m] \in Record
      BY <1>2, <2>2
    <2> QED
      BY <2>3, CellsDiffer
  <1> QED
    BY <1>1, <1>2, <1>3 DEF n

LEMMA FramesType ==
    ASSUME NEW f \in Seq(Cell)
    PROVE  Scan(f) \in Seq(Seq(Record))
  <1>1. PICK from \in [0 .. Len(f) -> Seq(Seq(Record))] : Scan(f) = from[0]
    BY ScanIs
  <1>2. 0 \in 0 .. Len(f)
    OBVIOUS
  <1> QED
    BY <1>1, <1>2

LEMMA LastInType ==
    ASSUME NEW fs \in Seq(Seq(Record))
    PROVE  LastIn(fs) \in Nat
  <1>1. ToSet(fs) \in SUBSET Seq(Record)
    BY DEF ToSet
  <1>2. FrameRecords(ToSet(fs)) \in SUBSET Record
    BY <1>1 DEF FrameRecords, ToSet
  <1>3. {r.seq : r \in FrameRecords(ToSet(fs))} \in SUBSET Nat
    BY <1>2 DEF Record
  <1> QED
    BY <1>3, HighestSeqType DEF LastIn

-----------------------------------------------------------------------------
(* What a write makes of the file.                                           *)

LEMMA BrokenIsHeader == Broken \in Headers /\ Broken \in Cell /\ Broken.frame = <<>>
  <1>1. <<>> \in Seq(Record)
    OBVIOUS
  <1> QED
    BY <1>1 DEF Broken, Header, Headers, Cell

LEMMA HeaderIsHeader ==
    ASSUME NEW frame \in Seq(Record)
    PROVE  Header(frame) \in Headers /\ Header(frame) \in Cell /\ Header(frame).frame = frame
  BY DEF Header, Headers, Cell

\* What is written at the end of the file is appended to it.
LEMMA AppendedAt ==
    ASSUME NEW f \in Seq(Cell), NEW cells \in Seq(Cell)
    PROVE  /\ WriteAt(f, Len(f), cells) \in Seq(Cell)
           /\ Len(WriteAt(f, Len(f), cells)) = Len(f) + Len(cells)
           /\ \A i \in 1 .. Len(f) : WriteAt(f, Len(f), cells)[i] = f[i]
           /\ \A i \in 1 .. Len(cells) : WriteAt(f, Len(f), cells)[Len(f) + i] = cells[i]
  <1> DEFINE g == WriteAt(f, Len(f), cells)
             total == Len(f) + Len(cells)
  <1>1. Len(f) \in Nat /\ Len(cells) \in Nat /\ total \in Nat
    OBVIOUS
  <1>2. Larger(Len(f), total) = total
    BY <1>1 DEF Larger
  <1>3. g = [i \in 1 .. total |-> IF i \in Len(f) + 1 .. total THEN cells[i - Len(f)]
                                  ELSE IF i =< Len(f) THEN f[i] ELSE Broken]
    BY <1>2 DEF WriteAt
  <1>4. \A i \in 1 .. total : i =< Len(f) => g[i] = f[i] /\ f[i] \in Cell
    BY <1>1, <1>3
  <1>5. \A i \in 1 .. total : i > Len(f) => i - Len(f) \in 1 .. Len(cells) /\ g[i] = cells[i - Len(f)]
    BY <1>1, <1>3
  <1>6. \A i \in 1 .. total : g[i] \in Cell
    BY <1>1, <1>4, <1>5
  <1>7. DOMAIN g = 1 .. total
    BY <1>3
  <1>8. g \in Seq(Cell) /\ Len(g) = total
    <2>1. g = [i \in 1 .. total |-> g[i]]
      BY <1>3
    <2>2. g \in [1 .. total -> Cell]
      BY <1>6, <2>1
    <2> QED
      BY <1>1, <1>7, <2>2
  <1>9. \A i \in 1 .. Len(cells) : g[Len(f) + i] = cells[i]
    <2> TAKE i \in 1 .. Len(cells)
    <2>1. Len(f) + i \in 1 .. total /\ Len(f) + i > Len(f) /\ (Len(f) + i) - Len(f) = i
      BY <1>1
    <2> QED
      BY <1>5, <2>1
  <1>10. \A i \in 1 .. Len(f) : g[i] = f[i]
    BY <1>1, <1>4
  <1> QED
    BY <1>8, <1>9, <1>10

LEMMA WriteAtType ==
    ASSUME NEW f \in Seq(Cell), NEW cursor \in Nat, NEW cells \in Seq(Cell)
    PROVE  WriteAt(f, cursor, cells) \in Seq(Cell)
  <1> DEFINE total == Larger(Len(f), cursor + Len(cells))
  <1>1. Len(f) \in Nat /\ Len(cells) \in Nat /\ total \in Nat
    <2>1. Len(f) \in Nat /\ Len(cells) \in Nat /\ cursor + Len(cells) \in Nat
      OBVIOUS
    <2> QED
      BY <2>1, LargerType
  <1>2. ASSUME NEW i \in 1 .. total
        PROVE  (IF i \in cursor + 1 .. cursor + Len(cells) THEN cells[i - cursor]
                ELSE IF i =< Len(f) THEN f[i] ELSE Broken) \in Cell
    <2> HIDE DEF total
    <2>1. CASE i \in cursor + 1 .. cursor + Len(cells)
      <3>1. i - cursor \in 1 .. Len(cells)
        BY <1>1, <2>1
      <3> QED
        BY <2>1, <3>1
    <2>2. CASE i \notin cursor + 1 .. cursor + Len(cells)
      BY <1>1, <2>2, BrokenIsHeader
    <2> QED
      BY <2>1, <2>2
  <1>3. WriteAt(f, cursor, cells) \in [1 .. total -> Cell]
    BY <1>2 DEF WriteAt
  <1> QED
    BY <1>1, <1>3

-----------------------------------------------------------------------------
(* What the sessions have.                                                   *)

LogRecord == [at : {"none", "scanned", "opened", "ready", "payload", "sync", "reset", "closed"},
              cursor : Nat, size : Nat, seq : Nat, end : Nat, frame : Seq(Record),
              mem : Nat, closing : BOOLEAN]

Appending(l) == l.at \in {"payload", "sync"} => l.frame # <<>>

LogsTyped ==
    /\ file \in Seq(Cell) /\ synced \in Seq(Cell)
    /\ {floor, given, faults, crashes} \subseteq Nat
    /\ log \in [Procs -> LogRecord]
    /\ \A p \in Procs : Appending(log[p])

LEMMA TypedIsOK == LockTypeOK /\ LogsTyped => LockedTypeOK
  <1> SUFFICES ASSUME LockTypeOK, LogsTyped PROVE LockedTypeOK
    OBVIOUS
  <1>1. ToSet(file) \cup ToSet(synced) \subseteq Cell
    BY DEF LogsTyped, ToSet
  <1>2. \A c \in ToSet(file) \cup ToSet(synced) :
           ("frame" \in DOMAIN c /\ c.frame \in Seq(Record)) \/ c \in Record
    BY <1>1, CellsDiffer DEF Cell
  <1>3. \A p \in Procs : {log[p].cursor, log[p].size, log[p].seq, log[p].end} \subseteq Nat
    BY DEF LogsTyped, LogRecord
  <1> QED
    BY <1>2, <1>3 DEF LockedTypeOK, LogsTyped

LEMMA NoLogType == NoLog \in LogRecord /\ NoLog.at = "none"
  BY DEF NoLog, LogRecord

LEMMA NewFrameType ==
    ASSUME LogsTyped, NEW p \in Procs, NEW ops \in Batches
    PROVE  /\ NewFrameOf(p, ops) \in Seq(Record) /\ NewFrameOf(p, ops) # <<>>
           /\ Len(NewFrameOf(p, ops)) = Len(ops) /\ Len(ops) \in Nat
  <1> DEFINE Op == [key : Keys, val : Contents]
  <1>1. ops \in Seq(Op) /\ ops # <<>>
    BY LockedLogAssumption
  <1>2. Len(ops) \in Nat /\ DOMAIN ops = 1 .. Len(ops) /\ Len(ops) > 0
    BY <1>1
  <1>3. log[p].seq \in Nat
    BY DEF LogsTyped, LogRecord
  <1>4. \A i \in 1 .. Len(ops) : /\ ops[i].key \in Keys /\ ops[i].val \in Contents
                                 /\ log[p].seq + i \in Nat
    <2> TAKE i \in 1 .. Len(ops)
    <2>1. ops[i] \in Op
      <3> HIDE DEF Op
      <3> QED
        BY <1>1, <1>2
    <2> QED
      BY <1>2, <1>3, <2>1
  <1>5. \A i \in 1 .. Len(ops) :
           [key |-> ops[i].key, seq |-> log[p].seq + i, val |-> ops[i].val] \in Record
    BY <1>4 DEF Record
  <1>6. NewFrameOf(p, ops) \in [1 .. Len(ops) -> Record]
    BY <1>2, <1>5 DEF NewFrameOf
  <1> QED
    BY <1>2, <1>6

LEMMA ResizeType ==
    ASSUME NEW f \in Seq(Cell), NEW n \in Nat
    PROVE  Resize(f, n) \in Seq(Cell) /\ Len(Resize(f, n)) = n
  <1>1. \A i \in 1 .. n : (IF i =< Len(f) THEN f[i] ELSE Broken) \in Cell
    BY BrokenIsHeader
  <1>2. Resize(f, n) \in [1 .. n -> Cell]
    BY <1>1 DEF Resize
  <1> QED
    BY <1>2

\* Where two files start to differ.
LEMMA CommonStart ==
    ASSUME NEW f \in Seq(Cell), NEW g \in Seq(Cell), NEW kept, kept = Len(LongestCommonPrefix({f, g}))
    PROVE  /\ kept \in 0 .. Len(f) /\ kept \in 0 .. Len(g)
           /\ \A i \in 1 .. kept : f[i] = g[i]
           /\ \A n \in 0 .. Len(f) :
                 n =< Len(g) /\ (\A i \in 1 .. n : f[i] = g[i]) => n =< kept
  <1> DEFINE Common == CommonPrefixes({f, g})
             Agree(n) == n \in 0 .. Len(f) /\ n =< Len(g) /\ \A i \in 1 .. n : f[i] = g[i]
             Places == {n \in 0 .. Len(f) : Agree(n)}
             top == HighestSeq(Places)
  <1>1. Len(f) \in Nat /\ Len(g) \in Nat
    OBVIOUS
  <1>2. ASSUME NEW s \in Common
        PROVE  Agree(Len(s)) /\ s = SubSeq(f, 1, Len(s))
    <2> PICK h \in {f, g} : s \in Prefixes(h)
      BY DEF CommonPrefixes
    <2>1. PICK l \in 0 .. Len(h) : s = SubSeq(h, 1, l)
      BY DEF Prefixes
    <2>2. s \in Seq(Cell) /\ Len(s) = l /\ Len(s) \in Nat
      BY <2>1
    <2>3. IsPrefix(s, f) /\ IsPrefix(s, g)
      BY DEF CommonPrefixes
    <2>4. s = SubSeq(s, 1, Len(s))
      BY <2>2
    <2>5. /\ Len(s) =< Len(f) /\ Len(s) =< Len(g)
          /\ s = SubSeq(f, 1, Len(s)) /\ s = SubSeq(g, 1, Len(s))
      BY <2>3, <2>4 DEF IsPrefix
    <2>6. \A i \in 1 .. Len(s) : s[i] = f[i] /\ s[i] = g[i]
      BY <1>1, <2>2, <2>5
    <2> QED
      BY <1>1, <2>2, <2>5, <2>6
  <1>3. ASSUME NEW n \in Places
        PROVE  SubSeq(f, 1, n) \in Common /\ Len(SubSeq(f, 1, n)) = n
    <2> DEFINE s == SubSeq(f, 1, n)
    <2>1. n \in 0 .. Len(f) /\ n \in Nat /\ n =< Len(f) /\ n =< Len(g)
      BY <1>1
    <2>2. s \in Seq(Cell) /\ Len(s) = n
      BY <1>1, <2>1
    <2>3. s = SubSeq(g, 1, n)
      <3>1. SubSeq(g, 1, n) \in Seq(Cell) /\ Len(SubSeq(g, 1, n)) = n
        BY <1>1, <2>1
      <3>2. \A i \in 1 .. n : s[i] = f[i] /\ SubSeq(g, 1, n)[i] = g[i] /\ f[i] = g[i]
        BY <1>1, <2>1
      <3> HIDE DEF s
      <3> QED
        BY <2>2, <3>1, <3>2
    <2>4. s = SubSeq(s, 1, Len(s))
      BY <2>2
    <2>5. IsPrefix(s, f) /\ IsPrefix(s, g)
      BY <2>1, <2>2, <2>3, <2>4 DEF IsPrefix
    <2>6. s \in Prefixes(f)
      BY <2>1 DEF Prefixes
    <2> QED
      BY <2>2, <2>5, <2>6 DEF CommonPrefixes
  <1>4. Places \in SUBSET Nat /\ \A n \in Places : n =< Len(f)
    BY <1>1
  <1>5. 0 \in Places
    BY <1>1
  <1>6. top \in Places /\ \A n \in Places : n =< top
    <2> HIDE DEF Places
    <2> QED
      BY <1>1, <1>4, <1>5, HighestSeqIn, HighestSeqBound
  <1> DEFINE longest == SubSeq(f, 1, top)
  <1> HIDE DEF Places, top, Common
  <1>7. /\ longest \in Common /\ Len(longest) = top
        /\ \A other \in Common : Len(other) =< Len(longest)
    <2>1. longest \in Common /\ Len(longest) = top
      BY <1>3, <1>6
    <2>2. \A other \in Common : Len(other) \in Places
      BY <1>2 DEF Places
    <2> QED
      BY <1>6, <2>1, <2>2
  <1>8. /\ LongestCommonPrefix({f, g}) \in Common
        /\ \A other \in Common : Len(other) =< Len(LongestCommonPrefix({f, g}))
    BY <1>7 DEF LongestCommonPrefix, Common
  <1>9. Agree(kept) /\ \A n \in Places : n =< kept
    <2>1. Agree(kept)
      BY <1>2, <1>8
    <2>2. \A n \in Places : n =< kept
      BY <1>3, <1>8
    <2> QED
      BY <2>1, <2>2
  <1>10. \A n \in 0 .. Len(f) : n =< Len(g) /\ (\A i \in 1 .. n : f[i] = g[i]) => n =< kept
    BY <1>9 DEF Places
  <1>11. kept \in 0 .. Len(f) /\ kept =< Len(g) /\ \A i \in 1 .. kept : f[i] = g[i]
    BY <1>9
  <1>12. kept \in 0 .. Len(g)
    BY <1>1, <1>11
  <1> QED
    BY <1>10, <1>11, <1>12

\* What a power failure leaves is a file.
LEMMA ImageType ==
    ASSUME file \in Seq(Cell), synced \in Seq(Cell), NEW image \in Images
    PROVE  image \in Seq(Cell)
  <1> DEFINE kept == Len(LongestCommonPrefix({synced, file}))
  <1>1. kept \in Nat
    BY CommonStart
  <1>2. CASE image = synced
    BY <1>2
  <1>3. CASE image # synced
    <2> DEFINE Left(n, holes) == [i \in 1 .. n |-> IF i \in holes THEN Broken ELSE file[i]]
               Rest == {Left(n, holes) : n \in kept .. Len(file), holes \in SUBSET (kept + 1 .. Len(file))}
    <2>6. Images = {synced} \cup Rest
      BY DEF Images
    <2>3. image \in Rest
      <3> HIDE DEF Rest
      <3> QED
        BY <1>3, <2>6
    <2>1. PICK n \in kept .. Len(file), holes \in SUBSET (kept + 1 .. Len(file)) :
             image = Left(n, holes)
      <3> HIDE DEF Left, kept
      <3> QED
        BY <2>3
    <2> HIDE DEF kept
    <2>2. n \in Nat /\ n =< Len(file) /\ Len(file) \in Nat
      BY <1>1, <2>1
    <2>5. \A i \in 1 .. n : (IF i \in holes THEN Broken ELSE file[i]) \in Cell
      BY <2>2, BrokenIsHeader
    <2>4. image \in [1 .. n -> Cell]
      BY <2>1, <2>5
    <2> QED
      BY <2>2, <2>4
  <1> QED
    BY <1>2, <1>3

-----------------------------------------------------------------------------
(* The types are kept by every step.                                         *)

LEMMA SessionReplaced ==
    ASSUME LogsTyped, NEW p \in Procs, NEW l \in LogRecord, Appending(l),
           log' = [log EXCEPT ![p] = l]
    PROVE  log' \in [Procs -> LogRecord] /\ \A q \in Procs : Appending(log[q])'
  <1>1. log' \in [Procs -> LogRecord] /\ \A q \in Procs : log'[q] = IF q = p THEN l ELSE log[q]
    BY DEF LogsTyped
  <1>2. \A q \in Procs : Appending(log'[q])
    BY <1>1 DEF LogsTyped
  <1> QED
    BY <1>1, <1>2 DEF Appending

LEMMA ScannedType ==
    LogsTyped => ValidEnd(file) \in Nat /\ LastIn(Scan(file)) \in Nat /\ Len(file) \in Nat
  <1> SUFFICES ASSUME LogsTyped
               PROVE  ValidEnd(file) \in Nat /\ LastIn(Scan(file)) \in Nat /\ Len(file) \in Nat
    OBVIOUS
  <1>1. file \in Seq(Cell)
    BY DEF LogsTyped
  <1>2. ValidEnd(file) \in 0 .. Len(file) /\ LastIn(Scan(file)) \in Nat
    BY <1>1, ValidEndType, FramesType, LastInType
  <1> QED
    BY <1>1, <1>2

LEMMA PartType ==
    ASSUME NEW frame \in Seq(Record), NEW n \in 0 .. Len(frame)
    PROVE  SubSeq(frame, 1, n) \in Seq(Record) /\ SubSeq(frame, 1, n) \in Seq(Cell)
           /\ Len(SubSeq(frame, 1, n)) = n
  <1>1. SubSeq(frame, 1, n) \in Seq(Record) /\ Len(SubSeq(frame, 1, n)) = n
    OBVIOUS
  <1> QED
    BY <1>1 DEF Cell

LEMMA RecordsAreCells ==
    ASSUME NEW frame \in Seq(Record)
    PROVE  frame \in Seq(Cell)
  BY DEF Cell

LEMMA LogsTypedInit == LockedInit => LogsTyped
  <1> SUFFICES ASSUME LockedInit PROVE LogsTyped
    OBVIOUS
  <1>1. file \in Seq(Cell) /\ synced \in Seq(Cell) /\ {floor, given, faults, crashes} \subseteq Nat
    BY DEF LockedInit
  <1>2. log \in [Procs -> LogRecord] /\ \A p \in Procs : log[p] = NoLog
    BY NoLogType DEF LockedInit
  <1>3. \A p \in Procs : Appending(log[p])
    BY <1>2, NoLogType DEF Appending
  <1> QED
    BY <1>1, <1>2, <1>3 DEF LogsTyped

\* A step of one session, by what it leaves.
LEMMA TypedByOne ==
    ASSUME LogsTyped, NEW p \in Procs, NEW l \in LogRecord, Appending(l),
           log' = [log EXCEPT ![p] = l],
           file' \in Seq(Cell), synced' \in {synced, file, file'},
           {floor, given, faults, crashes}' \subseteq Nat
    PROVE  LogsTyped'
  <1>1. synced' \in Seq(Cell)
    BY DEF LogsTyped
  <1> QED
    BY <1>1, SessionReplaced DEF LogsTyped

LEMMA FaultType == LogsTyped /\ (Fault \/ UNCHANGED faults) => faults' \in Nat
  BY DEF LogsTyped, Fault

LEMMA LogStepTyped ==
    ASSUME LogsTyped, NEW p \in Procs, LogStep(p)
    PROVE  LogsTyped'
  <1>1. log[p] \in LogRecord /\ file \in Seq(Cell) /\ synced \in Seq(Cell) /\ Appending(log[p])
    BY DEF LogsTyped
  <1>2. crashes' \in Nat /\ floor \in Nat /\ given \in Nat /\ faults \in Nat
    BY DEF LogStep, LogsTyped
  <1>3. CASE OpenLog(p)
    <2> DEFINE l == [NoLog EXCEPT !.at = "scanned", !.size = Len(file), !.end = ValidEnd(file),
                                  !.seq = LastIn(Scan(file))]
    <2>1. l \in LogRecord /\ Appending(l)
      BY ScannedType, NoLogType DEF NoLog, LogRecord, Appending
    <2>2. log' = [log EXCEPT ![p] = l] /\ UNCHANGED <<file, synced, floor, given, faults>>
      BY <1>3 DEF OpenLog
    <2> HIDE DEF l
    <2> QED
      BY <1>1, <1>2, <2>1, <2>2, TypedByOne
  <1>4. CASE CutTail(p)
    <2> DEFINE l == [log[p] EXCEPT !.at = "opened", !.size = log[p].end, !.cursor = Len(file'),
                                   !.seq = Larger(@, floor)]
    <2>1. file' \in Seq(Cell)
      BY <1>1, <1>4, ResizeType DEF CutTail, LogRecord
    <2>2. given' \in Nat /\ UNCHANGED <<synced, floor, faults>>
      BY <1>1, <1>2, <1>4, LargerType DEF CutTail, LogRecord
    <2>3. l \in LogRecord /\ Appending(l)
      <3>1. /\ Len(file') \in Nat /\ log[p].end \in Nat /\ log[p].seq \in Nat
            /\ Larger(log[p].seq, floor) \in Nat
        <4>1. log[p].end \in Nat /\ log[p].seq \in Nat
          BY <1>1 DEF LogRecord
        <4>2. Larger(log[p].seq, floor) \in Nat
          BY <1>2, <4>1, LargerType
        <4>3. Len(file') \in Nat
          BY <2>1
        <4> QED
          BY <4>1, <4>2, <4>3
      <3>2. l \in LogRecord
        BY <1>1, <3>1 DEF LogRecord
      <3>3. l.at = "opened"
        BY <1>1 DEF LogRecord
      <3> QED
        BY <3>2, <3>3 DEF Appending
    <2>4. log' = [log EXCEPT ![p] = l]
      BY <1>4 DEF CutTail
    <2> HIDE DEF l
    <2> QED
      BY <1>1, <1>2, <2>1, <2>2, <2>3, <2>4, TypedByOne
  <1>5. CASE Replay(p)
    <2> DEFINE l == [log[p] EXCEPT !.at = "ready", !.cursor = log[p].size,
                                   !.mem = LastIn(Scan(file))]
    <2>1. l \in LogRecord /\ Appending(l)
      BY <1>1, ScannedType DEF LogRecord, Appending
    <2>2. log' = [log EXCEPT ![p] = l] /\ UNCHANGED <<file, synced, floor, given, faults>>
      BY <1>5 DEF Replay
    <2> HIDE DEF l
    <2> QED
      BY <1>1, <1>2, <2>1, <2>2, TypedByOne
  <1>6. CASE ReplayFails(p)
    <2> DEFINE l(n) == [log[p] EXCEPT !.at = "ready", !.cursor = 0, !.closing = TRUE,
                                      !.mem = LastIn(SubSeq(Scan(file), 1, n))]
    <2>1. PICK n \in {0} \cup 1 .. Len(Scan(file)) - 1 : log' = [log EXCEPT ![p] = l(n)]
      BY <1>6 DEF ReplayFails
    <2>2. Scan(file) \in Seq(Seq(Record))
      BY <1>1, FramesType
    <2>3. SubSeq(Scan(file), 1, n) \in Seq(Seq(Record))
      <3>1. n \in 0 .. Len(Scan(file))
        BY <2>2
      <3> QED
        BY <2>2, <3>1
    <2>4. l(n) \in LogRecord /\ Appending(l(n))
      BY <1>1, <2>3, LastInType DEF LogRecord, Appending
    <2>5. UNCHANGED <<file, synced, floor, given>> /\ faults' \in Nat
      BY <1>6, FaultType DEF ReplayFails
    <2> HIDE DEF l
    <2> QED
      BY <1>1, <1>2, <2>1, <2>4, <2>5, TypedByOne
  <1>7. CASE CloseLog(p)
    <2> DEFINE l == [NoLog EXCEPT !.at = "closed"]
    <2>1. l \in LogRecord /\ Appending(l)
      <3>1. l \in LogRecord /\ l.at = "closed"
        BY NoLogType DEF LogRecord
      <3> QED
        BY <3>1 DEF Appending
    <2>2. log' = [log EXCEPT ![p] = l] /\ UNCHANGED <<file, floor, given>>
      BY <1>7 DEF CloseLog
    <2>3. synced' \in {synced, file} /\ faults' \in Nat
      BY <1>7, FaultType DEF CloseLog
    <2> HIDE DEF l
    <2> QED
      BY <1>1, <1>2, <2>1, <2>2, <2>3, TypedByOne
  <1>8. ASSUME NEW ops \in Batches, WriteHeader(p, ops) PROVE LogsTyped'
    <2> DEFINE frame == NewFrameOf(p, ops)
               l == [log[p] EXCEPT !.at = "payload", !.frame = frame,
                                   !.cursor = @ + 1, !.seq = @ + Len(ops)]
    <2>1. frame \in Seq(Record) /\ frame # <<>> /\ Len(ops) \in Nat
      BY NewFrameType
    <2>2. log' = [log EXCEPT ![p] = l] /\ UNCHANGED <<synced, floor, given, faults>>
          /\ file' = WriteAt(file, log[p].cursor, <<Header(frame)>>)
      BY <1>8 DEF WriteHeader
    <2> HIDE DEF frame
    <2>3. l \in LogRecord /\ Appending(l)
      <3>1. log[p].cursor + 1 \in Nat /\ log[p].seq + Len(ops) \in Nat
        BY <1>1, <2>1 DEF LogRecord
      <3>2. l \in LogRecord /\ l.frame = frame
        BY <1>1, <2>1, <3>1 DEF LogRecord
      <3> QED
        BY <2>1, <3>2 DEF Appending
    <2>4. file' \in Seq(Cell)
      <3>1. <<Header(frame)>> \in Seq(Cell)
        BY <2>1, HeaderIsHeader
      <3>2. log[p].cursor \in Nat
        BY <1>1 DEF LogRecord
      <3> QED
        BY <1>1, <2>2, <3>1, <3>2, WriteAtType
    <2> HIDE DEF l
    <2> QED
      BY <1>1, <1>2, <2>2, <2>3, <2>4, TypedByOne
  <1>9. ASSUME NEW ops \in Batches, WriteHeaderFails(p, ops) PROVE LogsTyped'
    <2> DEFINE l(cells) == [log[p] EXCEPT !.cursor = @ + Len(cells), !.seq = @ + Len(ops)]
    <2>1. PICK cells \in {<<>>, <<Broken>>} :
             /\ file' = WriteAt(file, log[p].cursor, cells)
             /\ log' = [log EXCEPT ![p] = l(cells)]
      BY <1>9 DEF WriteHeaderFails
    <2>2. cells \in Seq(Cell) /\ Len(cells) \in Nat /\ Len(ops) \in Nat
      <3>1. <<>> \in Seq(Cell) /\ <<Broken>> \in Seq(Cell)
        BY BrokenIsHeader
      <3>2. Len(ops) \in Nat
        BY NewFrameType
      <3> QED
        BY <3>1, <3>2
    <2>3. l(cells) \in LogRecord /\ Appending(l(cells))
      <3>1. log[p].cursor + Len(cells) \in Nat /\ log[p].seq + Len(ops) \in Nat
        BY <1>1, <2>2 DEF LogRecord
      <3>2. l(cells) \in LogRecord /\ l(cells).frame = log[p].frame /\ l(cells).at = log[p].at
        BY <1>1, <3>1 DEF LogRecord
      <3> QED
        BY <1>1, <3>2 DEF Appending
    <2>4. file' \in Seq(Cell)
      BY <1>1, <2>1, <2>2, WriteAtType DEF LogRecord
    <2>5. UNCHANGED <<synced, floor>> /\ given' \in Nat /\ faults' \in Nat
      BY <1>1, <1>9, <2>2, FaultType DEF WriteHeaderFails, LogRecord
    <2> HIDE DEF l
    <2> QED
      BY <1>1, <1>2, <2>1, <2>3, <2>4, <2>5, TypedByOne
  <1>10. CASE WritePayload(p)
    <2> DEFINE l == [log[p] EXCEPT !.at = "sync", !.cursor = @ + Len(log[p].frame),
                                   !.size = @ + 1 + Len(log[p].frame)]
    <2>1. log[p].at = "payload" /\ log[p].frame # <<>>
      BY <1>1, <1>10 DEF WritePayload, At, Appending
    <2>2. log' = [log EXCEPT ![p] = l] /\ UNCHANGED <<synced, floor, faults>>
          /\ file' = WriteAt(file, log[p].cursor, log[p].frame) /\ given' = log[p].seq
      BY <1>10 DEF WritePayload
    <2>3. Len(log[p].frame) \in Nat /\ log[p].frame \in Seq(Cell) /\ log[p].seq \in Nat
      BY <1>1, RecordsAreCells DEF LogRecord
    <2>4. l \in LogRecord /\ Appending(l)
      <3>1. log[p].cursor + Len(log[p].frame) \in Nat /\ log[p].size + 1 + Len(log[p].frame) \in Nat
        BY <1>1, <2>3 DEF LogRecord
      <3>2. l \in LogRecord /\ l.frame = log[p].frame
        BY <1>1, <3>1 DEF LogRecord
      <3> QED
        BY <2>1, <3>2 DEF Appending
    <2>5. file' \in Seq(Cell)
      BY <1>1, <2>2, <2>3, WriteAtType DEF LogRecord
    <2> HIDE DEF l
    <2> QED
      BY <1>1, <1>2, <2>2, <2>3, <2>4, <2>5, TypedByOne
  <1>11. CASE WritePayloadFails(p)
    <2> DEFINE l(n) == [log[p] EXCEPT !.at = "ready", !.cursor = @ + n, !.frame = <<>>]
    <2>1. PICK n \in 0 .. Len(log[p].frame) - 1 :
             /\ file' = WriteAt(file, log[p].cursor, SubSeq(log[p].frame, 1, n))
             /\ log' = [log EXCEPT ![p] = l(n)]
      BY <1>11 DEF WritePayloadFails
    <2>2. log[p].frame \in Seq(Record) /\ n \in 0 .. Len(log[p].frame) /\ n \in Nat
      BY <1>1 DEF LogRecord
    <2>3. SubSeq(log[p].frame, 1, n) \in Seq(Cell)
      BY <2>2, PartType
    <2>4. l(n) \in LogRecord /\ Appending(l(n))
      <3>1. log[p].cursor + n \in Nat
        BY <1>1, <2>2 DEF LogRecord
      <3>2. l(n) \in LogRecord /\ l(n).at = "ready"
        <4> DEFINE at == log[p].cursor + n
        <4>1. at \in Nat /\ <<>> \in Seq(Record)
          BY <3>1
        <4> HIDE DEF at
        <4>2. [log[p] EXCEPT !.at = "ready", !.cursor = at, !.frame = <<>>] \in LogRecord
          BY <1>1, <4>1 DEF LogRecord
        <4>3. l(n) = [log[p] EXCEPT !.at = "ready", !.cursor = at, !.frame = <<>>]
          BY DEF at
        <4>4. l(n).at = "ready"
          BY <1>1 DEF LogRecord
        <4> QED
          BY <4>2, <4>3, <4>4
      <3> QED
        BY <3>2 DEF Appending
    <2>5. file' \in Seq(Cell)
      BY <1>1, <2>1, <2>3, WriteAtType DEF LogRecord
    <2>6. UNCHANGED <<synced, floor>> /\ given' \in Nat /\ faults' \in Nat
      BY <1>1, <1>11, FaultType DEF WritePayloadFails, LogRecord
    <2> HIDE DEF l
    <2> QED
      BY <1>1, <1>2, <2>1, <2>4, <2>5, <2>6, TypedByOne
  <1>12. CASE SyncAppend(p)
    <2> DEFINE l == [log[p] EXCEPT !.at = "ready", !.frame = <<>>, !.mem = LastSeq(log[p].frame)]
               m == [log[p] EXCEPT !.at = "ready", !.frame = <<>>]
    <2>1. LastSeq(log[p].frame) \in Nat
      <3>1. log[p].frame \in Frame
        BY <1>1, <1>12 DEF SyncAppend, At, Appending, LogRecord, Frame
      <3> QED
        BY <3>1, LastSeqType
    <2>2. l \in LogRecord /\ Appending(l) /\ m \in LogRecord /\ Appending(m)
      <3> DEFINE last == LastSeq(log[p].frame)
      <3> HIDE DEF last
      <3>3. <<>> \in Seq(Record) /\ last \in Nat
        BY <2>1 DEF last
      <3>4. [log[p] EXCEPT !.at = "ready", !.frame = <<>>, !.mem = last] \in LogRecord
        BY <1>1, <3>3 DEF LogRecord
      <3>1. l \in LogRecord /\ l.at = "ready"
        BY <1>1, <3>4 DEF LogRecord, last
      <3>5. m \in LogRecord
        BY <1>1, <3>3 DEF LogRecord
      <3>2. m \in LogRecord /\ m.at = "ready"
        BY <1>1, <3>5 DEF LogRecord
      <3> QED
        BY <3>1, <3>2 DEF Appending
    <2>3. /\ UNCHANGED <<file, floor, given>> /\ synced' \in {synced, file}
          /\ Fault \/ UNCHANGED faults
          /\ log' = [log EXCEPT ![p] = l] \/ log' = [log EXCEPT ![p] = m]
      BY <1>12 DEF SyncAppend
    <2>4. faults' \in Nat
      BY <2>3, FaultType
    <2> HIDE DEF l, m
    <2> QED
      BY <1>1, <1>2, <2>2, <2>3, <2>4, TypedByOne
  <1>13. CASE ResetLog(p)
    <2> DEFINE l == [log[p] EXCEPT !.at = "reset", !.mem = 0, !.size = 0, !.cursor = 0]
    <2>1. l \in LogRecord /\ Appending(l)
      BY <1>1 DEF LogRecord, Appending
    <2>2. log' = [log EXCEPT ![p] = l] /\ UNCHANGED <<synced, given, faults>> /\ file' = <<>>
      BY <1>13 DEF ResetLog
    <2>4. file' \in Seq(Cell)
      BY <2>2
    <2>3. floor' \in Nat
      BY <1>1, <1>2, <1>13, LargerType DEF ResetLog, LogRecord
    <2> HIDE DEF l
    <2> QED
      BY <1>1, <1>2, <2>1, <2>2, <2>3, <2>4, TypedByOne
  <1>14. CASE SyncReset(p)
    <2> DEFINE l == [log[p] EXCEPT !.at = "ready"]
    <2>1. l \in LogRecord /\ Appending(l)
      BY <1>1 DEF LogRecord, Appending
    <2>2. log' = [log EXCEPT ![p] = l] /\ UNCHANGED <<file, floor, given>>
          /\ synced' \in {synced, file} /\ (Fault \/ UNCHANGED faults)
      BY <1>14 DEF SyncReset
    <2>3. faults' \in Nat
      BY <2>2, FaultType
    <2> HIDE DEF l
    <2> QED
      BY <1>1, <1>2, <2>1, <2>2, <2>3, TypedByOne
  <1> QED
    BY <1>3, <1>4, <1>5, <1>6, <1>7, <1>8, <1>9, <1>10, <1>11, <1>12, <1>13, <1>14 DEF LogStep

LEMMA LogsTypedNext == LogsTyped /\ [LockedNext]_lockedVars => LogsTyped'
  <1> SUFFICES ASSUME LogsTyped, [LockedNext]_lockedVars PROVE LogsTyped'
    OBVIOUS
  <1>1. ASSUME NEW p \in Procs, LogStep(p) PROVE LogsTyped'
    BY <1>1, LogStepTyped
  <1>2. ASSUME UNCHANGED <<logVars, crashes>>, faults' \in Nat PROVE LogsTyped'
    BY <1>2 DEF LogsTyped, logVars, Appending
  <1>3. ASSUME NEW p \in Procs, Attempt(p) \/ Acquiring(p) \/ AcquireFails(p) PROVE LogsTyped'
    <2>1. UNCHANGED <<logVars, crashes>> /\ (Fault \/ UNCHANGED faults)
      BY <1>3 DEF Attempt, Acquiring, AcquireFails, faultVars
    <2> QED
      BY <1>2, <2>1, FaultType
  <1>4. ASSUME NEW p \in Procs, GiveBack(p) \/ Kill(p) PROVE LogsTyped'
    <2>1. log' = [log EXCEPT ![p] = NoLog] /\ UNCHANGED <<file, synced, floor, faults>>
      BY <1>4 DEF GiveBack, Kill, faultVars
    <2>2. {floor, given, faults, crashes}' \subseteq Nat
      BY <1>4 DEF GiveBack, Kill, LogsTyped, LogRecord, faultVars
    <2>3. NoLog \in LogRecord /\ Appending(NoLog) /\ file' \in Seq(Cell) /\ synced' = synced
      BY <2>1, NoLogType DEF Appending, LogsTyped
    <2> QED
      BY <2>1, <2>2, <2>3, TypedByOne
  <1>5. CASE TimePasses \/ UNCHANGED lockedVars
    <2>1. UNCHANGED <<logVars, faultVars>>
      BY <1>5 DEF TimePasses, lockedVars
    <2>2. faults' \in Nat /\ UNCHANGED <<logVars, crashes>>
      BY <2>1 DEF faultVars, LogsTyped
    <2> QED
      BY <1>2, <2>2
  <1>6. CASE PowerLoss
    <2>1. file' \in Seq(Cell) /\ synced' \in Seq(Cell)
      BY <1>6, ImageType DEF PowerLoss, LogsTyped
    <2>2. {floor, given, faults, crashes}' \subseteq Nat
      BY <1>6 DEF PowerLoss, LogsTyped
    <2>3. log' \in [Procs -> LogRecord] /\ \A p \in Procs : log'[p] = NoLog
      BY <1>6, NoLogType DEF PowerLoss
    <2>4. \A p \in Procs : Appending(log'[p])
      BY <2>3, NoLogType DEF Appending
    <2> QED
      BY <2>1, <2>2, <2>3, <2>4 DEF LogsTyped, Appending
  <1> QED
    BY <1>1, <1>3, <1>4, <1>5, <1>6 DEF LockedNext

-----------------------------------------------------------------------------
(* The lock, with the log under it and power failures.                       *)

LEMMA LockedSteps ==
    ASSUME [LockedNext]_lockedVars
    PROVE  [LockNext]_lockVars \/ PowerLoss
  <1>1. ASSUME NEW p \in Procs,
               Attempt(p) \/ Acquiring(p) \/ AcquireFails(p) \/ GiveBack(p) \/ Kill(p)
        PROVE  LockNext
    <2>1. Call(p)
      BY <1>1 DEF Attempt, Acquiring, AcquireFails, GiveBack, Kill, Call
    <2> QED
      BY <2>1 DEF LockNext
  <1>2. ASSUME NEW p \in Procs, LogStep(p) PROVE UNCHANGED lockVars
    BY <1>2 DEF LogStep
  <1>3. TimePasses => LockNext
    BY DEF TimePasses, LockNext
  <1>4. UNCHANGED lockedVars => UNCHANGED lockVars
    BY DEF lockedVars
  <1> QED
    BY <1>1, <1>2, <1>3, <1>4 DEF LockedNext

LEMMA PowerLossLock ==
    ASSUME LockTypeOK, PowerLoss
    PROVE  /\ \/ lockFile' = Absent
              \/ /\ lockFile.there
                 /\ lockFile' \in LockFile /\ lockFile'.orphan /\ lockFile'.old = lockFile.old
           /\ step' = [p \in Procs |-> "out"]
           /\ aged' = aged
  <1>3. step' = [p \in Procs |-> "out"] /\ aged' = aged
    BY DEF PowerLoss
  <1>1. CASE lockFile' = Absent
    BY <1>1, <1>3
  <1>2. CASE lockFile' # Absent
    <2>1. lockFile.there /\ lockFile' = [lockFile EXCEPT !.orphan = TRUE]
      BY <1>2 DEF PowerLoss
    <2>2. lockFile \in LockFile
      BY <2>1, OnDiskType
    <2> QED
      BY <1>3, <2>1, <2>2 DEF LockFile
  <1> QED
    BY <1>1, <1>2

LEMMA LockKept ==
    ASSUME LockTypeOK, Owned, NoLeak, [LockedNext]_lockedVars
    PROVE  LockTypeOK' /\ Owned' /\ NoLeak'
  <1>1. CASE [LockNext]_lockVars
    BY <1>1, LockTypeNext, OwnedNext, NoLeakNext
  <1>2. CASE PowerLoss
    <2> USE PowerLossLock, <1>2
    <2>1. LockTypeOK'
      BY DEF LockTypeOK, Steps
    <2>2. Owned'
      BY DEF Owned, OwnedBy, Inside, Absent
    <2>3. NoLeak'
      BY DEF NoLeak, Absent
    <2> QED
      BY <2>1, <2>2, <2>3
  <1> QED
    BY <1>1, <1>2, LockedSteps

LEMMA LockKeptInit == LockedInit => LockTypeOK /\ Owned /\ NoLeak
  <1>1. LockInit => NoLeak
    BY DEF LockInit, NoLeak, Absent
  <1> QED
    BY <1>1, LockTypeInit, OwnedInit DEF LockedInit

\* The variables of the lock and of the log keep their types, and no offset falls
\* below the start of the file.
THEOREM LockedTypeCorrect == LockedSpec => []LockedTypeOK
  <1>1. LockedInit => LockTypeOK /\ Owned /\ NoLeak /\ LogsTyped
    BY LockKeptInit, LogsTypedInit
  <1>2. LockTypeOK /\ Owned /\ NoLeak /\ LogsTyped /\ [LockedNext]_lockedVars
           => (LockTypeOK /\ Owned /\ NoLeak /\ LogsTyped)'
    BY LockKept, LogsTypedNext
  <1> QED
    BY <1>1, <1>2, TypedIsOK, PTL DEF LockedSpec

\* With sessions, kills and power failures, the lock still excludes until a lock
\* file gets stale.
THEOREM LockedExclusion == LockedSpec => []FreshExclusion
  <1>1. LockTypeOK /\ Owned /\ NoLeak /\ [LockedNext]_lockedVars
           => (LockTypeOK /\ Owned /\ NoLeak)'
    BY LockKept
  <1>2. Owned => FreshExclusion
    BY DEF Owned, OwnedBy, FreshExclusion, MutualExclusion, Inside
  <1> QED
    BY <1>1, <1>2, LockKeptInit, PTL DEF LockedSpec

\* And only a crash leaves a lock file behind.
THEOREM LockedNothingLeaks == LockedSpec => []NoLeak
  <1>1. LockTypeOK /\ Owned /\ NoLeak /\ [LockedNext]_lockedVars
           => (LockTypeOK /\ Owned /\ NoLeak)'
    BY LockKept
  <1> QED
    BY <1>1, LockKeptInit, PTL DEF LockedSpec

-----------------------------------------------------------------------------
(* One session at a time has the log open: a process opens it while it holds *)
(* the lock, and once a lock was stolen only if nobody has it open.          *)

Sessions ==
    /\ \A p \in Procs : log[p].at # "none" => step[p] = "held"
    /\ \A p, q \in Procs : LogIsOpen(p) /\ LogIsOpen(q) => p = q

LEMMA SessionsInit == LockedInit => Sessions
  BY DEF LockedInit, Sessions, LogIsOpen, NoLog

\* The states of a session that its steps start from and end in.
LEMMA LogStepStates ==
    ASSUME LogsTyped, NEW p \in Procs, LogStep(p)
    PROVE  /\ step[p] = "held" /\ UNCHANGED step
           /\ \A q \in Procs \ {p} : log'[q] = log[q]
           /\ LogIsOpen(p) \/ OpenLog(p)
  <1> USE DEF LogsTyped
  <1>1. CASE OpenLog(p) \/ CutTail(p) \/ Replay(p) \/ ReplayFails(p) \/ CloseLog(p)
    BY <1>1 DEF LogStep, lockVars, OpenLog, CutTail, Replay, ReplayFails, CloseLog, At, LogIsOpen
  <1>2. ASSUME NEW ops \in Batches, WriteHeader(p, ops) \/ WriteHeaderFails(p, ops)
        PROVE  /\ step[p] = "held" /\ UNCHANGED step
               /\ \A q \in Procs \ {p} : log'[q] = log[q]
               /\ LogIsOpen(p)
    BY <1>2 DEF LogStep, lockVars, WriteHeader, WriteHeaderFails, MayAppend, At, LogIsOpen
  <1>3. CASE WritePayload(p) \/ WritePayloadFails(p) \/ SyncAppend(p)
    BY <1>3 DEF LogStep, lockVars, WritePayload, WritePayloadFails, SyncAppend, At, LogIsOpen
  <1>4. CASE ResetLog(p) \/ SyncReset(p)
    BY <1>4 DEF LogStep, lockVars, ResetLog, SyncReset, At, LogIsOpen
  <1> QED
    BY <1>1, <1>2, <1>3, <1>4 DEF LogStep

LEMMA SessionsNext ==
    ASSUME LogsTyped, LockTypeOK, Owned, Sessions, [LockedNext]_lockedVars
    PROVE  Sessions'
  <1> USE DEF Sessions, LogIsOpen, LockTypeOK
  <1>0. log \in [Procs -> LogRecord]
    BY DEF LogsTyped
  <1>1. ASSUME NEW p \in Procs, LogStep(p) PROVE Sessions'
    <2>1. /\ step[p] = "held" /\ UNCHANGED step /\ \A q \in Procs \ {p} : log'[q] = log[q]
          /\ LogIsOpen(p) \/ OpenLog(p)
      BY <1>1, LogStepStates
    <2>2. \A q \in Procs : LogIsOpen(q) => q = p
      <3>1. CASE LogIsOpen(p)
        BY <3>1
      <3>2. CASE OpenLog(p) /\ aged
        BY <3>2 DEF OpenLog
      <3>3. CASE OpenLog(p) /\ ~aged
        <4>1. \A q \in Procs : LogIsOpen(q) => step[q] = "held"
          OBVIOUS
        <4>2. \A q \in Procs : step[q] = "held" => lockFile.by = q
          BY <3>3 DEF Owned, OwnedBy, Inside
        <4> QED
          BY <2>1, <4>1, <4>2
      <3> QED
        BY <2>1, <3>1, <3>2, <3>3
    <2> QED
      BY <2>1, <2>2
  <1>2. ASSUME log' = log, \A q \in Procs : step[q] = "held" => step'[q] = "held"
        PROVE  Sessions'
    BY <1>2
  <1>3. ASSUME NEW p \in Procs, Attempt(p) \/ Acquiring(p) \/ AcquireFails(p) PROVE Sessions'
    <2>1. log' = log
      BY <1>3 DEF Attempt, Acquiring, AcquireFails, logVars
    <2>2. \A q \in Procs : step[q] = "held" => step'[q] = "held"
      BY <1>3 DEF Attempt, Acquiring, AcquireFails, Acquire, TryCreate, Stat, RemoveStale,
                  Recreate, Create, WriteContent, WriteContentFails, GiveUp, Goes
    <2> QED
      BY <1>2, <2>1, <2>2
  <1>4. ASSUME NEW p \in Procs, GiveBack(p) \/ Kill(p) PROVE Sessions'
    <2>1. log' = [log EXCEPT ![p] = NoLog] /\ step' = [step EXCEPT ![p] = "out"]
      BY <1>4 DEF GiveBack, Kill, KillProcess, Release, GiveUp, Goes
    <2> QED
      BY <1>0, <2>1, NoLogType
  <1>5. CASE TimePasses \/ UNCHANGED lockedVars
    BY <1>2, <1>5 DEF TimePasses, Age, lockedVars, lockVars, logVars
  <1>6. CASE PowerLoss
    BY <1>6, NoLogType DEF PowerLoss
  <1> QED
    BY <1>1, <1>3, <1>4, <1>5, <1>6 DEF LockedNext

-----------------------------------------------------------------------------
(* What the scan finds depends on what it reads only.                        *)

LEMMA MakesReadable ==
    ASSUME NEW f \in Seq(Cell), NEW i \in Nat, NEW payload \in Seq(Record),
           payload # <<>>, i + 1 + Len(payload) =< Len(f), f[i + 1] = Header(payload),
           \A j \in 1 .. Len(payload) : f[i + 1 + j] = payload[j]
    PROVE  ReadableAt(f, i)
  <1>1. Len(f) \in Nat /\ Len(payload) \in Nat /\ i < Len(f)
    OBVIOUS
  <1>2. "frame" \in DOMAIN f[i + 1] /\ f[i + 1].frame = payload
    BY DEF Header
  <1> DEFINE body == SubSeq(f, i + 2, i + 1 + Len(payload))
  <1>3. body \in Seq(Cell) /\ Len(body) = Len(payload)
    BY <1>1
  <1>4. \A j \in 1 .. Len(payload) : body[j] = payload[j]
    <2> TAKE j \in 1 .. Len(payload)
    <2>1. j \in 1 .. Len(body) /\ i + 2 + j - 1 = i + 1 + j
      BY <1>1, <1>3
    <2>2. body[j] = f[i + 1 + j]
      BY <1>1, <2>1
    <2> QED
      BY <2>2
  <1>5. body = payload
    <2> HIDE DEF body
    <2> QED
      BY <1>3, <1>4
  <1> QED
    BY <1>1, <1>2, <1>5 DEF ReadableAt

LEMMA HeaderOfFrame == \A c \in Headers : c = Header(c.frame)
  BY DEF Headers, Header

LEMMA SameFrame ==
    ASSUME NEW f \in Seq(Cell), NEW g \in Seq(Cell), NEW i \in 0 .. Len(f),
           ReadableAt(f, i), NextFrame(f, i) =< Len(g),
           \A k \in i + 1 .. NextFrame(f, i) : g[k] = f[k]
    PROVE  /\ ReadableAt(g, i) /\ g[i + 1].frame = f[i + 1].frame
           /\ NextFrame(g, i) = NextFrame(f, i)
  <1> DEFINE n == NextFrame(f, i)
             payload == f[i + 1].frame
  <1>1. /\ f[i + 1] \in Headers /\ payload \in Seq(Record) /\ payload # <<>>
        /\ n = i + 1 + Len(payload) /\ n =< Len(g) /\ i \in Nat
        /\ \A j \in 1 .. Len(payload) : f[i + 1 + j] = payload[j]
    <2>1. i \in Nat /\ n =< Len(g)
      OBVIOUS
    <2> HIDE DEF n
    <2>2. /\ f[i + 1] \in Headers /\ payload \in Seq(Record) /\ payload # <<>>
          /\ \A j \in 1 .. Len(payload) : f[i + 1 + j] = payload[j]
      BY ReadableIs
    <2>3. n = i + 1 + Len(payload)
      BY ReadableIs DEF n
    <2> QED
      BY <2>1, <2>2, <2>3
  <1>2. \A k \in i + 1 .. n : g[k] = f[k]
    OBVIOUS
  <1>3. f[i + 1] = Header(payload)
    BY <1>1, HeaderOfFrame
  <1>4. NextFrame(g, i) = i + 1 + Len(g[i + 1].frame)
    BY DEF NextFrame
  <1> HIDE DEF n, payload
  <1>5. Len(payload) \in Nat
    BY <1>1
  <1>6. g[i + 1] = Header(payload) /\ g[i + 1] = f[i + 1]
    BY <1>1, <1>2, <1>3, <1>5
  <1>7. \A j \in 1 .. Len(payload) : g[i + 1 + j] = payload[j]
    <2> TAKE j \in 1 .. Len(payload)
    <2>1. i + 1 + j \in i + 1 .. n
      BY <1>1, <1>5
    <2> QED
      BY <1>1, <1>2, <2>1
  <1>8. ReadableAt(g, i)
    BY <1>1, <1>6, <1>7, MakesReadable
  <1> QED
    BY <1>1, <1>4, <1>6, <1>8 DEF n, payload

\* A file that starts with the readable part of another one reads as that one,
\* and then as what follows.
LEMMA ScanSplit ==
    ASSUME NEW f \in Seq(Cell), NEW g \in Seq(Cell), NEW v \in Nat, v = ValidEnd(f),
           v =< Len(g), \A k \in 1 .. v : g[k] = f[k]
    PROVE  \E rest \in Seq(Seq(Record)) :
              /\ Scan(g) = Scan(f) \o rest
              /\ ~ReadableAt(g, v) => rest = <<>> /\ ValidEnd(g) = v
              /\ ReadableAt(g, v) /\ ~ReadableAt(g, NextFrame(g, v))
                    => rest = <<g[v + 1].frame>> /\ ValidEnd(g) = NextFrame(g, v)
  <1>1. PICK from \in [0 .. Len(f) -> Seq(Seq(Record))] :
           /\ Scan(f) = from[0]
           /\ \A i \in 0 .. Len(f) :
                 from[i] = IF ReadableAt(f, i) THEN <<f[i + 1].frame>> \o from[NextFrame(f, i)] ELSE <<>>
    BY ScanIs
  <1>2. PICK end \in [0 .. Len(f) -> 0 .. Len(f)] :
           /\ ValidEnd(f) = end[0]
           /\ \A i \in 0 .. Len(f) :
                 /\ end[i] = IF ReadableAt(f, i) THEN end[NextFrame(f, i)] ELSE i
                 /\ i =< end[i]
                 /\ ~ReadableAt(f, end[i])
    BY EndIs
  <1>3. PICK gfrom \in [0 .. Len(g) -> Seq(Seq(Record))] :
           /\ Scan(g) = gfrom[0]
           /\ \A i \in 0 .. Len(g) :
                 gfrom[i] = IF ReadableAt(g, i) THEN <<g[i + 1].frame>> \o gfrom[NextFrame(g, i)] ELSE <<>>
    BY ScanIs
  <1>4. PICK gend \in [0 .. Len(g) -> 0 .. Len(g)] :
           /\ ValidEnd(g) = gend[0]
           /\ \A i \in 0 .. Len(g) : gend[i] = IF ReadableAt(g, i) THEN gend[NextFrame(g, i)] ELSE i
    BY EndIs
  <1>5. /\ Len(f) \in Nat /\ Len(g) \in Nat /\ v \in 0 .. Len(f) /\ v \in 0 .. Len(g)
        /\ 0 \in 0 .. Len(f) /\ ~ReadableAt(f, v) /\ end[v] = v /\ from[v] = <<>>
    <2>1. 0 \in 0 .. Len(f) /\ v = end[0] /\ Len(f) \in Nat /\ Len(g) \in Nat
      BY <1>2
    <2>2. v \in 0 .. Len(f) /\ ~ReadableAt(f, v)
      BY <1>2, <2>1
    <2>3. end[v] = v /\ from[v] = <<>>
      BY <1>1, <1>2, <2>2
    <2>4. v \in 0 .. Len(g)
      BY <2>1
    <2> QED
      BY <2>1, <2>2, <2>3, <2>4
  <1> DEFINE H(i) == end[i] = v => gfrom[i] = from[i] \o gfrom[v] /\ gend[i] = gend[v]
             S == {k \in 0 .. v : \A i \in k .. v : H(i)}
  <1>6. v \in S
    <2>1. gfrom[v] \in Seq(Seq(Record))
      BY <1>3, <1>5
    <2>2. <<>> \o gfrom[v] = gfrom[v]
      BY <2>1
    <2>3. H(v)
      BY <1>5, <2>2
    <2>4. v \in 0 .. v /\ \A i \in v .. v : i = v
      OBVIOUS
    <2> HIDE DEF H
    <2> QED
      BY <2>3, <2>4
  <1>7. ASSUME NEW k \in 1 .. v, k \in S PROVE k - 1 \in S
    <2> DEFINE i == k - 1
    <2>1. \A m \in k .. v : H(m)
      BY <1>7
    <2>2. i \in 0 .. Len(f) /\ i \in 0 .. Len(g) /\ i < v /\ i \in 0 .. v /\ i + 1 = k /\ k \in Nat
      BY <1>5, <1>7
    <2> HIDE DEF S, i
    <2>3. ASSUME end[i] = v PROVE gfrom[i] = from[i] \o gfrom[v] /\ gend[i] = gend[v]
      <3> DEFINE n == NextFrame(f, i)
      <3>1. ReadableAt(f, i)
        BY <1>2, <2>2, <2>3
      <3>2. n \in 0 .. Len(f) /\ i < n /\ end[n] = v /\ f[i + 1].frame \in Seq(Record)
        BY <1>2, <2>2, <2>3, <3>1, ReadableIs
      <3>3. n =< v /\ n \in k .. v /\ n \in 0 .. Len(g) /\ n =< Len(g)
        <4> HIDE DEF n
        <4>1. n =< end[n] /\ n \in Nat
          <5>1. \A m \in 0 .. Len(f) : m =< end[m]
            BY <1>2
          <5> QED
            BY <3>2, <5>1
        <4>2. i \in Nat /\ i < n /\ end[n] = v /\ i + 1 = k /\ k \in Nat /\ Len(g) \in Nat /\ v =< Len(g)
          BY <1>5, <2>2, <3>2
        <4> QED
          BY <4>1, <4>2
      <3>4. \A m \in i + 1 .. n : g[m] = f[m]
        BY <1>5, <2>2, <3>3
      <3>5. ReadableAt(g, i) /\ g[i + 1].frame = f[i + 1].frame /\ NextFrame(g, i) = n
        BY <2>2, <3>1, <3>3, <3>4, SameFrame
      <3>6. gfrom[n] = from[n] \o gfrom[v] /\ gend[n] = gend[v]
        BY <2>1, <3>2, <3>3
      <3> DEFINE h == <<f[i + 1].frame>>
      <3>7. gfrom[i] = h \o gfrom[n] /\ gend[i] = gend[n] /\ from[i] = h \o from[n]
        BY <1>1, <1>3, <1>4, <2>2, <3>1, <3>5
      <3>8. h \in Seq(Seq(Record)) /\ from[n] \in Seq(Seq(Record)) /\ gfrom[v] \in Seq(Seq(Record))
        BY <1>1, <1>3, <1>5, <3>2
      <3>9. h \o (from[n] \o gfrom[v]) = (h \o from[n]) \o gfrom[v]
        <4> DEFINE F == Seq(Record)
                   x == from[n]
                   y == gfrom[v]
        <4>1. h \in Seq(F) /\ x \in Seq(F) /\ y \in Seq(F)
          BY <3>8
        <4> HIDE DEF F, x, y, h
        <4>2. h \o (x \o y) = (h \o x) \o y
          BY <4>1
        <4> QED
          BY <4>2 DEF x, y
      <3> QED
        BY <3>6, <3>7, <3>9
    <2>4. \A m \in i .. v : m = i \/ m \in k .. v
      BY <2>2
    <2>5. \A m \in i .. v : H(m)
      BY <2>1, <2>3, <2>4
    <2> QED
      BY <2>2, <2>5 DEF S, i
  <1>8. 0 \in S
    <2>1. S \in SUBSET Nat
      OBVIOUS
    <2> HIDE DEF S
    <2> QED
      BY <1>6, <1>7, <2>1, DownwardInduction
  <1>9. gfrom[0] = from[0] \o gfrom[v] /\ gend[0] = gend[v]
    BY <1>2, <1>5, <1>8
  <1>10. ~ReadableAt(g, v) => gfrom[v] = <<>> /\ gend[v] = v
    BY <1>3, <1>4, <1>5
  <1>11. ASSUME ReadableAt(g, v), ~ReadableAt(g, NextFrame(g, v))
         PROVE  gfrom[v] = <<g[v + 1].frame>> /\ gend[v] = NextFrame(g, v)
    <2>1. NextFrame(g, v) \in 0 .. Len(g) /\ g[v + 1].frame \in Seq(Record)
      BY <1>5, <1>11, ReadableIs
    <2>2. gfrom[NextFrame(g, v)] = <<>> /\ gend[NextFrame(g, v)] = NextFrame(g, v)
      BY <1>3, <1>4, <1>11, <2>1
    <2>3. gfrom[v] = <<g[v + 1].frame>> \o <<>> /\ gend[v] = NextFrame(g, v)
      BY <1>3, <1>4, <1>5, <1>11, <2>2
    <2> QED
      BY <2>1, <2>3
  <1>12. gfrom[v] \in Seq(Seq(Record))
    BY <1>3, <1>5
  <1> QED
    BY <1>1, <1>3, <1>4, <1>9, <1>10, <1>11, <1>12

LEMMA ScanKept ==
    ASSUME NEW f \in Seq(Cell), NEW g \in Seq(Cell), ValidEnd(f) =< Len(g),
           \A k \in 1 .. ValidEnd(f) : g[k] = f[k], ~ReadableAt(g, ValidEnd(f))
    PROVE  Scan(g) = Scan(f) /\ ValidEnd(g) = ValidEnd(f)
  <1> DEFINE v == ValidEnd(f)
  <1>1. v \in Nat
    BY ValidEndType
  <1>2. v = ValidEnd(f) /\ v =< Len(g) /\ (\A k \in 1 .. v : g[k] = f[k]) /\ ~ReadableAt(g, v)
    OBVIOUS
  <1> HIDE DEF v
  <1>3. PICK rest \in Seq(Seq(Record)) :
           Scan(g) = Scan(f) \o rest /\ rest = <<>> /\ ValidEnd(g) = v
    BY <1>1, <1>2, ScanSplit
  <1>4. Scan(f) \o <<>> = Scan(f)
    BY FramesType
  <1> QED
    BY <1>2, <1>3, <1>4

\* Cutting the file where its frames end takes no frame away.
LEMMA ScanCut ==
    ASSUME NEW f \in Seq(Cell), NEW g, g = Resize(f, ValidEnd(f))
    PROVE  g \in Seq(Cell) /\ Scan(g) = Scan(f) /\ Len(g) = ValidEnd(f) /\ ValidEnd(g) = Len(g)
  <1>1. ValidEnd(f) \in Nat /\ ValidEnd(f) =< Len(f) /\ Len(f) \in Nat
    BY ValidEndType
  <1>2. g \in Seq(Cell) /\ Len(g) = ValidEnd(f)
    BY <1>1, ResizeType
  <1>3. \A k \in 1 .. ValidEnd(f) : g[k] = f[k]
    BY <1>1 DEF Resize
  <1>4. ~ReadableAt(g, ValidEnd(f))
    BY <1>1, <1>2 DEF ReadableAt
  <1> QED
    BY <1>1, <1>2, <1>3, <1>4, ScanKept

Extends(g, f) == Len(f) < Len(g) /\ \A i \in 1 .. Len(f) : g[i] = f[i]

LEMMA StopsThere ==
    ASSUME NEW f \in Seq(Cell)
    PROVE  ~ReadableAt(f, ValidEnd(f))
  <1>1. 0 \in 0 .. Len(f)
    OBVIOUS
  <1> QED
    BY <1>1, EndIs

\* A file that goes on with a header: behind bytes that are no frame nothing that
\* is appended is found, and otherwise it is found when it is a whole frame.
LEMMA ScanAppended ==
    ASSUME NEW f \in Seq(Cell), NEW g \in Seq(Cell), Extends(g, f), g[Len(f) + 1] \in Headers
    PROVE  /\ ValidEnd(f) < Len(f) \/ ~ReadableAt(g, Len(f))
                 => Scan(g) = Scan(f) /\ ValidEnd(g) = ValidEnd(f)
           /\ ValidEnd(f) = Len(f) /\ ReadableAt(g, Len(f)) /\ NextFrame(g, Len(f)) = Len(g)
                 => Scan(g) = Append(Scan(f), g[Len(f) + 1].frame) /\ ValidEnd(g) = Len(g)
  <1> DEFINE v == ValidEnd(f)
  <1>1. v \in Nat /\ v =< Len(f) /\ Len(f) \in Nat /\ Len(g) \in Nat /\ Len(f) < Len(g)
    BY ValidEndType DEF Extends
  <1>2. \A k \in 1 .. v : g[k] = f[k]
    BY <1>1 DEF Extends
  <1>3. ASSUME v < Len(f), ReadableAt(g, v) PROVE FALSE
    <2>1. NextFrame(g, v) =< Len(f)
      BY <1>1, <1>3, FrameStops
    <2>2. v \in 0 .. Len(g) /\ NextFrame(g, v) \in Nat
      <3>1. v \in 0 .. Len(g)
        BY <1>1
      <3>2. NextFrame(g, v) \in 0 .. Len(g)
        BY <1>3, <3>1, ReadableIs
      <3> QED
        BY <1>1, <3>1, <3>2
    <2>3. \A k \in v + 1 .. NextFrame(g, v) : f[k] = g[k]
      BY <1>1, <2>1, <2>2 DEF Extends
    <2>4. ReadableAt(f, v)
      BY <1>3, <2>1, <2>2, <2>3, SameFrame
    <2> QED
      BY <2>4, StopsThere
  <1>4. ASSUME v < Len(f) \/ ~ReadableAt(g, Len(f))
        PROVE  Scan(g) = Scan(f) /\ ValidEnd(g) = ValidEnd(f)
    <2>1. ~ReadableAt(g, v)
      BY <1>1, <1>3, <1>4
    <2> QED
      BY <1>1, <1>2, <2>1, ScanKept
  <1>5. ASSUME v = Len(f), ReadableAt(g, Len(f)), NextFrame(g, Len(f)) = Len(g)
        PROVE  Scan(g) = Append(Scan(f), g[Len(f) + 1].frame) /\ ValidEnd(g) = Len(g)
    <2>1. v \in 0 .. Len(g) /\ ReadableAt(g, v) /\ NextFrame(g, v) = Len(g) /\ v =< Len(g)
      BY <1>1, <1>5
    <2>2. ~ReadableAt(g, NextFrame(g, v))
      <3>1. ASSUME ReadableAt(g, Len(g)) PROVE FALSE
        <4>1. Len(g) < Len(g)
          BY <3>1 DEF ReadableAt
        <4> QED
          BY <1>1, <4>1
      <3> QED
        BY <2>1, <3>1
    <2>3. v = ValidEnd(f)
      OBVIOUS
    <2> HIDE DEF v
    <2>4. PICK rest \in Seq(Seq(Record)) :
             Scan(g) = Scan(f) \o rest /\ rest = <<g[v + 1].frame>> /\ ValidEnd(g) = NextFrame(g, v)
      BY <1>1, <1>2, <2>1, <2>2, <2>3, ScanSplit
    <2>5. Scan(f) \in Seq(Seq(Record)) /\ g[v + 1].frame \in Seq(Record)
      BY <2>1, FramesType, ReadableIs
    <2>6. Scan(f) \o <<g[v + 1].frame>> = Append(Scan(f), g[v + 1].frame)
      BY <2>5
    <2> QED
      BY <1>5, <2>1, <2>4, <2>6
  <1> QED
    BY <1>4, <1>5

\* A header written at the end of a file is not a frame yet.
LEMMA HeaderWritten ==
    ASSUME NEW f \in Seq(Cell), NEW frame \in Seq(Record),
           NEW g, g = WriteAt(f, Len(f), <<Header(frame)>>)
    PROVE  /\ g \in Seq(Cell) /\ Len(g) = Len(f) + 1 /\ g # <<>>
           /\ g[Len(g)] = Header(frame) /\ Front(g) = f
           /\ Scan(g) = Scan(f) /\ ValidEnd(g) = ValidEnd(f) /\ ValidEnd(g) < Len(g)
  <1> DEFINE h == <<Header(frame)>>
  <1>1. h \in Seq(Cell) /\ Len(h) = 1 /\ h[1] = Header(frame)
    BY HeaderIsHeader
  <1> HIDE DEF h
  <1>2. /\ g \in Seq(Cell) /\ Len(g) = Len(f) + 1 /\ Len(f) \in Nat
        /\ \A i \in 1 .. Len(f) : g[i] = f[i]
        /\ g[Len(f) + 1] = Header(frame)
    <2>1. /\ g \in Seq(Cell) /\ Len(g) = Len(f) + Len(h)
          /\ \A i \in 1 .. Len(f) : g[i] = f[i]
          /\ \A i \in 1 .. Len(h) : g[Len(f) + i] = h[i]
      BY <1>1, AppendedAt DEF h
    <2> QED
      BY <1>1, <2>1
  <1>3. g[Len(f) + 1] \in Headers /\ g[Len(f) + 1].frame = frame
    BY <1>2, HeaderIsHeader
  <1>4. ~ReadableAt(g, Len(f))
    <2> SUFFICES ASSUME ReadableAt(g, Len(f)) PROVE FALSE
      OBVIOUS
    <2>1. frame # <<>> /\ Len(f) + 1 + Len(frame) =< Len(g)
      BY <1>3 DEF ReadableAt
    <2> QED
      BY <1>2, <2>1
  <1>5. Extends(g, f)
    BY <1>2 DEF Extends
  <1>6. Scan(g) = Scan(f) /\ ValidEnd(g) = ValidEnd(f)
    BY <1>2, <1>3, <1>4, <1>5, ScanAppended
  <1>7. ValidEnd(f) \in 0 .. Len(f)
    BY ValidEndType
  <1>8. Front(g) = f
    <2>1. Front(g) = SubSeq(g, 1, Len(f))
      BY <1>2 DEF Front
    <2>2. SubSeq(g, 1, Len(f)) \in Seq(Cell) /\ Len(SubSeq(g, 1, Len(f))) = Len(f)
      BY <1>2
    <2>3. \A i \in 1 .. Len(f) : SubSeq(g, 1, Len(f))[i] = f[i]
      BY <1>2
    <2> QED
      BY <2>1, <2>2, <2>3
  <1> QED
    BY <1>2, <1>6, <1>7, <1>8

LEMMA FrontIs ==
    ASSUME NEW f \in Seq(Cell), f # <<>>
    PROVE  /\ Front(f) \in Seq(Cell) /\ Len(Front(f)) = Len(f) - 1 /\ Len(f) - 1 \in Nat
           /\ \A i \in 1 .. Len(f) - 1 : Front(f)[i] = f[i]
  <1> DEFINE n == Len(f) - 1
  <1>1. n \in Nat /\ n =< Len(f) /\ Len(f) \in Nat
    OBVIOUS
  <1>2. Front(f) = SubSeq(f, 1, n)
    BY DEF Front
  <1> HIDE DEF n
  <1>3. SubSeq(f, 1, n) \in Seq(Cell) /\ Len(SubSeq(f, 1, n)) = n
    BY <1>1
  <1>4. \A i \in 1 .. n : SubSeq(f, 1, n)[i] = f[i]
    BY <1>1
  <1> QED
    BY <1>1, <1>2, <1>3, <1>4 DEF n

\* A payload written behind its header makes the frame, if it is complete and the
\* file read as frames up to the header.
LEMMA PayloadWritten ==
    ASSUME NEW f \in Seq(Cell), f # <<>>, NEW frame \in Seq(Record), frame # <<>>,
           f[Len(f)] = Header(frame), NEW n \in 0 .. Len(frame),
           NEW g, g = WriteAt(f, Len(f), SubSeq(frame, 1, n))
    PROVE  /\ g \in Seq(Cell) /\ Len(g) = Len(f) + n /\ Len(f) \in Nat
           /\ n < Len(frame) \/ ValidEnd(Front(f)) < Len(f) - 1
                 => Scan(g) = Scan(Front(f)) /\ ValidEnd(g) = ValidEnd(Front(f))
           /\ n = Len(frame) /\ ValidEnd(Front(f)) = Len(f) - 1
                 => Scan(g) = Append(Scan(Front(f)), frame) /\ ValidEnd(g) = Len(g)
  <1> DEFINE e == Front(f)
             part == SubSeq(frame, 1, n)
  <1>1. /\ e \in Seq(Cell) /\ Len(e) = Len(f) - 1 /\ Len(e) \in Nat /\ Len(f) \in Nat
        /\ \A i \in 1 .. Len(e) : e[i] = f[i]
    BY FrontIs
  <1>2. part \in Seq(Cell) /\ Len(part) = n /\ Len(frame) \in Nat /\ n \in Nat
    BY PartType
  <1>3. \A i \in 1 .. n : part[i] = frame[i]
    BY <1>2
  <1> HIDE DEF e, part
  <1>4. /\ g \in Seq(Cell) /\ Len(g) = Len(f) + n
        /\ \A i \in 1 .. Len(f) : g[i] = f[i]
        /\ \A i \in 1 .. n : g[Len(f) + i] = frame[i]
    <2>1. /\ g \in Seq(Cell) /\ Len(g) = Len(f) + Len(part)
          /\ \A i \in 1 .. Len(f) : g[i] = f[i]
          /\ \A i \in 1 .. Len(part) : g[Len(f) + i] = part[i]
      BY <1>2, AppendedAt DEF part
    <2> QED
      BY <1>2, <1>3, <2>1
  <1>5. Len(e) + 1 = Len(f) /\ Len(f) \in 1 .. Len(f)
    BY <1>1
  <1>6. /\ g[Len(e) + 1] = Header(frame)
        /\ g[Len(e) + 1] \in Headers /\ g[Len(e) + 1].frame = frame
    BY <1>4, <1>5, HeaderIsHeader
  <1>7. Extends(g, e)
    <2>1. Len(e) < Len(g)
      BY <1>1, <1>2, <1>4
    <2>2. \A i \in 1 .. Len(e) : g[i] = e[i]
      BY <1>1, <1>4
    <2> QED
      BY <2>1, <2>2 DEF Extends
  <1>8. ASSUME n < Len(frame) PROVE ~ReadableAt(g, Len(e))
    <2> SUFFICES ASSUME ReadableAt(g, Len(e)) PROVE FALSE
      OBVIOUS
    <2>1. Len(e) + 1 + Len(frame) =< Len(g)
      BY <1>6 DEF ReadableAt
    <2> QED
      BY <1>1, <1>2, <1>4, <1>8, <2>1
  <1>9. ASSUME n = Len(frame) PROVE ReadableAt(g, Len(e)) /\ NextFrame(g, Len(e)) = Len(g)
    <2>1. \A i \in 1 .. Len(frame) : g[Len(e) + 1 + i] = frame[i]
      BY <1>4, <1>5, <1>9
    <2>2. Len(e) + 1 + Len(frame) = Len(g)
      BY <1>1, <1>4, <1>9
    <2>3. ReadableAt(g, Len(e))
      <3>1. Len(e) + 1 + Len(frame) =< Len(g)
        BY <1>4, <1>1, <1>2, <2>2
      <3> QED
        BY <1>1, <1>4, <1>6, <2>1, <3>1, MakesReadable
    <2> QED
      BY <1>6, <2>2, <2>3 DEF NextFrame
  <1>10. ASSUME n < Len(frame) \/ ValidEnd(e) < Len(e)
         PROVE  Scan(g) = Scan(e) /\ ValidEnd(g) = ValidEnd(e)
    BY <1>1, <1>4, <1>6, <1>7, <1>8, <1>10, ScanAppended
  <1>11. ASSUME n = Len(frame), ValidEnd(e) = Len(e)
         PROVE  Scan(g) = Append(Scan(e), frame) /\ ValidEnd(g) = Len(g)
    BY <1>1, <1>4, <1>6, <1>7, <1>9, <1>11, ScanAppended
  <1> QED
    BY <1>1, <1>4, <1>10, <1>11 DEF e

\* In particular, as long as nothing of the payload is there.
LEMMA HeaderAlone ==
    ASSUME NEW f \in Seq(Cell), f # <<>>, NEW frame \in Seq(Record), f[Len(f)] = Header(frame)
    PROVE  Scan(f) = Scan(Front(f)) /\ ValidEnd(f) = ValidEnd(Front(f)) /\ ValidEnd(f) < Len(f)
  <1> DEFINE e == Front(f)
  <1>1. /\ e \in Seq(Cell) /\ Len(e) = Len(f) - 1 /\ Len(e) \in Nat /\ Len(f) \in Nat
        /\ \A i \in 1 .. Len(e) : e[i] = f[i]
    BY FrontIs
  <1> HIDE DEF e
  <1>2. Len(e) + 1 = Len(f) /\ Len(e) < Len(f)
    BY <1>1
  <1>3. f[Len(e) + 1] \in Headers /\ f[Len(e) + 1].frame = frame
    BY <1>2, HeaderIsHeader
  <1>4. Extends(f, e)
    BY <1>1, <1>2 DEF Extends
  <1>5. ~ReadableAt(f, Len(e))
    <2> SUFFICES ASSUME ReadableAt(f, Len(e)) PROVE FALSE
      OBVIOUS
    <2>1. frame # <<>> /\ Len(e) + 1 + Len(frame) =< Len(f)
      BY <1>3 DEF ReadableAt
    <2> QED
      BY <1>2, <2>1
  <1>6. ValidEnd(e) \in 0 .. Len(e)
    BY <1>1, ValidEndType
  <1>7. Scan(f) = Scan(e) /\ ValidEnd(f) = ValidEnd(e)
    BY <1>1, <1>3, <1>4, <1>5, ScanAppended
  <1> QED
    BY <1>1, <1>6, <1>7 DEF e

-----------------------------------------------------------------------------
(* Where the offsets are at each point of a session.                         *)

Stamped(n, ops) ==
    [i \in DOMAIN ops |-> [key |-> ops[i].key, seq |-> n + i, val |-> ops[i].val]]

\* At the end of a file whose size is known, or which has bytes that are no frame.
AtEnd(l, f) == l.cursor = Len(f) /\ (l.size = Len(f) \/ ValidEnd(f) < Len(f))

\* A header is written and its payload is not.
HalfWay(l, f, n) ==
    /\ f # <<>> /\ f[Len(f)] = Header(l.frame) /\ l.cursor = Len(f)
    /\ l.size = Len(f) - 1 \/ ValidEnd(Front(f)) < Len(f) - 1
    /\ \E ops \in Batches : l.frame = Stamped(n, ops) /\ l.seq = n + Len(ops)

Placed(l, f, n) ==
    /\ l.at = "scanned" => l.size = Len(f) /\ l.end = ValidEnd(f) /\ l.seq = LastIn(Scan(f))
    /\ l.at \in {"opened", "ready", "sync", "reset"} => l.seq = n
    /\ l.at = "opened" => l.size = Len(f)
    /\ l.at = "ready" /\ ~l.closing => AtEnd(l, f)
    /\ l.at = "sync" => AtEnd(l, f)
    /\ l.at = "payload" => HalfWay(l, f, n)
    /\ l.at = "reset" => f = <<>> /\ l.size = 0 /\ l.cursor = 0

Offsets == \A p \in Procs : Placed(log[p], file, given)

LEMMA NotOpenPlaced == \A l, f, n : l.at \in {"none", "closed"} => Placed(l, f, n)
  BY DEF Placed

LEMMA OffsetsInit == LockedInit => Offsets
  <1>1. Placed(NoLog, file, given)
    BY NotOpenPlaced, NoLogType
  <1>2. LockedInit => \A p \in Procs : log[p] = NoLog
    BY DEF LockedInit
  <1> QED
    BY <1>1, <1>2 DEF Offsets

\* The offsets of a session that its own step leaves, for each of its steps.
LEMMA PlacedNext ==
    ASSUME LogsTyped, NEW p \in Procs, Placed(log[p], file, given), LogStep(p)
    PROVE  Placed(log'[p], file', given')
  <1>1. /\ log[p] \in LogRecord /\ file \in Seq(Cell) /\ Appending(log[p])
        /\ given \in Nat /\ floor \in Nat
    BY DEF LogsTyped
  <1>2. log \in [Procs -> LogRecord]
    BY DEF LogsTyped
  <1>3. CASE OpenLog(p)
    <2>1. log'[p] = [NoLog EXCEPT !.at = "scanned", !.size = Len(file), !.end = ValidEnd(file),
                                  !.seq = LastIn(Scan(file))]
      BY <1>2, <1>3 DEF OpenLog
    <2>2. file' = file /\ given' = given
      BY <1>3 DEF OpenLog
    <2> QED
      BY <2>1, <2>2 DEF Placed, NoLog
  <1>4. CASE CutTail(p)
    <2>1. log[p].at = "scanned" /\ log[p].size = Len(file) /\ log[p].end = ValidEnd(file)
      BY <1>4 DEF CutTail, At, Placed
    <2>2. /\ log'[p].at = "opened" /\ log'[p].size = log[p].end
          /\ log'[p].seq = Larger(log[p].seq, floor) /\ given' = Larger(log[p].seq, floor)
      BY <1>1, <1>2, <1>4 DEF CutTail, LogRecord
    <2>3. Len(file') = log[p].end
      <3>1. ValidEnd(file) \in 0 .. Len(file) /\ Len(file) \in Nat
        BY <1>1, ValidEndType
      <3>2. CASE ValidEnd(file) < Len(file)
        <4>1. file' = Resize(file, ValidEnd(file))
          BY <1>4, <2>1, <3>2 DEF CutTail
        <4> QED
          BY <1>1, <2>1, <4>1, ScanCut
      <3>3. CASE ValidEnd(file) = Len(file)
        <4>1. file' = file
          BY <1>4, <2>1, <3>1, <3>3 DEF CutTail
        <4> QED
          BY <2>1, <3>3, <4>1
      <3> QED
        BY <3>1, <3>2, <3>3
    <2> QED
      BY <2>2, <2>3 DEF Placed
  <1>5. CASE Replay(p)
    <2>1. log[p].at = "opened" /\ log[p].size = Len(file) /\ log[p].seq = given
      BY <1>5 DEF Replay, At, Placed
    <2>2. /\ log'[p].at = "ready" /\ log'[p].size = log[p].size
          /\ log'[p].cursor = log[p].size /\ log'[p].seq = log[p].seq
          /\ file' = file /\ given' = given
      BY <1>1, <1>2, <1>5 DEF Replay, LogRecord
    <2> QED
      BY <2>1, <2>2 DEF Placed, AtEnd
  <1>6. CASE ReplayFails(p)
    <2>1. log[p].at = "opened" /\ log[p].seq = given
      BY <1>6 DEF ReplayFails, At, Placed
    <2>2. /\ log'[p].at = "ready" /\ log'[p].closing /\ log'[p].seq = log[p].seq
          /\ file' = file /\ given' = given
      BY <1>1, <1>2, <1>6 DEF ReplayFails, LogRecord
    <2> QED
      BY <2>1, <2>2 DEF Placed
  <1>7. CASE CloseLog(p)
    <2>1. log'[p].at = "closed"
      BY <1>2, <1>7 DEF CloseLog, NoLog
    <2> QED
      BY <2>1, NotOpenPlaced
  <1>8. ASSUME NEW ops \in Batches, WriteHeader(p, ops) PROVE Placed(log'[p], file', given')
    <2> DEFINE frame == NewFrameOf(p, ops)
    <2>1. /\ log[p].at = "ready" /\ log[p].seq = given /\ log[p].cursor = Len(file)
          /\ log[p].size = Len(file) \/ ValidEnd(file) < Len(file)
      BY <1>8 DEF WriteHeader, MayAppend, At, Placed, AtEnd
    <2>2. frame \in Seq(Record) /\ Len(ops) \in Nat
      BY NewFrameType
    <2>3. frame = Stamped(given, ops)
      BY <2>1 DEF NewFrameOf, Stamped
    <2>4. file' = WriteAt(file, Len(file), <<Header(frame)>>) /\ given' = given
      BY <1>8, <2>1 DEF WriteHeader
    <2>5. /\ log'[p].at = "payload" /\ log'[p].frame = frame /\ log'[p].size = log[p].size
          /\ log'[p].cursor = log[p].cursor + 1 /\ log'[p].seq = log[p].seq + Len(ops)
      BY <1>1, <1>2, <1>8 DEF WriteHeader, LogRecord
    <2> HIDE DEF frame
    <2>6. /\ Len(file') = Len(file) + 1 /\ file' # <<>>
          /\ file'[Len(file')] = Header(frame) /\ Front(file') = file
      BY <1>1, <2>2, <2>4, HeaderWritten
    <2>7. Len(file) \in Nat /\ Len(file') - 1 = Len(file)
      BY <1>1, <2>6
    <2>8. HalfWay(log'[p], file', given')
      BY <2>1, <2>3, <2>4, <2>5, <2>6, <2>7 DEF HalfWay
    <2> QED
      BY <2>5, <2>8 DEF Placed
  <1>9. ASSUME NEW ops \in Batches, WriteHeaderFails(p, ops) PROVE Placed(log'[p], file', given')
    <2>1. PICK cells \in {<<>>, <<Broken>>} :
             /\ file' = WriteAt(file, log[p].cursor, cells)
             /\ log' = [log EXCEPT ![p].cursor = @ + Len(cells), ![p].seq = @ + Len(ops)]
      BY <1>9 DEF WriteHeaderFails
    <2>2. /\ log[p].at = "ready" /\ log[p].seq = given /\ log[p].cursor = Len(file)
          /\ log[p].size = Len(file) \/ ValidEnd(file) < Len(file)
      BY <1>9 DEF WriteHeaderFails, MayAppend, At, Placed, AtEnd
    <2>3. /\ log'[p].at = "ready" /\ log'[p].size = log[p].size
          /\ log'[p].cursor = log[p].cursor + Len(cells)
          /\ log'[p].seq = log[p].seq + Len(ops) /\ given' = log[p].seq + Len(ops)
      BY <1>1, <1>2, <1>9, <2>1, <2>2 DEF WriteHeaderFails, LogRecord
    <2>4. AtEnd(log'[p], file')
      <3>1. CASE cells = <<>>
        <4>1. file' \in Seq(Cell) /\ Len(file') = Len(file) /\ \A i \in 1 .. Len(file) : file'[i] = file[i]
          <5>1. /\ WriteAt(file, Len(file), cells) \in Seq(Cell)
                /\ Len(WriteAt(file, Len(file), cells)) = Len(file) + Len(cells)
                /\ \A i \in 1 .. Len(file) : WriteAt(file, Len(file), cells)[i] = file[i]
            <6>1. cells \in Seq(Cell)
              BY <3>1
            <6> QED
              BY <1>1, <6>1, AppendedAt
          <5>2. Len(cells) = 0 /\ Len(file) \in Nat
            BY <1>1, <3>1
          <5> QED
            BY <2>1, <2>2, <5>1, <5>2
        <4>2. file' = file
          BY <1>1, <4>1
        <4>3. log'[p].cursor = Len(file)
          BY <1>1, <2>2, <2>3, <3>1
        <4> QED
          BY <2>2, <2>3, <4>2, <4>3 DEF AtEnd
      <3>2. CASE cells = <<Broken>>
        <4>1. <<>> \in Seq(Record) /\ file' = WriteAt(file, Len(file), <<Header(<<>>)>>)
          BY <2>1, <2>2, <3>2 DEF Broken
        <4>2. Len(file') = Len(file) + 1 /\ ValidEnd(file') < Len(file')
          BY <1>1, <4>1, HeaderWritten
        <4>3. log'[p].cursor = Len(file) + 1
          BY <2>2, <2>3, <3>2
        <4> QED
          BY <4>2, <4>3 DEF AtEnd
      <3> QED
        BY <3>1, <3>2
    <2> QED
      BY <2>3, <2>4 DEF Placed
  <1>10. ASSUME log[p].at = "payload"
         PROVE  /\ log[p].frame \in Seq(Record) /\ log[p].frame # <<>> /\ Len(log[p].frame) \in Nat
                /\ file # <<>> /\ file[Len(file)] = Header(log[p].frame)
                /\ log[p].cursor = Len(file) /\ Len(file) \in Nat
                /\ log[p].size = Len(file) - 1 \/ ValidEnd(Front(file)) < Len(file) - 1
    BY <1>1, <1>10 DEF Appending, Placed, HalfWay, LogRecord
  <1>11. CASE WritePayload(p)
    <2> DEFINE frame == log[p].frame
               n == Len(frame)
    <2>1. log[p].at = "payload"
      BY <1>11 DEF WritePayload, At
    <2>2. SubSeq(frame, 1, n) = frame
      BY <1>10, <2>1
    <2>3. file' = WriteAt(file, Len(file), SubSeq(frame, 1, n)) /\ given' = log[p].seq
      BY <1>10, <1>11, <2>1, <2>2 DEF WritePayload
    <2>4. /\ log'[p].at = "sync" /\ log'[p].cursor = log[p].cursor + n
          /\ log'[p].size = log[p].size + 1 + n /\ log'[p].seq = log[p].seq
      BY <1>1, <1>2, <1>11 DEF WritePayload, LogRecord
    <2>5. n \in 0 .. Len(frame)
      BY <1>10, <2>1
    <2>6. /\ Len(file') = Len(file) + n
          /\ ValidEnd(Front(file)) < Len(file) - 1 => ValidEnd(file') = ValidEnd(Front(file))
      BY <1>1, <1>10, <2>1, <2>3, <2>5, PayloadWritten
    <2>7. ValidEnd(Front(file)) \in Nat
      BY <1>1, <1>10, <2>1, FrontIs, ValidEndType
    <2>8. AtEnd(log'[p], file')
      <3>1. n \in Nat /\ Len(file) \in Nat /\ log[p].cursor = Len(file)
            /\ (log[p].size = Len(file) - 1 \/ ValidEnd(Front(file)) < Len(file) - 1)
        BY <1>10, <2>1
      <3> HIDE DEF n
      <3> QED
        BY <2>4, <2>6, <2>7, <3>1 DEF AtEnd
    <2> QED
      BY <2>3, <2>4, <2>8 DEF Placed
  <1>12. CASE WritePayloadFails(p)
    <2> DEFINE frame == log[p].frame
    <2>1. log[p].at = "payload"
      BY <1>12 DEF WritePayloadFails, At
    <2>2. PICK n \in 0 .. Len(frame) - 1 :
             /\ file' = WriteAt(file, log[p].cursor, SubSeq(frame, 1, n))
             /\ log' = [log EXCEPT ![p].at = "ready", ![p].cursor = @ + n, ![p].frame = <<>>]
      BY <1>12 DEF WritePayloadFails
    <2>3. /\ log'[p].at = "ready" /\ log'[p].cursor = log[p].cursor + n
          /\ log'[p].size = log[p].size /\ log'[p].seq = log[p].seq /\ given' = log[p].seq
      BY <1>1, <1>2, <1>12, <2>2 DEF WritePayloadFails, LogRecord
    <2>4. n \in 0 .. Len(frame) /\ n < Len(frame) /\ n \in Nat
      BY <1>10, <2>1
    <2>5. Len(file') = Len(file) + n /\ ValidEnd(file') = ValidEnd(Front(file))
      BY <1>1, <1>10, <2>1, <2>2, <2>4, PayloadWritten
    <2>6. ValidEnd(Front(file)) \in Nat /\ ValidEnd(Front(file)) =< Len(file) - 1 /\ Len(file) \in Nat
      <3>1. Front(file) \in Seq(Cell) /\ Len(Front(file)) = Len(file) - 1 /\ Len(file) \in Nat
        BY <1>1, <1>10, <2>1, FrontIs
      <3>2. ValidEnd(Front(file)) \in 0 .. Len(Front(file))
        BY <3>1, ValidEndType
      <3> QED
        BY <3>1, <3>2
    <2>7. ValidEnd(file') < Len(file') /\ log'[p].cursor = Len(file')
      BY <1>10, <2>1, <2>3, <2>4, <2>5, <2>6
    <2> QED
      BY <2>3, <2>7 DEF Placed, AtEnd
  <1>13. CASE SyncAppend(p)
    <2>1. log[p].at = "sync" /\ AtEnd(log[p], file) /\ log[p].seq = given
      BY <1>13 DEF SyncAppend, At, Placed
    <2>2. /\ log'[p].at = "ready" /\ log'[p].cursor = log[p].cursor /\ log'[p].size = log[p].size
          /\ log'[p].seq = log[p].seq /\ file' = file /\ given' = given
      BY <1>1, <1>2, <1>13 DEF SyncAppend, LogRecord
    <2> QED
      BY <2>1, <2>2 DEF Placed, AtEnd
  <1>14. CASE ResetLog(p)
    <2>1. log[p].at = "ready" /\ log[p].seq = given
      BY <1>14 DEF ResetLog, At, Placed
    <2>2. /\ log'[p].at = "reset" /\ log'[p].cursor = 0 /\ log'[p].size = 0
          /\ log'[p].seq = log[p].seq /\ file' = <<>> /\ given' = given
      BY <1>1, <1>2, <1>14 DEF ResetLog, LogRecord
    <2> QED
      BY <2>1, <2>2 DEF Placed
  <1>15. CASE SyncReset(p)
    <2>1. /\ log[p].at = "reset" /\ log[p].seq = given /\ file = <<>>
          /\ log[p].size = 0 /\ log[p].cursor = 0
      BY <1>15 DEF SyncReset, At, Placed
    <2>2. /\ log'[p].at = "ready" /\ log'[p].cursor = log[p].cursor /\ log'[p].size = log[p].size
          /\ log'[p].seq = log[p].seq /\ file' = file /\ given' = given
      BY <1>1, <1>2, <1>15 DEF SyncReset, LogRecord
    <2> QED
      BY <2>1, <2>2 DEF Placed, AtEnd
  <1> QED
    BY <1>3, <1>4, <1>5, <1>6, <1>7, <1>8, <1>9, <1>11, <1>12, <1>13, <1>14, <1>15 DEF LogStep

LEMMA OthersPlaced ==
    ASSUME LogsTyped, Sessions, NEW p \in Procs, NEW q \in Procs, LogIsOpen(p), q # p
    PROVE  log[q].at \in {"none", "closed"}
  BY DEF Sessions, LogIsOpen

LEMMA OffsetsNext ==
    ASSUME LogsTyped, LockTypeOK, Owned, Sessions, Offsets, [LockedNext]_lockedVars
    PROVE  Offsets'
  <1>0. log \in [Procs -> LogRecord]
    BY DEF LogsTyped
  <1>1. SUFFICES ASSUME NEW q \in Procs PROVE Placed(log'[q], file', given')
    BY DEF Offsets
  <1>2. Placed(log[q], file, given)
    BY DEF Offsets
  <1>3. ASSUME UNCHANGED <<log, file, given>> PROVE Placed(log'[q], file', given')
    BY <1>2, <1>3
  <1>4. ASSUME NEW p \in Procs, LogStep(p) PROVE Placed(log'[q], file', given')
    <2>1. CASE q = p
      BY <1>2, <1>4, <2>1, PlacedNext
    <2>2. CASE q # p
      <3>1. log'[q] = log[q] /\ (LogIsOpen(p) \/ OpenLog(p))
        BY <1>4, <2>2, LogStepStates
      <3>2. CASE LogIsOpen(p)
        BY <2>2, <3>1, <3>2, OthersPlaced, NotOpenPlaced
      <3>3. CASE OpenLog(p)
        BY <1>2, <3>1, <3>3 DEF OpenLog
      <3> QED
        BY <3>1, <3>2, <3>3
    <2> QED
      BY <2>1, <2>2
  <1>5. ASSUME NEW p \in Procs, Attempt(p) \/ Acquiring(p) \/ AcquireFails(p)
        PROVE  Placed(log'[q], file', given')
    BY <1>3, <1>5 DEF Attempt, Acquiring, AcquireFails, logVars
  <1>6. ASSUME NEW p \in Procs, GiveBack(p) \/ Kill(p) PROVE Placed(log'[q], file', given')
    <2>1. log' = [log EXCEPT ![p] = NoLog] /\ file' = file
      BY <1>6 DEF GiveBack, Kill
    <2>2. CASE q = p
      <3>1. log'[q].at = "none"
        BY <1>0, <2>1, <2>2, NoLogType
      <3> QED
        BY <3>1, NotOpenPlaced
    <2>3. CASE q # p
      <3>1. log'[q] = log[q]
        BY <1>0, <2>1, <2>3
      <3>2. given' = given \/ LogIsOpen(p)
        BY <1>6 DEF GiveBack, Kill, LogIsOpen
      <3>3. CASE LogIsOpen(p)
        BY <2>3, <3>1, <3>3, OthersPlaced, NotOpenPlaced
      <3> QED
        BY <1>2, <2>1, <3>1, <3>2, <3>3
    <2> QED
      BY <2>2, <2>3
  <1>7. CASE TimePasses \/ UNCHANGED lockedVars
    BY <1>3, <1>7 DEF TimePasses, lockedVars, logVars
  <1>8. CASE PowerLoss
    <2>1. log'[q].at = "none"
      BY <1>8, NoLogType DEF PowerLoss
    <2> QED
      BY <2>1, NotOpenPlaced
  <1> QED
    BY <1>4, <1>5, <1>6, <1>7, <1>8 DEF LockedNext

LogInv == LockTypeOK /\ Owned /\ NoLeak /\ LogsTyped /\ Sessions /\ Offsets

LEMMA LogInvInit == LockedInit => LogInv
  BY LockKeptInit, LogsTypedInit, SessionsInit, OffsetsInit DEF LogInv

LEMMA LogInvNext == LogInv /\ [LockedNext]_lockedVars => LogInv'
  BY LockKept, LogsTypedNext, SessionsNext, OffsetsNext DEF LogInv

\* A log at rest appends at the end of the file, whatever the sessions before it
\* left there and wherever a write, a truncation or a replay of its own broke off.
THEOREM AppendsAtTheEnd == LockedSpec => []OffsetsAgree
  <1>1. LogInv => OffsetsAgree
    BY DEF LogInv, Offsets, Placed, AtEnd, OffsetsAgree
  <1> QED
    BY <1>1, LogInvInit, LogInvNext, PTL DEF LockedSpec

LEMMA HeadsOfPrefix ==
    ASSUME NEW F, NEW x \in F, NEW y \in F, NEW s \in Seq(F), NEW t \in Seq(F),
           IsPrefix(<<x>> \o s, <<y>> \o t)
    PROVE  y = x /\ IsPrefix(s, t)
  <1> DEFINE a == <<x>> \o s
             b == <<y>> \o t
  <1>1. /\ a \in Seq(F) /\ b \in Seq(F)
        /\ Len(a) = Len(s) + 1 /\ Len(b) = Len(t) + 1 /\ Len(s) \in Nat /\ Len(t) \in Nat
    OBVIOUS
  <1>2. /\ a[1] = x /\ b[1] = y
        /\ \A i \in 1 .. Len(s) : a[i + 1] = s[i]
        /\ \A i \in 1 .. Len(t) : b[i + 1] = t[i]
    OBVIOUS
  <1>3. Len(a) =< Len(b) /\ SubSeq(a, 1, Len(a)) = SubSeq(b, 1, Len(a))
    BY DEF IsPrefix
  <1> HIDE DEF a, b
  <1>4. \A i \in 1 .. Len(a) : SubSeq(a, 1, Len(a))[i] = a[i] /\ SubSeq(b, 1, Len(a))[i] = b[i]
    BY <1>1, <1>3
  <1>5. \A i \in 1 .. Len(a) : a[i] = b[i]
    BY <1>3, <1>4
  <1>6. Len(s) =< Len(t) /\ \A i \in 1 .. Len(s) : s[i] = t[i]
    <2>1. Len(s) =< Len(t)
      BY <1>1, <1>3
    <2>2. \A i \in 1 .. Len(s) : s[i] = t[i]
      <3> TAKE i \in 1 .. Len(s)
      <3>1. i + 1 \in 1 .. Len(a) /\ i \in 1 .. Len(t)
        BY <1>1, <2>1
      <3>2. a[i + 1] = b[i + 1]
        BY <1>5, <3>1
      <3> QED
        BY <1>2, <3>1, <3>2
    <2> QED
      BY <2>1, <2>2
  <1>7. SubSeq(s, 1, Len(s)) = SubSeq(t, 1, Len(s))
    <2> DEFINE u == SubSeq(s, 1, Len(s))
               w == SubSeq(t, 1, Len(s))
    <2>1. u \in Seq(F) /\ w \in Seq(F) /\ Len(u) = Len(s) /\ Len(w) = Len(s)
      BY <1>1, <1>6
    <2>2. \A i \in 1 .. Len(s) : u[i] = s[i] /\ w[i] = t[i]
      BY <1>1, <1>6
    <2> HIDE DEF u, w
    <2> QED
      BY <1>6, <2>1, <2>2
  <1>8. 1 \in 1 .. Len(a)
    BY <1>1
  <1> QED
    BY <1>2, <1>5, <1>6, <1>7, <1>8 DEF IsPrefix

-----------------------------------------------------------------------------
(* What a power failure leaves of the frames.                                *)

\* No broken cell is in a frame that can be read.
LEMMA NoHoles ==
    ASSUME NEW f \in Seq(Cell)
    PROVE  \A k \in 1 .. ValidEnd(f) : f[k] # Broken
  <1>1. PICK end \in [0 .. Len(f) -> 0 .. Len(f)] :
           /\ ValidEnd(f) = end[0]
           /\ \A i \in 0 .. Len(f) : end[i] = IF ReadableAt(f, i) THEN end[NextFrame(f, i)] ELSE i
    BY EndIs
  <1> DEFINE H(i) == \A k \in i + 1 .. end[i] : f[k] # Broken
             N == Len(f)
             S == {m \in 0 .. N : \A i \in m .. N : H(i)}
  <1>2. N \in Nat
    OBVIOUS
  <1>3. N \in S
    <2>1. ~ReadableAt(f, N)
      <3> SUFFICES ASSUME ReadableAt(f, N) PROVE FALSE
        OBVIOUS
      <3>1. N < N
        BY DEF ReadableAt
      <3> QED
        BY <1>2, <3>1
    <2>2. N \in 0 .. N /\ \A i \in N .. N : i = N
      BY <1>2
    <2>3. end[N] = N
      BY <1>1, <2>1, <2>2
    <2>4. H(N)
      BY <1>2, <2>3
    <2> HIDE DEF H, N
    <2> QED
      BY <2>2, <2>4
  <1>4. ASSUME NEW k \in 1 .. N, k \in S PROVE k - 1 \in S
    <2> DEFINE i == k - 1
    <2>1. \A m \in k .. N : H(m)
      BY <1>4
    <2>2. i \in 0 .. N /\ i \in Nat /\ i + 1 = k /\ \A m \in i .. N : m = i \/ m \in k .. N
      BY <1>2, <1>4
    <2> HIDE DEF S, i
    <2>3. H(i)
      <3>1. CASE ~ReadableAt(f, i)
        BY <1>1, <2>2, <3>1
      <3>2. CASE ReadableAt(f, i)
        <4> DEFINE n == NextFrame(f, i)
                   payload == f[i + 1].frame
        <4>1. /\ n \in 0 .. N /\ i < n /\ n = i + 1 + Len(payload) /\ end[i] = end[n]
              /\ payload \in Seq(Record) /\ payload # <<>>
              /\ \A j \in 1 .. Len(payload) : f[i + 1 + j] = payload[j]
          BY <1>1, <2>2, <3>2, ReadableIs
        <4>2. f[i + 1] # Broken
          BY <4>1, BrokenIsHeader
        <4> HIDE DEF n, payload
        <4>3. Len(payload) \in Nat /\ n \in k .. N /\ n \in Nat
          BY <1>2, <2>2, <4>1
        <4>4. \A j \in 1 .. Len(payload) : f[i + 1 + j] # Broken
          <5> TAKE j \in 1 .. Len(payload)
          <5>1. f[i + 1 + j] \in Record
            BY <4>1
          <5> QED
            BY <5>1, BrokenIsHeader, CellsDiffer
        <4>5. H(n)
          BY <2>1, <4>3
        <4>6. ASSUME NEW l \in i + 1 .. end[i] PROVE f[l] # Broken
          <5>1. CASE l = i + 1
            BY <4>2, <5>1
          <5>2. CASE l \in n + 1 .. end[n]
            BY <4>5, <5>2
          <5>3. CASE l > i + 1 /\ l =< n
            <6> DEFINE j == l - (i + 1)
            <6>1. j \in 1 .. Len(payload) /\ i + 1 + j = l
              BY <2>2, <4>1, <4>3, <5>3
            <6> QED
              BY <4>4, <6>1
          <5>4. end[i] = end[n] /\ end[n] \in Nat /\ l \in Int /\ l >= i + 1
            BY <1>1, <2>2, <4>1
          <5> QED
            BY <2>2, <4>3, <5>1, <5>2, <5>3, <5>4
        <4> QED
          BY <4>6
      <3> QED
        BY <3>1, <3>2
    <2>4. \A m \in i .. N : H(m)
      BY <2>1, <2>2, <2>3
    <2> QED
      BY <2>2, <2>4 DEF S, i
  <1>5. 0 \in S
    <2>1. S \in SUBSET Nat
      OBVIOUS
    <2> HIDE DEF S
    <2> QED
      BY <1>2, <1>3, <1>4, <2>1, DownwardInduction
  <1>6. H(0) /\ 0 + 1 = 1
    BY <1>2, <1>5
  <1> QED
    BY <1>1, <1>6

\* Files that read alike up to the end of one of them are alike up to there.
LEMMA SameCells ==
    ASSUME NEW f \in Seq(Cell), NEW g \in Seq(Cell), IsPrefix(Scan(f), Scan(g))
    PROVE  ValidEnd(f) =< Len(g) /\ \A k \in 1 .. ValidEnd(f) : g[k] = f[k]
  <1>1. PICK from \in [0 .. Len(f) -> Seq(Seq(Record))] :
           /\ Scan(f) = from[0]
           /\ \A i \in 0 .. Len(f) :
                 from[i] = IF ReadableAt(f, i) THEN <<f[i + 1].frame>> \o from[NextFrame(f, i)] ELSE <<>>
    BY ScanIs
  <1>2. PICK end \in [0 .. Len(f) -> 0 .. Len(f)] :
           /\ ValidEnd(f) = end[0]
           /\ \A i \in 0 .. Len(f) : end[i] = IF ReadableAt(f, i) THEN end[NextFrame(f, i)] ELSE i
    BY EndIs
  <1>3. PICK gfrom \in [0 .. Len(g) -> Seq(Seq(Record))] :
           /\ Scan(g) = gfrom[0]
           /\ \A i \in 0 .. Len(g) :
                 gfrom[i] = IF ReadableAt(g, i) THEN <<g[i + 1].frame>> \o gfrom[NextFrame(g, i)] ELSE <<>>
    BY ScanIs
  <1> DEFINE N == Len(f)
             F == Seq(Record)
             H(i) == i =< Len(g) /\ IsPrefix(from[i], gfrom[i]) =>
                        end[i] =< Len(g) /\ \A k \in i + 1 .. end[i] : g[k] = f[k]
             S == {m \in 0 .. N + 1 : \A i \in m .. N : H(i)}
  <1>4. N \in Nat /\ Len(g) \in Nat
    OBVIOUS
  <1>5. N + 1 \in S
    BY <1>4
  <1>6. ASSUME NEW k \in 1 .. N + 1, k \in S PROVE k - 1 \in S
    <2> DEFINE i == k - 1
    <2>1. \A m \in k .. N : H(m)
      BY <1>6
    <2>2. i \in 0 .. N /\ i \in Nat /\ i + 1 = k /\ \A m \in i .. N : m = i \/ m \in k .. N
      BY <1>4, <1>6
    <2> HIDE DEF S, i
    <2>3. ASSUME i =< Len(g), IsPrefix(from[i], gfrom[i])
          PROVE  end[i] =< Len(g) /\ \A l \in i + 1 .. end[i] : g[l] = f[l]
      <3>1. CASE ~ReadableAt(f, i)
        BY <1>2, <2>2, <2>3, <3>1
      <3>2. CASE ReadableAt(f, i)
        <4> DEFINE n == NextFrame(f, i)
                   payload == f[i + 1].frame
                   rest == from[n]
        <4>1. /\ n \in 0 .. N /\ i < n /\ n = i + 1 + Len(payload) /\ end[i] = end[n]
              /\ payload \in F /\ payload # <<>> /\ f[i + 1] \in Headers
              /\ \A j \in 1 .. Len(payload) : f[i + 1 + j] = payload[j]
          BY <1>2, <2>2, <3>2, ReadableIs
        <4>2. from[i] = <<payload>> \o rest /\ rest \in Seq(F)
          BY <1>1, <2>2, <3>2, <4>1
        <4>3. i \in 0 .. Len(g) /\ gfrom[i] \in Seq(F)
          <5>1. i \in 0 .. Len(g)
            BY <1>4, <2>2, <2>3
          <5> QED
            BY <1>3, <5>1
        <4> DEFINE grest == gfrom[NextFrame(g, i)]
        <4>4. /\ ReadableAt(g, i) /\ gfrom[i] = <<g[i + 1].frame>> \o grest
              /\ g[i + 1].frame \in F /\ grest \in Seq(F)
          <5>1. Len(from[i]) > 0
            <6> HIDE DEF F, payload, rest, n
            <6> QED
              BY <4>1, <4>2
          <5>2. Len(gfrom[i]) > 0
            <6>1. Len(from[i]) =< Len(gfrom[i])
              BY <2>3 DEF IsPrefix
            <6>2. Len(gfrom[i]) \in Nat /\ Len(from[i]) \in Nat
              BY <1>1, <2>2, <4>3
            <6> QED
              BY <5>1, <6>1, <6>2
          <5>3. ReadableAt(g, i)
            <6> SUFFICES ASSUME ~ReadableAt(g, i) PROVE FALSE
              OBVIOUS
            <6>1. gfrom[i] = <<>>
              BY <1>3, <4>3
            <6> QED
              BY <5>2, <6>1
          <5>4. NextFrame(g, i) \in 0 .. Len(g) /\ g[i + 1].frame \in F
            BY <4>3, <5>3, ReadableIs
          <5> QED
            BY <1>3, <4>3, <5>3, <5>4
        <4>5. g[i + 1].frame = payload /\ IsPrefix(rest, grest)
          <5> DEFINE x == g[i + 1].frame
          <5>1. IsPrefix(<<payload>> \o rest, <<x>> \o grest)
            BY <2>3, <4>2, <4>4
          <5>2. payload \in F /\ x \in F /\ rest \in Seq(F) /\ grest \in Seq(F)
            BY <4>1, <4>2, <4>4
          <5> HIDE DEF F, x, payload, rest, grest, n
          <5>3. x = payload /\ IsPrefix(rest, grest)
            BY <5>1, <5>2, HeadsOfPrefix
          <5> QED
            BY <5>3 DEF x
        <4>6. /\ g[i + 1] \in Headers /\ NextFrame(g, i) \in 0 .. Len(g)
              /\ NextFrame(g, i) = i + 1 + Len(g[i + 1].frame)
              /\ \A j \in 1 .. Len(g[i + 1].frame) : g[i + 1 + j] = g[i + 1].frame[j]
          BY <4>3, <4>4, ReadableIs
        <4>7. g[i + 1] = f[i + 1]
          BY <4>1, <4>5, <4>6, HeaderOfFrame
        <4>8. NextFrame(g, i) = n
          BY <4>1, <4>5, <4>6
        <4>9. n \in k .. N /\ n =< Len(g) /\ n \in Nat /\ Len(payload) \in Nat
          <5>1. n =< Len(g) /\ n \in Nat
            BY <1>4, <4>6, <4>8
          <5>2. Len(payload) \in Nat
            BY <4>1
          <5> HIDE DEF n, payload
          <5> QED
            BY <1>4, <2>2, <4>1, <5>1, <5>2
        <4>10. end[n] =< Len(g) /\ \A l \in n + 1 .. end[n] : g[l] = f[l]
          <5>1. IsPrefix(from[n], gfrom[n])
            BY <4>5, <4>8
          <5>2. H(n)
            BY <2>1, <4>9
          <5> QED
            BY <4>9, <5>1, <5>2
        <4>11. \A j \in 1 .. Len(payload) : g[i + 1 + j] = f[i + 1 + j]
          BY <4>1, <4>5, <4>6
        <4> HIDE DEF n, payload, rest, grest
        <4>12. ASSUME NEW l \in i + 1 .. end[i] PROVE g[l] = f[l]
          <5>1. CASE l = i + 1
            BY <4>7, <5>1
          <5>2. CASE l \in n + 1 .. end[n]
            BY <4>10, <5>2
          <5>3. CASE l > i + 1 /\ l =< n
            <6> DEFINE j == l - (i + 1)
            <6>1. j \in 1 .. Len(payload) /\ i + 1 + j = l
              BY <2>2, <4>1, <4>9, <5>3
            <6> QED
              BY <4>11, <6>1
          <5>4. end[i] = end[n] /\ end[n] \in Nat /\ l \in Int /\ l >= i + 1
            BY <1>2, <2>2, <4>1
          <5> QED
            BY <2>2, <4>9, <5>1, <5>2, <5>3, <5>4
        <4> QED
          BY <4>1, <4>10, <4>12
      <3> QED
        BY <3>1, <3>2
    <2>4. \A m \in i .. N : H(m)
      BY <2>1, <2>2, <2>3
    <2>5. i \in 0 .. N + 1
      BY <1>4, <2>2
    <2> QED
      BY <2>4, <2>5 DEF S, i
  <1>7. 0 \in S
    <2>1. S \in SUBSET Nat /\ N + 1 \in Nat
      BY <1>4
    <2> HIDE DEF S
    <2> QED
      BY <1>5, <1>6, <2>1, DownwardInduction
  <1>8. H(0) /\ 0 + 1 = 1 /\ 0 =< Len(g)
    BY <1>4, <1>7
  <1> QED
    BY <1>1, <1>2, <1>3, <1>8

LEMMA StartsWith ==
    ASSUME NEW F, NEW s \in Seq(F), NEW rest \in Seq(F)
    PROVE  Len(s) =< Len(s \o rest) /\ s = SubSeq(s \o rest, 1, Len(s))
  <1> DEFINE t == s \o rest
             u == SubSeq(t, 1, Len(s))
  <1>1. t \in Seq(F) /\ Len(t) = Len(s) + Len(rest) /\ Len(s) \in Nat /\ Len(rest) \in Nat
    OBVIOUS
  <1>2. \A i \in 1 .. Len(s) : t[i] = s[i]
    OBVIOUS
  <1> HIDE DEF t
  <1>3. Len(s) =< Len(t)
    BY <1>1
  <1>4. u \in Seq(F) /\ Len(u) = Len(s)
    BY <1>1, <1>3
  <1>5. \A i \in 1 .. Len(s) : u[i] = s[i]
    BY <1>1, <1>2, <1>3
  <1> HIDE DEF u
  <1>6. u = s
    BY <1>4, <1>5
  <1> QED
    BY <1>3, <1>6 DEF t, u

\* Whatever the kernel had written back, the frames that are left are those that
\* were fsynced, or as many of those that are in the file, at least those that
\* were fsynced if the file starts with them.
LEMMA ImageSurvives ==
    ASSUME file \in Seq(Cell), synced \in Seq(Cell), NEW image \in Images
    PROVE  Scan(image) \in W!Survivors
  <1> DEFINE kept == Len(LongestCommonPrefix({synced, file}))
             F == Seq(Record)
             low == IF IsPrefix(Scan(synced), Scan(file)) THEN Len(Scan(synced)) ELSE 0
  <1>1. W!Survivors = {Scan(synced)} \cup {SubSeq(Scan(file), 1, n) : n \in low .. Len(Scan(file))}
    <2>1. W!IsPrefix(Scan(synced), Scan(file)) <=> IsPrefix(Scan(synced), Scan(file))
      BY DEF W!IsPrefix, IsPrefix
    <2> QED
      BY <2>1 DEF W!Survivors, Durable, Frames
  <1>2. /\ kept \in 0 .. Len(synced) /\ kept \in 0 .. Len(file)
        /\ \A i \in 1 .. kept : synced[i] = file[i]
        /\ \A m \in 0 .. Len(synced) :
              m =< Len(file) /\ (\A i \in 1 .. m : synced[i] = file[i]) => m =< kept
    BY CommonStart
  <1>3. CASE image = synced
    BY <1>1, <1>3
  <1>4. CASE image # synced
    <2> DEFINE Left(n, holes) == [i \in 1 .. n |-> IF i \in holes THEN Broken ELSE file[i]]
               Rest == {Left(n, holes) : n \in kept .. Len(file), holes \in SUBSET (kept + 1 .. Len(file))}
    <2>1. Images = {synced} \cup Rest
      BY DEF Images
    <2>2. image \in Rest
      <3> HIDE DEF Rest
      <3> QED
        BY <1>4, <2>1
    <2>3. PICK n \in kept .. Len(file), holes \in SUBSET (kept + 1 .. Len(file)) :
             image = Left(n, holes)
      <3> HIDE DEF Left, kept
      <3> QED
        BY <2>2
    <2> HIDE DEF kept
    <2>4. /\ n \in Nat /\ n =< Len(file) /\ kept \in Nat /\ kept =< n
          /\ Len(file) \in Nat /\ Len(synced) \in Nat
      BY <1>2, <2>3
    <2>5. image \in Seq(Cell)
      BY ImageType
    <2>6. Len(image) = n /\ \A i \in 1 .. n : image[i] = IF i \in holes THEN Broken ELSE file[i]
      <3>1. image = [i \in 1 .. n |-> IF i \in holes THEN Broken ELSE file[i]]
        BY <2>3
      <3>3. Len(image) = n
        BY <2>4, <2>5, <3>1
      <3> QED
        BY <3>1, <3>3
    <2> DEFINE v == ValidEnd(image)
    <2>7. v \in 0 .. n /\ v \in Nat /\ v =< Len(file)
      <3>1. v \in 0 .. n
        BY <2>5, <2>6, ValidEndType
      <3> QED
        BY <2>4, <3>1
    <2>8. \A i \in 1 .. v : file[i] = image[i]
      <3> TAKE i \in 1 .. v
      <3>1. image[i] # Broken
        BY <2>5, NoHoles
      <3>2. i \in 1 .. n
        BY <2>4, <2>7
      <3> QED
        BY <2>6, <3>1, <3>2
    <2>9. PICK rest \in Seq(F) : Scan(file) = Scan(image) \o rest
      <3>1. v = ValidEnd(image)
        OBVIOUS
      <3> HIDE DEF v
      <3> QED
        BY <2>5, <2>7, <2>8, <3>1, ScanSplit
    <2>10. Scan(image) \in Seq(F) /\ Scan(file) \in Seq(F) /\ Scan(synced) \in Seq(F)
      BY <2>5, FramesType
    <2> DEFINE m == Len(Scan(image))
    <2>11. m \in Nat /\ Len(Scan(file)) \in Nat /\ m =< Len(Scan(file))
           /\ Scan(image) = SubSeq(Scan(file), 1, m)
      <3> HIDE DEF F
      <3>1. Len(Scan(image)) =< Len(Scan(image) \o rest)
            /\ Scan(image) = SubSeq(Scan(image) \o rest, 1, Len(Scan(image)))
        BY <2>10, StartsWith
      <3>2. m \in Nat /\ Len(Scan(file)) \in Nat
        BY <2>10
      <3> QED
        BY <2>9, <3>1, <3>2
    <2>12. ASSUME IsPrefix(Scan(synced), Scan(file)) PROVE Len(Scan(synced)) =< m
      <3> DEFINE e == ValidEnd(synced)
      <3>1. /\ e =< Len(file) /\ \A i \in 1 .. e : file[i] = synced[i]
            /\ e \in 0 .. Len(synced)
        BY <2>12, SameCells, ValidEndType
      <3>2. e =< kept /\ e \in Nat /\ e =< Len(image)
        <4>1. e =< kept
          BY <1>2, <3>1
        <4> QED
          BY <2>4, <2>6, <3>1, <4>1
      <3>3. \A i \in 1 .. e : image[i] = synced[i]
        <4> TAKE i \in 1 .. e
        <4>1. i \in 1 .. n /\ i \notin kept + 1 .. Len(file)
          BY <2>4, <3>2
        <4>2. image[i] = file[i]
          BY <2>3, <2>6, <4>1
        <4> QED
          BY <3>1, <4>2
      <3>4. PICK more \in Seq(F) : Scan(image) = Scan(synced) \o more
        <4>1. e = ValidEnd(synced)
          OBVIOUS
        <4> HIDE DEF e
        <4> QED
          BY <2>5, <3>2, <3>3, <4>1, ScanSplit
      <3> HIDE DEF F
      <3>5. Len(Scan(synced)) =< Len(Scan(synced) \o more)
        BY <2>10, StartsWith
      <3> QED
        BY <3>4, <3>5
    <2>13. m \in low .. Len(Scan(file))
      <3>1. Len(Scan(synced)) \in Nat
        BY <2>10
      <3>2. low =< m /\ low \in Nat
        BY <2>11, <2>12, <3>1
      <3> HIDE DEF m, low
      <3> QED
        BY <2>11, <3>2 DEF m
    <2> HIDE DEF low
    <2> QED
      BY <1>1, <2>11, <2>13
  <1> QED
    BY <1>3, <1>4

-----------------------------------------------------------------------------
(* The log as WAL describes it.                                              *)

LEMMA ScanEmpty == Scan(<<>>) = <<>> /\ ValidEnd(<<>>) = 0
  <1>1. <<>> \in Seq(Cell) /\ Len(<<>>) = 0 /\ 0 \in 0 .. Len(<<>>)
    OBVIOUS
  <1>2. ~ReadableAt(<<>>, 0)
    BY DEF ReadableAt
  <1>3. ValidEnd(<<>>) \in 0 .. Len(<<>>)
    BY <1>1, ValidEndType
  <1>4. PICK from \in [0 .. Len(<<>>) -> Seq(Seq(Record))] :
           /\ Scan(<<>>) = from[0]
           /\ \A i \in 0 .. Len(<<>>) :
                 from[i] = IF ReadableAt(<<>>, i) THEN <<<<>>[i + 1].frame>> \o from[NextFrame(<<>>, i)]
                                                  ELSE <<>>
    BY <1>1, ScanIs
  <1>5. Scan(<<>>) = <<>>
    BY <1>1, <1>2, <1>4
  <1> QED
    BY <1>1, <1>3, <1>5

LEMMA AppendStep ==
    ASSUME NEW ops \in Batches, given' = given + Len(ops), Durable' = Durable,
           Torn = (ValidEnd(file) < Len(Settled)),
           \/ ~Torn /\ Frames' = Append(Frames, Stamped(given, ops)) /\ ~Torn'
           \/ Torn /\ Frames' = Frames /\ Torn'
           \/ Torn' /\ Frames' = Frames
           \/ UNCHANGED <<Frames, Torn>>
    PROVE  WALStep
  <1>1. Torn \in BOOLEAN /\ Torn' \in BOOLEAN
    BY DEF Torn
  <1>2. W!NewFrame(ops) = Stamped(given, ops)
    BY DEF W!NewFrame, Stamped
  <1>3. ASSUME Torn' /\ Frames' = Frames PROVE W!AppendTorn(ops)
    <2>1. Torn' = TRUE
      BY <1>1, <1>3
    <2> QED
      BY <1>3, <2>1 DEF W!AppendTorn
  <1>4. ASSUME ~Torn /\ Frames' = Append(Frames, Stamped(given, ops)) /\ ~Torn'
        PROVE  W!AppendFrame(ops)
    <2>1. Torn' = Torn
      BY <1>1, <1>4
    <2>2. 0 = (0 + 1) % 1
      OBVIOUS
    <2>3. Frames' = IF Torn THEN Frames ELSE Append(Frames, W!NewFrame(ops))
      BY <1>2, <1>4
    <2> QED
      BY <2>1, <2>2, <2>3 DEF W!AppendFrame
  <1>5. ASSUME UNCHANGED <<Frames, Torn>> PROVE W!AppendNothing(ops)
    BY <1>5 DEF W!AppendNothing
  <1> QED
    BY <1>3, <1>4, <1>5 DEF WALStep

LEMMA LogStepIsWAL ==
    ASSUME LogInv, LogInv', NEW p \in Procs, LogStep(p)
    PROVE  WALStep \/ UNCHANGED <<Frames, Torn, Durable, given>>
  <1>1. /\ log \in [Procs -> LogRecord] /\ log[p] \in LogRecord
        /\ file \in Seq(Cell) /\ Len(file) \in Nat /\ Appending(log[p]) /\ given \in Nat
        /\ Placed(log[p], file, given)
    BY DEF LogInv, LogsTyped, Offsets
  <1>2. \A q \in Procs \ {p} : log[q].at # "payload" /\ log'[q].at # "payload"
    <2>1. /\ \A q \in Procs \ {p} : log'[q] = log[q]
          /\ LogIsOpen(p) \/ OpenLog(p)
      BY LogStepStates DEF LogInv
    <2>2. CASE LogIsOpen(p)
      BY <2>1, <2>2 DEF LogInv, Sessions, LogIsOpen
    <2>3. CASE OpenLog(p)
      <3>1. log'[p].at = "scanned"
        BY <1>1, <2>3 DEF OpenLog, NoLog
      <3>2. \A q \in Procs : log'[q].at = "payload" => q = p
        BY <3>1 DEF LogInv, Sessions, LogIsOpen
      <3> QED
        BY <2>1, <3>2
    <2> QED
      BY <2>1, <2>2, <2>3
  <1>3. log[p].at # "payload" => Settled = file
    BY <1>2 DEF Settled
  <1>4. log'[p].at # "payload" => Settled' = file'
    BY <1>2 DEF Settled
  <1>5. log[p].at = "payload" =>
           /\ HalfWay(log[p], file, given) /\ log[p].frame \in Seq(Record) /\ log[p].frame # <<>>
           /\ Len(log[p].frame) \in Nat /\ file # <<>> /\ Settled = Front(file)
    BY <1>1 DEF Placed, HalfWay, Appending, LogRecord, Settled
  <1>6. log'[p].at = "payload" => (file' # <<>> => Settled' = Front(file'))
    BY DEF Settled
  <1>7. ASSUME UNCHANGED <<file, synced, given>>, log[p].at # "payload", log'[p].at # "payload"
        PROVE  UNCHANGED <<Frames, Torn, Durable, given>>
    BY <1>3, <1>4, <1>7 DEF Frames, Torn, Durable
  <1>8. CASE OpenLog(p)
    <2>1. log[p].at # "payload" /\ log'[p].at # "payload" /\ UNCHANGED <<file, synced, given>>
      BY <1>1, <1>8 DEF OpenLog, At, NoLog
    <2> QED
      BY <1>7, <2>1
  <1>9. CASE Replay(p) \/ ReplayFails(p)
    <2>1. log[p].at # "payload" /\ log'[p].at # "payload" /\ UNCHANGED <<file, synced, given>>
      BY <1>1, <1>9 DEF Replay, ReplayFails, At, LogRecord
    <2> QED
      BY <1>7, <2>1
  <1>10. ASSUME UNCHANGED <<file, given>>, synced' \in {synced, file},
                log[p].at # "payload", log'[p].at # "payload"
         PROVE  WALStep \/ UNCHANGED <<Frames, Torn, Durable, given>>
    <2>1. Settled = file /\ Settled' = file'
      BY <1>3, <1>4, <1>10
    <2>2. UNCHANGED <<Frames, Torn, given>>
      BY <1>10, <2>1 DEF Frames, Torn
    <2>3. Durable' = Durable \/ Durable' = Frames
      BY <1>10 DEF Durable, Frames
    <2> QED
      BY <2>2, <2>3 DEF WALStep, W!Fsync
  <1>11. CASE CloseLog(p) \/ SyncAppend(p) \/ SyncReset(p)
    <2>1. /\ log[p].at # "payload" /\ log'[p].at # "payload"
          /\ UNCHANGED <<file, given>> /\ synced' \in {synced, file}
      BY <1>1, <1>11 DEF CloseLog, SyncAppend, SyncReset, At, LogRecord, NoLog
    <2> QED
      BY <1>10, <2>1
  <1>12. CASE CutTail(p)
    <2>1. /\ log[p].at = "scanned" /\ log[p].size = Len(file) /\ log[p].end = ValidEnd(file)
          /\ log[p].seq = LastIn(Scan(file))
      BY <1>1, <1>12 DEF CutTail, At, Placed
    <2>2. log'[p].at = "opened" /\ given' = Larger(log[p].seq, floor) /\ synced' = synced
      BY <1>1, <1>12 DEF CutTail, LogRecord
    <2>3. Scan(file') = Scan(file) /\ ValidEnd(file') = Len(file') /\ Len(file') \in Nat
      <3>1. ValidEnd(file) \in 0 .. Len(file)
        BY <1>1, ValidEndType
      <3>2. CASE ValidEnd(file) < Len(file)
        <4>1. file' = Resize(file, ValidEnd(file))
          BY <1>12, <2>1, <3>2 DEF CutTail
        <4> QED
          BY <1>1, <3>1, <4>1, ScanCut
      <3>3. CASE ValidEnd(file) = Len(file)
        <4>1. file' = file
          BY <1>1, <1>12, <2>1, <3>3 DEF CutTail
        <4> QED
          BY <1>1, <3>3, <4>1
      <3> QED
        BY <1>1, <3>1, <3>2, <3>3
    <2>4. Settled' = file'
      BY <1>4, <2>2
    <2>5. Torn' = FALSE
      BY <2>3, <2>4 DEF Torn
    <2>6. given' = W!Larger(W!HighestSeq(W!SeqsIn(Frames)), floor)
      BY <2>1, <2>2 DEF W!Larger, Larger, W!HighestSeq, HighestSeq, W!SeqsIn, W!FrameRecords,
                        FrameRecords, W!ToSet, ToSet, LastIn, Frames
    <2>7. Frames' = Frames /\ Durable' = Durable
      BY <2>2, <2>3 DEF Frames, Durable
    <2> QED
      BY <2>5, <2>6, <2>7 DEF WALStep, W!RecoverLog
  <1>13. ASSUME NEW ops \in Batches, WriteHeader(p, ops)
         PROVE  UNCHANGED <<Frames, Torn, Durable, given>>
    <2> DEFINE frame == NewFrameOf(p, ops)
    <2>1. log[p].at = "ready" /\ log[p].cursor = Len(file)
      BY <1>1, <1>13 DEF WriteHeader, MayAppend, At, Placed, AtEnd
    <2>2. frame \in Seq(Record)
      BY NewFrameType DEF LogInv
    <2>3. /\ file' = WriteAt(file, Len(file), <<Header(frame)>>)
          /\ log'[p].at = "payload" /\ given' = given /\ synced' = synced
      BY <1>1, <1>13, <2>1 DEF WriteHeader, LogRecord
    <2> HIDE DEF frame
    <2>4. /\ file' # <<>> /\ Front(file') = file
          /\ Scan(file') = Scan(file) /\ ValidEnd(file') = ValidEnd(file)
      BY <1>1, <2>2, <2>3, HeaderWritten
    <2>5. Settled = file /\ Settled' = file
      BY <1>3, <1>6, <2>1, <2>3, <2>4
    <2> QED
      BY <2>3, <2>4, <2>5 DEF Frames, Torn, Durable
  <1>14. ASSUME NEW ops \in Batches, WriteHeaderFails(p, ops) PROVE WALStep
    <2>1. PICK cells \in {<<>>, <<Broken>>} :
             /\ file' = WriteAt(file, log[p].cursor, cells)
             /\ log' = [log EXCEPT ![p].cursor = @ + Len(cells), ![p].seq = @ + Len(ops)]
      BY <1>14 DEF WriteHeaderFails
    <2>2. log[p].at = "ready" /\ log[p].seq = given /\ log[p].cursor = Len(file)
      BY <1>1, <1>14 DEF WriteHeaderFails, MayAppend, At, Placed, AtEnd
    <2>3. given' = given + Len(ops) /\ synced' = synced /\ log'[p].at = "ready"
      BY <1>1, <1>14, <2>1, <2>2 DEF WriteHeaderFails, LogRecord
    <2>4. Settled = file /\ Settled' = file' /\ Durable' = Durable
      BY <1>3, <1>4, <2>2, <2>3 DEF Durable
    <2>5. CASE cells = <<>>
      <3>1. cells \in Seq(Cell) /\ Len(cells) = 0
        BY <2>5
      <3>2. /\ file' \in Seq(Cell) /\ Len(file') = Len(file) + Len(cells)
            /\ \A i \in 1 .. Len(file) : file'[i] = file[i]
        <4>1. file' = WriteAt(file, Len(file), cells)
          BY <2>1, <2>2
        <4>2. /\ WriteAt(file, Len(file), cells) \in Seq(Cell)
              /\ Len(WriteAt(file, Len(file), cells)) = Len(file) + Len(cells)
              /\ \A i \in 1 .. Len(file) : WriteAt(file, Len(file), cells)[i] = file[i]
          <5>1. cells \in Seq(Cell)
            BY <3>1
          <5> QED
            BY <1>1, <5>1, AppendedAt
        <4> QED
          BY <4>1, <4>2
      <3>3. file' = file
        BY <1>1, <3>1, <3>2
      <3>4. UNCHANGED <<Frames, Torn>>
        BY <2>4, <3>3 DEF Frames, Torn
      <3> QED
        BY <2>3, <2>4, <3>4, AppendStep DEF Torn
    <2>6. CASE cells = <<Broken>>
      <3>1. <<>> \in Seq(Record) /\ file' = WriteAt(file, Len(file), <<Header(<<>>)>>)
        BY <2>1, <2>2, <2>6 DEF Broken
      <3>2. Scan(file') = Scan(file) /\ ValidEnd(file') < Len(file')
        BY <1>1, <3>1, HeaderWritten
      <3>3. Frames' = Frames /\ Torn'
        BY <2>4, <3>2 DEF Frames, Torn
      <3> QED
        BY <2>3, <2>4, <3>3, AppendStep DEF Torn
    <2> QED
      BY <2>5, <2>6
  <1>15. ASSUME log[p].at = "payload"
         PROVE  /\ Scan(file) = Scan(Front(file)) /\ ValidEnd(file) = ValidEnd(Front(file))
                /\ Len(Settled) = Len(file) - 1 /\ ValidEnd(Front(file)) \in 0 .. Len(file) - 1
                /\ file[Len(file)] = Header(log[p].frame) /\ log[p].cursor = Len(file)
                /\ \E ops \in Batches : log[p].frame = Stamped(given, ops) /\ log[p].seq = given + Len(ops)
    <2>1. file[Len(file)] = Header(log[p].frame) /\ log[p].cursor = Len(file)
          /\ \E ops \in Batches : log[p].frame = Stamped(given, ops) /\ log[p].seq = given + Len(ops)
      BY <1>5, <1>15 DEF HalfWay
    <2>2. Scan(file) = Scan(Front(file)) /\ ValidEnd(file) = ValidEnd(Front(file))
      BY <1>1, <1>5, <1>15, <2>1, HeaderAlone
    <2>3. Front(file) \in Seq(Cell) /\ Len(Front(file)) = Len(file) - 1
      BY <1>1, <1>5, <1>15, FrontIs
    <2>4. ValidEnd(Front(file)) \in 0 .. Len(file) - 1
      BY <2>3, ValidEndType
    <2> QED
      BY <1>5, <1>15, <2>1, <2>2, <2>3, <2>4
  <1>16. CASE WritePayload(p)
    <2> DEFINE frame == log[p].frame
               n == Len(frame)
    <2>1. log[p].at = "payload"
      BY <1>16 DEF WritePayload, At
    <2>2. PICK ops \in Batches : frame = Stamped(given, ops) /\ log[p].seq = given + Len(ops)
      BY <1>15, <2>1
    <2>3. SubSeq(frame, 1, n) = frame /\ n \in 0 .. Len(frame)
      BY <1>5, <2>1
    <2>4. /\ file' = WriteAt(file, Len(file), SubSeq(frame, 1, n))
          /\ given' = given + Len(ops) /\ synced' = synced /\ log'[p].at = "sync"
      BY <1>1, <1>15, <1>16, <2>1, <2>2, <2>3 DEF WritePayload, LogRecord
    <2>5. /\ Len(file') = Len(file) + n
          /\ ValidEnd(Front(file)) < Len(file) - 1
                => Scan(file') = Scan(Front(file)) /\ ValidEnd(file') = ValidEnd(Front(file))
          /\ ValidEnd(Front(file)) = Len(file) - 1
                => Scan(file') = Append(Scan(Front(file)), frame) /\ ValidEnd(file') = Len(file')
      BY <1>1, <1>5, <1>15, <2>1, <2>3, <2>4, PayloadWritten
    <2>6. n \in Nat /\ Settled' = file' /\ Durable' = Durable
      BY <1>4, <1>5, <2>1, <2>4 DEF Durable
    <2>7. Torn = (ValidEnd(file) < Len(Settled))
      BY DEF Torn
    <2> HIDE DEF n
    <2>8. CASE ValidEnd(Front(file)) < Len(file) - 1
      <3>1. Torn /\ Frames' = Frames
        BY <1>15, <2>1, <2>5, <2>8 DEF Torn, Frames
      <3>2. ValidEnd(file') < Len(file')
        BY <1>1, <1>15, <2>1, <2>5, <2>6, <2>8
      <3>3. Torn'
        BY <2>6, <3>2 DEF Torn
      <3> QED
        BY <2>4, <2>6, <2>7, <3>1, <3>3, AppendStep
    <2>9. CASE ValidEnd(Front(file)) = Len(file) - 1
      <3>1. ~Torn /\ Frames' = Append(Frames, Stamped(given, ops))
        BY <1>1, <1>15, <2>1, <2>2, <2>5, <2>9 DEF Torn, Frames
      <3>2. ~(ValidEnd(file') < Len(file'))
        BY <1>1, <2>5, <2>6, <2>9
      <3>3. ~Torn'
        BY <2>6, <3>2 DEF Torn
      <3> QED
        BY <2>4, <2>6, <2>7, <3>1, <3>3, AppendStep
    <2> QED
      BY <1>1, <1>15, <2>1, <2>8, <2>9
  <1>17. CASE WritePayloadFails(p)
    <2> DEFINE frame == log[p].frame
    <2>1. log[p].at = "payload"
      BY <1>17 DEF WritePayloadFails, At
    <2>2. PICK n \in 0 .. Len(frame) - 1 :
             /\ file' = WriteAt(file, log[p].cursor, SubSeq(frame, 1, n))
             /\ log' = [log EXCEPT ![p].at = "ready", ![p].cursor = @ + n, ![p].frame = <<>>]
      BY <1>17 DEF WritePayloadFails
    <2>3. PICK ops \in Batches : frame = Stamped(given, ops) /\ log[p].seq = given + Len(ops)
      BY <1>15, <2>1
    <2>4. given' = given + Len(ops) /\ synced' = synced /\ log'[p].at = "ready"
      BY <1>1, <1>17, <2>2, <2>3 DEF WritePayloadFails, LogRecord
    <2>5. n \in 0 .. Len(frame) /\ n < Len(frame) /\ n \in Nat
      BY <1>5, <2>1
    <2>6. /\ Len(file') = Len(file) + n /\ Scan(file') = Scan(Front(file))
          /\ ValidEnd(file') = ValidEnd(Front(file))
      <3>1. file' = WriteAt(file, Len(file), SubSeq(frame, 1, n))
        BY <1>15, <2>1, <2>2
      <3>2. /\ file \in Seq(Cell) /\ file # <<>> /\ frame \in Seq(Record) /\ frame # <<>>
            /\ file[Len(file)] = Header(frame)
        BY <1>1, <1>5, <1>15, <2>1
      <3> HIDE DEF frame
      <3> QED
        BY <2>5, <3>1, <3>2, PayloadWritten
    <2>7. Settled' = file' /\ Durable' = Durable
      BY <1>4, <2>4 DEF Durable
    <2>8. ValidEnd(file') < Len(file')
      BY <1>1, <1>15, <2>1, <2>5, <2>6
    <2>9. Torn' /\ Frames' = Frames
      BY <1>15, <2>1, <2>6, <2>7, <2>8 DEF Torn, Frames
    <2> QED
      BY <2>4, <2>7, <2>9, AppendStep DEF Torn
  <1>18. CASE ResetLog(p)
    <2>1. log'[p].at # "payload" /\ file' = <<>> /\ UNCHANGED <<synced, given>>
      BY <1>1, <1>18 DEF ResetLog, LogRecord
    <2>2. Frames' = <<>> /\ Durable' = Durable
      BY <2>1, ScanEmpty DEF Frames, Durable
    <2>3. ValidEnd(file') = 0 /\ Len(Settled') = 0
      BY <1>4, <2>1, ScanEmpty
    <2>4. Torn' = FALSE
      BY <2>3 DEF Torn
    <2> QED
      BY <2>1, <2>2, <2>4 DEF WALStep, W!ResetLogUnsynced
  <1> QED
    BY <1>8, <1>9, <1>11, <1>12, <1>13, <1>14, <1>16, <1>17, <1>18 DEF LogStep

LEMMA CrashIsWAL ==
    ASSUME LogInv, LogInv', NEW p \in Procs, Kill(p) \/ GiveBack(p)
    PROVE  WALStep \/ UNCHANGED <<Frames, Torn, Durable, given>>
  <1>1. /\ log \in [Procs -> LogRecord] /\ log[p] \in LogRecord
        /\ file \in Seq(Cell) /\ Len(file) \in Nat /\ Appending(log[p]) /\ given \in Nat
        /\ Placed(log[p], file, given)
    BY DEF LogInv, LogsTyped, Offsets
  <1>2. log' = [log EXCEPT ![p] = NoLog] /\ file' = file /\ synced' = synced
    BY DEF Kill, GiveBack
  <1>3. Frames' = Frames /\ Durable' = Durable
    BY <1>2 DEF Frames, Durable
  <1>4. log'[p] = NoLog /\ \A q \in Procs \ {p} : log'[q] = log[q]
    BY <1>1, <1>2
  <1>5. CASE log[p].at = "payload"
    <2>1. given' = log[p].seq
      BY <1>5 DEF Kill, GiveBack, Finished, LogIsOpen
    <2>2. HalfWay(log[p], file, given) /\ log[p].frame \in Seq(Record)
      BY <1>1, <1>5 DEF Placed, LogRecord
    <2>3. PICK ops \in Batches : log[p].seq = given + Len(ops)
      BY <2>2 DEF HalfWay
    <2>4. ValidEnd(file) < Len(file)
      BY <1>1, <2>2, HeaderAlone DEF HalfWay
    <2>5. \A q \in Procs : log'[q].at # "payload"
      <3>1. \A q \in Procs \ {p} : log[q].at # "payload"
        BY <1>5 DEF LogInv, Sessions, LogIsOpen
      <3> QED
        BY <1>4, <3>1, NoLogType
    <2>6. Settled' = file'
      BY <2>5 DEF Settled
    <2>7. Torn'
      BY <1>2, <2>4, <2>6 DEF Torn
    <2> QED
      BY <1>3, <2>1, <2>3, <2>7, AppendStep DEF Torn
  <1>6. CASE log[p].at # "payload"
    <2>1. given' = given
      BY <1>6 DEF Kill, GiveBack
    <2>2. \A q \in Procs : log'[q].at = "payload" <=> log[q].at = "payload"
      BY <1>4, <1>6, NoLogType
    <2>3. Settled' = Settled
      BY <1>2, <2>2 DEF Settled
    <2> QED
      BY <1>2, <1>3, <2>1, <2>3 DEF Torn
  <1> QED
    BY <1>5, <1>6

LEMMA PowerLossIsWAL ==
    ASSUME LogInv, PowerLoss
    PROVE  WALStep
  <1>1. PICK image \in Images : file' = image /\ synced' = image
    BY DEF PowerLoss
  <1>2. Scan(image) \in W!Survivors
    BY ImageSurvives DEF LogInv, LogsTyped
  <1>3. Frames' = Scan(image) /\ Durable' = Scan(image) /\ given' = given
    BY <1>1 DEF Frames, Durable, PowerLoss
  <1>4. Torn' \in BOOLEAN
    BY DEF Torn
  <1>5. W!LosePower
    BY <1>2, <1>3, <1>4 DEF W!LosePower
  <1> QED
    BY <1>5 DEF WALStep

LEMMA NextIsWAL ==
    ASSUME LogInv, LogInv', [LockedNext]_lockedVars
    PROVE  WALStep \/ UNCHANGED <<Frames, Torn, Durable, given>>
  <1>1. ASSUME UNCHANGED <<file, synced, given, log>>
        PROVE  UNCHANGED <<Frames, Torn, Durable, given>>
    BY <1>1 DEF Frames, Torn, Durable, Settled
  <1>2. ASSUME NEW p \in Procs, Attempt(p) \/ Acquiring(p) \/ AcquireFails(p)
        PROVE  UNCHANGED <<Frames, Torn, Durable, given>>
    BY <1>1, <1>2 DEF Attempt, Acquiring, AcquireFails, logVars
  <1>3. CASE TimePasses \/ UNCHANGED lockedVars
    BY <1>1, <1>3 DEF TimePasses, lockedVars, logVars
  <1> QED
    BY <1>2, <1>3, LogStepIsWAL, CrashIsWAL, PowerLossIsWAL DEF LockedNext

\* Whoever has the lock, whatever breaks off and whenever it crashes, each step
\* does to the frames that a reader finds what an operation of WAL does.
THEOREM FileImplementsWAL == LockedSpec => ImplementsWAL
  <1>1. LogInv /\ LogInv' /\ [LockedNext]_lockedVars
           => [WALStep]_<<Frames, Torn, Durable, given>>
    BY NextIsWAL
  <1> QED
    BY <1>1, LogInvInit, LogInvNext, PTL DEF LockedSpec, ImplementsWAL
=============================================================================
