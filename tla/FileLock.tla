------------------------------ MODULE FileLock ------------------------------
(***************************************************************************)
(* internal/filelock: the LOCK file that keeps a second process out of a   *)
(* database directory.                                                     *)
(*                                                                         *)
(* Each system call on the path is a step, since processes interleave      *)
(* between them: os.OpenFile with O_EXCL, os.Stat, os.Remove.  All of them *)
(* name the file by its path, so a Remove takes away whatever file is      *)
(* there by then.  The pid in the file is written and never read.          *)
(***************************************************************************)
EXTENDS Naturals

CONSTANT Procs      \* the processes that may want the directory

VARIABLES
    lockFile,   \* the file at Lock.path: who created it, whether it is older
                \* than StaleAge, whether its creator was killed (history)
    step,       \* the next step of each process; "held" while Lock.held
    aged        \* history: a lock file has become older than StaleAge

lockVars == <<lockFile, step, aged>>

Absent   == [there |-> FALSE]
LockFile == [there : {TRUE}, by : Procs, old : BOOLEAN, orphan : BOOLEAN]
Steps    == {"out", "create", "stat", "remove", "recreate", "write", "held"}

LockTypeOK ==
    /\ lockFile \in LockFile \cup {Absent}
    /\ step \in [Procs -> Steps]
    /\ aged \in BOOLEAN

LockInit == lockFile = Absent /\ step = [p \in Procs |-> "out"] /\ aged = FALSE

Goes(p, s) == step' = [step EXCEPT ![p] = s]

-----------------------------------------------------------------------------
(* Acquire.                                                                  *)

\* A first attempt; also the next one of an Acquire with a Timeout, which
\* sleeps and tries again until its deadline.
Acquire(p) == step[p] = "out" /\ Goes(p, "create") /\ UNCHANGED lockFile

\* Mutant of Create: the file is opened without O_EXCL.
CreateShared(p, otherwise) ==
    /\ lockFile' = [there |-> TRUE, by |-> p, old |-> FALSE, orphan |-> FALSE]
    /\ Goes(p, "write")

\* os.OpenFile(path, O_CREATE|O_EXCL): otherwise is where to go if it exists.
Create(p, otherwise) ==
    IF lockFile.there
      THEN Goes(p, otherwise) /\ UNCHANGED lockFile
      ELSE /\ lockFile' = [there |-> TRUE, by |-> p, old |-> FALSE, orphan |-> FALSE]
           /\ Goes(p, "write")

TryCreate(p) == step[p] = "create" /\ Create(p, "stat")

\* Mutant of Stat: no lock file is taken for stale.
StatTrusting(p) == step[p] = "stat" /\ Goes(p, "out") /\ UNCHANGED lockFile

\* maybeRemoveStale looks at the age of the file; ErrLocked unless it is stale.
Stat(p) ==
    /\ step[p] = "stat"
    /\ Goes(p, IF lockFile.there /\ lockFile.old THEN "remove" ELSE "out")
    /\ UNCHANGED lockFile

RemoveStale(p) ==
    /\ step[p] = "remove"
    /\ lockFile' = Absent
    /\ Goes(p, "recreate")

Recreate(p) == step[p] = "recreate" /\ Create(p, "out")

\* The pid is written and fsynced.
WriteContent(p) == step[p] = "write" /\ Goes(p, "held") /\ UNCHANGED lockFile

\* Mutant of GiveUp: the file stays.
GiveUpLeaving(p) == Goes(p, "out") /\ UNCHANGED lockFile
\* os.Remove(path), on the way out of a failed Acquire and of Release.
GiveUp(p) == lockFile' = Absent /\ Goes(p, "out")

WriteContentFails(p) == step[p] = "write" /\ GiveUp(p)

Release(p) == step[p] = "held" /\ GiveUp(p)

-----------------------------------------------------------------------------
(* The process is killed, and another started under its name; time passes.   *)

Inside(p) == step[p] \in {"write", "held"}

KillProcess(p) ==
    /\ step[p] # "out"
    /\ Goes(p, "out")
    /\ lockFile' = IF Inside(p) /\ lockFile.there /\ lockFile.by = p
                     THEN [lockFile EXCEPT !.orphan = TRUE] ELSE lockFile

Age ==
    /\ lockFile.there
    /\ ~lockFile.old
    /\ lockFile' = [lockFile EXCEPT !.old = TRUE]
    /\ aged' = TRUE
    /\ UNCHANGED step

-----------------------------------------------------------------------------
Call(p) ==
    /\ \/ Acquire(p) \/ TryCreate(p) \/ Stat(p) \/ RemoveStale(p) \/ Recreate(p)
       \/ WriteContent(p) \/ WriteContentFails(p) \/ Release(p) \/ KillProcess(p)
    /\ UNCHANGED aged

LockNext == (\E p \in Procs : Call(p)) \/ Age

LockSpec == LockInit /\ [][LockNext]_lockVars

-----------------------------------------------------------------------------
\* Two processes never have the directory locked at the same time.
MutualExclusion == \A p, q \in Procs : step[p] = "held" /\ step[q] = "held" => p = q

\* They do not as long as no lock file has become stale.
FreshExclusion == aged \/ MutualExclusion

\* No path through Acquire and Release leaves the file behind: unless its
\* creator was killed, it is there only while its creator has the lock or is
\* about to, even when the lock was stolen and given back in any order.
NoLeak == lockFile.there => Inside(lockFile.by) \/ lockFile.orphan
=============================================================================
