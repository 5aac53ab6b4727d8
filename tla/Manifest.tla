------------------------------ MODULE Manifest ------------------------------
(***************************************************************************)
(* internal/manifest: the set of live SSTables, the next file number and   *)
(* the highest sequence number that is in a table.                         *)
(*                                                                         *)
(* Every operation changes the state in memory first and then persists it: *)
(* a temporary file is written and fsynced and renamed over MANIFEST, so   *)
(* the disk holds the old state or the new one, and an operation that      *)
(* fails to persist leaves its change in memory.                           *)
(*                                                                         *)
(* The code keeps the files in the order they were added.  Numbers only    *)
(* grow and Replace keeps the order of what stays, so the order is that of *)
(* the numbers and a set loses nothing.                                    *)
(***************************************************************************)
EXTENDS Versions

VARIABLES
    mf,         \* Manifest.state, in memory
    mfDisk      \* the content of the MANIFEST file

mfVars == <<mf, mfDisk>>

\* FileMeta: Name is a number, formatted by AllocFileName.
FileMeta == [no : Nat, level : {0, 1}, maxSeq : Nat]
MfState  == [nextFile : Nat \ {0}, logSeq : Nat, files : SUBSET FileMeta]

ManifestTypeOK == mf \in MfState /\ mfDisk \in MfState

\* A directory opened for the first time.
NewManifest  == [nextFile |-> 1, logSeq |-> 0, files |-> {}]
ManifestInit == mf = NewManifest /\ mfDisk = NewManifest

FileNos(m) == {f.no : f \in m.files}

\* Mutant of Alloc: NextFile is not advanced.
AllocSame(m) == m
\* Mutant of Replace: the files merged stay listed.
ReplaceKeepsInputs(m, removed, meta) ==
    [m EXCEPT !.files = @ \cup {meta}, !.logSeq = Larger(@, meta.maxSeq)]

\* AllocFileName, AddFile and Replace, on the state in memory.
Alloc(m) == [m EXCEPT !.nextFile = @ + 1]
AddFile(m, meta) ==
    [m EXCEPT !.files = @ \cup {meta}, !.logSeq = Larger(@, meta.maxSeq)]
Replace(m, removed, meta) ==
    [m EXCEPT !.files = {f \in @ : f.no \notin removed} \cup {meta},
              !.logSeq = Larger(@, meta.maxSeq)]

\* persistLocked, and its failure, after which the old MANIFEST is in place.
Update(m)       == mf' = m /\ mfDisk' = m
UpdateUnsaved(m) == mf' = m /\ UNCHANGED mfDisk

\* The name AllocFileName returned last, while nothing has allocated since.
LastAllocated == mf.nextFile - 1

\* Level of a table as Compact looks it up: the zero FileMeta, of level 0, if
\* the manifest does not name it any more.
LevelOf(n) == IF \E f \in mf.files : f.no = n /\ f.level = 1 THEN 1 ELSE 0

\* Mutant of SeqFloor: Open does not carry the numbering over a flushed log.
NoSeqFloor(m) == 0

\* max(MaxSeqAmongFiles, LogSeq), from which Open resumes the numbering.
SeqFloor(m) == Larger(HighestSeq({f.maxSeq : f \in m.files}), m.logSeq)
=============================================================================
