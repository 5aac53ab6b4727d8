------------------------------ MODULE DurableKV -----------------------------
(***************************************************************************)
(* What lsmkv promises, with no log, memtable or file in sight: a map from *)
(* keys to values, changed by atomic writes that are totally ordered.  A   *)
(* write is begun, and then takes effect or comes to nothing; a crash may  *)
(* undo the latest writes, never one it was promised would last, and may   *)
(* let a write take effect that was begun and not acknowledged.            *)
(***************************************************************************)
EXTENDS Versions

CONSTANT Writes     \* the frames clients may write

VARIABLES
    view,       \* what a reader sees: the content of each key
    log,        \* the writes that took effect
    unsure,     \* writes begun that have not taken effect, and may yet
    promised    \* writes up to this number will last

kvVars == <<view, log, unsure, promised>>

KVInit ==
    /\ view = [k \in Keys |-> Tombstone]
    /\ log = {} /\ unsure = {}
    /\ promised = 0

After(f, g) == LastSeq(g) < f[1].seq

\* The number of a write that failed may be given out again.
Begin ==
    \E f \in Writes :
        /\ \A g \in log : After(f, g)
        /\ unsure' = unsure \cup {f}
        /\ UNCHANGED <<view, log, promised>>

\* The last record of a key wins, within the write as between writes.
Effect(f) ==
    [k \in Keys |->
        LET at == {i \in DOMAIN f : f[i].key = k}
        IN  IF at = {} THEN view[k] ELSE f[Max(at)].val]

\* A caller may be promised the write it made along with its success, and what
\* failed before may be given up for good at the same time.
Take ==
    \E f \in unsure :
        /\ \A g \in log : After(f, g)
        /\ view' = Effect(f)
        /\ log' = log \cup {f}
        /\ unsure' \in SUBSET (unsure \ {f})
        /\ promised' \in {promised, LastSeq(f)}

\* Nothing new is promised, or everything that took effect.
Promise ==
    \/ promised' = promised
    \/ /\ promised' \in {LastSeq(f) : f \in log}
       /\ \A f \in log : LastSeq(f) =< promised'

\* Sync and Flush promise; again, what failed before may be given up.
Settle ==
    /\ Promise
    /\ unsure' \in SUBSET unsure
    /\ UNCHANGED <<view, log>>

\* A session ends, by a crash or by a Close, which promises.  What is there after it
\* are the writes up to some number, all the promised ones among them, and some
\* that were begun and failed; of two writes with one number not both.
Restart ==
    \E kept \in SUBSET log, surfaced \in SUBSET unsure :
        /\ Promise
        /\ \A f \in kept, g \in log : LastSeq(g) < LastSeq(f) => g \in kept
        /\ \A g \in log : LastSeq(g) =< promised' => g \in kept
        /\ \A f, g \in kept \cup surfaced : f = g \/ After(f, g) \/ After(g, f)
        /\ log' = kept \cup surfaced
        /\ view' = Visible(TableOf(FrameRecords(log')))
        /\ unsure' \in SUBSET (unsure \ surfaced)

KVNext == Begin \/ Take \/ Settle \/ Restart

KVSpec == KVInit /\ [][KVNext]_kvVars
=============================================================================
