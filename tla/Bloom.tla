--------------------------------- MODULE Bloom ------------------------------
(***************************************************************************)
(* internal/bloomx: the Bloom filter of an SSTable.  Its builder sizes it  *)
(* for the number of keys it was given; a reader takes the size and the    *)
(* number of probes from the file, and probes by double hashing.           *)
(*                                                                         *)
(* The hashes are two functions of the key: nothing below depends on what  *)
(* they are, or on how near the sizes are to the optimum, which the code   *)
(* computes in floating point.                                             *)
(***************************************************************************)
EXTENDS Integers

CONSTANTS
    Hash1, Hash2,   \* hashPair: functions from keys to words
    HashWords,      \* how many words there are: 2^64
    MinBits,        \* the least size of a filter: 64
    BitsPerKey,     \* bits per key at the false-positive rate in use
    MaxProbes       \* the largest number of probes: 30

ASSUME BloomAssumption ==
    /\ HashWords \in Nat \ {0} /\ MinBits \in Nat \ {0}
    /\ BitsPerKey \in Nat \ {0} /\ MaxProbes \in Nat \ {0}

AtLeast(m, n) == IF m < n THEN n ELSE m
AtMost(m, n)  == IF m < n THEN m ELSE n

\* OptimalBits and OptimalHashFuncs; New takes no keys for one key.  ln 2 is 7/10.
OptimalBits(n)         == AtLeast(MinBits, BitsPerKey * n)
OptimalHashFuncs(m, n) == AtMost(MaxProbes, AtLeast(1, (7 * m) \div (10 * n)))

\* The bits Add sets and MayContain looks at: h1 + i * h2 in the machine word.
Probed(key, m, k) == {((Hash1[key] + i * Hash2[key]) % HashWords) % m : i \in 0 .. k - 1}

\* Builder.Build, and what MarshalBinary stores of the filter.
Build(keys, n) ==
    LET m == OptimalBits(AtLeast(1, n))
        k == OptimalHashFuncs(m, AtLeast(1, n))
    IN  [m |-> m, k |-> k, bits |-> UNION {Probed(key, m, k) : key \in keys}]

\* Mutant of MayContain: the reader sizes the filter itself, for one key.
MayContainResized(filter, key) ==
    Probed(key, OptimalBits(1), OptimalHashFuncs(OptimalBits(1), 1)) \subseteq filter.bits

MayContain(filter, key) == Probed(key, filter.m, filter.k) \subseteq filter.bits
=============================================================================
