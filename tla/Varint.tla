-------------------------------- MODULE Varint ------------------------------
(***************************************************************************)
(* internal/varintx: numbers of variable length.  The engine writes every  *)
(* length, offset and sequence number of its files as one.                 *)
(*                                                                         *)
(* A byte carries log2(Radix) bits, and Radix itself as the flag that more *)
(* bytes follow.  In the code Radix = 128, and ten bytes, the last of them *)
(* at most 1, hold 64 bits.                                                *)
(***************************************************************************)
EXTENDS Integers, SequencesExt

CONSTANTS
    Radix,          \* 0x80
    MaxUint64Len,   \* MaxUint64Len
    LastByte        \* what the byte at MaxUint64Len may be at most: 1

ASSUME VarintAssumption ==
    /\ Radix \in Nat /\ Radix > 1
    /\ MaxUint64Len \in Nat \ {0}
    /\ LastByte \in 1 .. Radix - 1

Bytes == 0 .. 2 * Radix - 1

\* What the bits of a byte count for that has i before it: 1 << s, s growing by 7 a byte.
Weight[i \in 0 .. MaxUint64Len] == IF i = 0 THEN 1 ELSE Radix * Weight[i - 1]

\* The numbers of the machine word: uint64.
MaxWord == (LastByte + 1) * Weight[MaxUint64Len - 1] - 1
Words   == 0 .. MaxWord

\* EncodeUint64.
EncodeUint64[x \in Words] ==
    IF x < Radix THEN <<x>> ELSE <<Radix + (x % Radix)>> \o EncodeUint64[x \div Radix]

Decoded(x, n) == [err |-> "none", word |-> x, n |-> n]
Failed(why)   == [err |-> why, word |-> 0, n |-> 0]

\* The loop of DecodeUint64: up to the first byte without the flag.
Ends(b)      == {i \in DOMAIN b : b[i] < Radix}
Added(b, n)  ==
    LET x[i \in 0 .. n] == IF i = 0 THEN 0 ELSE x[i - 1] + (b[i] % Radix) * Weight[i - 1]
    IN  x[n]
TooLong(b)   == Len(b) > MaxUint64Len /\ \A i \in 1 .. MaxUint64Len : b[i] >= Radix
TooLarge(b)  == Min(Ends(b)) = MaxUint64Len /\ b[MaxUint64Len] > LastByte

\* Mutant of DecodeUint64: the last byte is not looked at, and bits are lost.
DecodeWrapping(b) ==
    IF TooLong(b) THEN Failed("overflow")
    ELSE IF Ends(b) = {} THEN Failed("truncated")
    ELSE Decoded(Added(b, Min(Ends(b))) % (MaxWord + 1), Min(Ends(b)))

DecodeUint64(b) ==
    IF TooLong(b) THEN Failed("overflow")
    ELSE IF Ends(b) = {} THEN Failed("truncated")
    ELSE IF TooLarge(b) THEN Failed("overflow")
    ELSE Decoded(Added(b, Min(Ends(b))), Min(Ends(b)))

-----------------------------------------------------------------------------
\* What the first n bytes of b denote: the reference, as one would write it down.
Denoted(b, n) ==
    LET from[i \in 1 .. n + 1] == IF i > n THEN 0 ELSE (b[i] % Radix) + Radix * from[i + 1]
    IN  from[1]

WordsReadBack ==
    /\ \A x \in Words, c \in Bytes :
          /\ DecodeUint64(EncodeUint64[x] \o <<c>>) = Decoded(x, Len(EncodeUint64[x]))
          /\ \A n \in 0 .. Len(EncodeUint64[x]) - 1 :
                DecodeUint64(SubSeq(EncodeUint64[x], 1, n)) = Failed("truncated")
    /\ \A b \in TupleOf(Bytes, MaxUint64Len + 1) :
          LET n == Min(Ends(b) \cup {MaxUint64Len + 1})
          IN  DecodeUint64(b) = IF n =< MaxUint64Len /\ Denoted(b, n) \in Words
                                  THEN Decoded(Denoted(b, n), n)
                                  ELSE Failed("overflow")
=============================================================================
