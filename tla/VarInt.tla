-------------------------------- MODULE VarInt --------------------------------
(***************************************************************************)
(* Variable-length integers (ftllib/varint.hpp): a word in groups of       *)
(* PayloadBits bits, the lowest first, one to a byte, whose highest bit    *)
(* says that another follows.  A signed number is written as the word      *)
(* that has its sign in the lowest bit.                                    *)
(***************************************************************************)
EXTENDS Integers, Sequences

CONSTANTS
    PayloadBits,    \* bits of a byte that carry data: 7
    WordBits        \* bits of an unsigned_int: 32

ASSUME VarIntAssumption ==
    /\ PayloadBits \in Nat \ {0}
    /\ WordBits \in Nat \ {0}

\* No shift is by more than the bits of a byte for each bit of a word.
MaxShift == PayloadBits * WordBits

Pow2[n \in 0 .. MaxShift] == IF n = 0 THEN 1 ELSE 2 * Pow2[n - 1]

Payload == Pow2[PayloadBits]
Byte == 0 .. 2 * Payload - 1
Word == 0 .. Pow2[WordBits] - 1
Integer == -Pow2[WordBits - 1] .. Pow2[WordBits - 1] - 1

-----------------------------------------------------------------------------
(* unsigned_int *)

\* val, after i groups have been shifted out of it.
Left(n, i) == n \div Pow2[PayloadBits * i]

\* b |= ((val > 0) << 7)
ContinueBit(left) == IF left > 0 THEN Payload ELSE 0

\* operator<<: a byte at least, until nothing is left.
PackVar(n) ==
    LET len == CHOOSE i \in 1 .. WordBits :
                  Left(n, i) = 0 /\ \A j \in 1 .. i - 1 : Left(n, j) # 0
    IN  [i \in 1 .. len |-> (Left(n, i - 1) % Payload) + ContinueBit(Left(n, i))]

\* operator>>: every value it may give, with the bytes left.  Nothing when the
\* bytes end first.  A group shifted by the width of a word or more has no
\* defined value.
ReadVar(bytes) ==
    LET last == {i \in DOMAIN bytes : bytes[i] < Payload}
        n == CHOOSE i \in last : \A j \in last : i <= j
        sum[i \in 0 .. n] ==
            IF i = 0 THEN 0
            ELSE sum[i - 1] + (bytes[i] % Payload) * Pow2[PayloadBits * (i - 1)]
        values == IF PayloadBits * (n - 1) >= WordBits THEN Word
                  ELSE {sum[n] % Pow2[WordBits]}
    IN  IF last = {} THEN {}
        ELSE {[v |-> v, rest |-> SubSeq(bytes, n + 1, Len(bytes))] : v \in values}

-----------------------------------------------------------------------------
(* signed_int *)

ZigZag_BugPlain(v) == v % Pow2[WordBits]

\* uint32_t((v.value << 1) ^ (v.value >> 31))
ZigZag(v) == IF v >= 0 THEN 2 * v ELSE -2 * v - 1

UnZigZag_BugTruncate(w) == IF w % 2 = 0 THEN w \div 2 ELSE -(w \div 2)

\* (v >> 1) ^ (~(v & 1) + 1ull)
UnZigZag(w) == IF w % 2 = 0 THEN w \div 2 ELSE -(w \div 2) - 1
=============================================================================
