--------------------------------- MODULE Address ---------------------------------
(***************************************************************************)
(* The address of ftllib/address.hpp that is made from a string: "0x" is   *)
(* skipped, whatever it is and whether it is there or not, and pairs of    *)
(* characters are read until the string ends.  Nothing keeps the pairs     *)
(* from being more than the address has bytes: the first pair too many is  *)
(* stored outside, where the behaviour is no longer defined, and there the *)
(* model stops.  A character is its code.                                  *)
(***************************************************************************)
EXTENDS Integers, Sequences, SequencesExt

CONSTANTS
    AddrLen,        \* 20
    Strings,        \* what the constructor is called with
    Behind          \* what memory holds behind a string, up to a 0

VARIABLES
    given,          \* the string that the constructor was called with
    s,              \* what lies from its third character on
    p,              \* how much of it was read
    idx,            \* the byte that is next
    addr,
    past            \* was a byte stored past the address?

addressVars == <<given, s, p, idx, addr, past>>

ASSUME AddressAssumption ==
    /\ AddrLen \in Nat
    /\ \A x \in Strings \cup Behind : x \in Seq(1 .. 255)

Char2uint8_BugUpper(c) ==
    IF c \in 48 .. 57 THEN c - 48 ELSE IF c \in 97 .. 102 THEN c - 97 + 10
    ELSE IF c \in 65 .. 71 THEN c - 65 + 10 ELSE 0

\* The ranges '0' to '9', 'a' to 'f' and 'A' to 'F'.
Char2uint8(c) ==
    IF c \in 48 .. 57 THEN c - 48 ELSE IF c \in 97 .. 102 THEN c - 97 + 10
    ELSE IF c \in 65 .. 70 THEN c - 65 + 10 ELSE 0

\* What two characters on from the start of a string is: its rest, or what lies
\* behind the 0 that ends it when it has fewer.
Skipped(x) == IF Len(x) >= 2 THEN {SubSeq(x, 3, Len(x))} ELSE Behind

AddressInit ==
    /\ given \in Strings
    /\ s \in Skipped(given)
    /\ p = 0 /\ idx = 0
    /\ addr = [k \in 0 .. AddrLen - 1 |-> 0]
    /\ past = FALSE

\* Neither character of the pair is the end of the string.
More == p + 2 <= Len(s)

ReadPair_BugCharIndex ==
    /\ More /\ idx < AddrLen
    /\ addr' = [addr EXCEPT ![idx] = (Char2uint8(s[p + 1]) * 16 + Char2uint8(s[p + 2])) % 256]
    /\ idx' = idx + 2 /\ p' = p + 2
    /\ UNCHANGED <<given, s, past>>

ReadPair ==
    /\ More /\ idx < AddrLen
    /\ addr' = [addr EXCEPT ![idx] = (Char2uint8(s[p + 1]) * 16 + Char2uint8(s[p + 2])) % 256]
    /\ idx' = idx + 1 /\ p' = p + 2
    /\ UNCHANGED <<given, s, past>>

\* The pair that has no byte of the address left is stored all the same.
StorePast ==
    /\ More /\ idx >= AddrLen /\ ~past
    /\ past' = TRUE
    /\ UNCHANGED <<given, s, p, idx, addr>>

AddressNext == ReadPair \/ StorePast

AddressSpec == AddressInit /\ [][AddressNext]_addressVars

-----------------------------------------------------------------------------
(* Properties *)

Digits == <<48, 49, 50, 51, 52, 53, 54, 55, 56, 57, 97, 98, 99, 100, 101, 102>>
UpperDigits == <<65, 66, 67, 68, 69, 70>>

Place(c, digits) == CHOOSE k \in DOMAIN digits : digits[k] = c

\* The value of a digit by its place in the alphabet; what is no digit counts 0.
Digit(c) ==
    IF Contains(Digits, c) THEN Place(c, Digits) - 1
    ELSE IF Contains(UpperDigits, c) THEN Place(c, UpperDigits) + 9 ELSE 0

\* The number that digits are in a base.
Number(base, digits) ==
    LET number[k \in 0 .. Len(digits)] ==
            IF k = 0 THEN 0 ELSE number[k - 1] * base + digits[k]
    IN  number[Len(digits)]

\* The bytes written are those of the number that the string's pairs are in base 16,
\* an odd digit at its end left out.  In place of a string without the two characters
\* that are skipped the constructor reads whatever lies behind it, and nothing is said.
ReadsNumber ==
    Len(given) >= 2 =>
        Number(256, [k \in 1 .. idx |-> addr[k - 1]])
            = Number(16, [k \in 1 .. 2 * idx |-> Digit(given[k + 2])])

\* A string of two characters and no more pairs than the address has bytes.
Fits == Len(given) >= 2 /\ (Len(given) - 2) \div 2 <= AddrLen

\* Of a string that fits no pair is stored past the address.
WritesInside == Fits => ~past

\* The loop ends for such strings only: it leaves the address with every longer one,
\* and fills what a shorter one leaves with 0.
EndsInside ==
    Len(given) >= 2 /\ ~More =>
        Fits /\ idx = (Len(given) - 2) \div 2 /\ \A k \in idx .. AddrLen - 1 : addr[k] = 0

\* The constructor of address stays in the address for exactly the strings that fit,
\* and reads all of them but an odd digit.
StaysInside == WritesInside /\ EndsInside
==================================================================================
