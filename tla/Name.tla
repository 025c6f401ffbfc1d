---------------------------------- MODULE Name ----------------------------------
(***************************************************************************)
(* Names (ftllib/name.hpp) and the tools' own copy of their codec          *)
(* (fractal-tools/include/ftl/utils.hpp): FullChars characters of CharBits *)
(* bits, the first in the highest ones, and a last one of a bit less.  In  *)
(* the code that is 12 * 5 + 4 = 64.  A character is its value, 0 for a    *)
(* dot, and Foreign for one that is not in the alphabet.                   *)
(***************************************************************************)
EXTENDS Integers, Sequences, SequencesExt

CONSTANTS
    CharBits,       \* 5
    FullChars,      \* 12
    NameStrings     \* the strings that names are made from

VARIABLES
    str,            \* a string in the source of a contract
    name            \* the name: a value, or Rejected

nameVars == <<str, name>>

Foreign == -1
Rejected == -1

Chars == FullChars + 1
LastBits == CharBits - 1
Width == CharBits * FullChars + LastBits

\* No shift is by more than the width of a name.
Pow2[n \in 0 .. Width] == IF n = 0 THEN 1 ELSE 2 * Pow2[n - 1]

Alphabet == 0 .. Pow2[CharBits] - 1

ASSUME NameAssumption ==
    /\ CharBits \in Nat /\ CharBits >= 2
    /\ FullChars \in Nat /\ FullChars >= 1
    /\ \A w \in NameStrings : w \in Seq(Alphabet \cup {Foreign})

\* Unsigned arithmetic of the width of a name.
Shl(v, n) == (v * Pow2[n]) % Pow2[Width]
Shr(v, n) == v \div Pow2[n]
Top(v) == Shr(v, Width - CharBits)      \* v & mask, moved down

\* One of the first FullChars characters, and the last one.
CharAt(v, k) == Shr(v, Width - CharBits * k) % Pow2[CharBits]
LastChar(v) == v % Pow2[LastBits]

-----------------------------------------------------------------------------
(* The contract's side *)

\* name(std::string_view).
NameOf(w) ==
    LET n == IF Len(w) < FullChars THEN Len(w) ELSE FullChars
        packed[k \in 0 .. n] == IF k = 0 THEN 0 ELSE Shl(packed[k - 1], CharBits) + w[k]
        value == Shl(packed[n], LastBits + CharBits * (FullChars - n))
    IN  IF Len(w) > Chars \/ Foreign \in ToSet(w) THEN Rejected
        ELSE IF Len(w) < Chars THEN value
        ELSE IF w[Chars] > Pow2[LastBits] - 1 THEN Rejected
        ELSE value + w[Chars]

\* length: the last place that is not a dot.
Length(v) ==
    LET chars == {k \in 0 .. FullChars : Top(Shl(v, CharBits * k)) > 0}
    IN  IF v = 0 THEN 0 ELSE (CHOOSE k \in chars : \A j \in chars : j <= k) + 1

\* The loop of suffix: the bits that are left at the last dot, which is tmp, and at
\* the last one that a character follows; 0 where there is none.
BitsAtDots(v) ==
    LET dots[k \in 0 .. FullChars] ==
            IF k = 0 THEN <<0, 0>>
            ELSE IF CharAt(v, k) = 0 THEN <<Width - CharBits * k, dots[k - 1][2]>>
            ELSE <<dots[k - 1][1], dots[k - 1][1]>>
    IN  dots[FullChars]

\* Without a look at the last character.
Remaining_BugLastChar(v) == BitsAtDots(v)[2]

Remaining(v) == BitsAtDots(v)[IF LastChar(v) > 0 THEN 1 ELSE 2]

\* suffix.
Suffix(v) ==
    LET shift == Width - Remaining(v)
        masked == ((v % Pow2[Remaining(v)]) \div Pow2[LastBits]) * Pow2[LastBits]
    IN  IF Remaining(v) = 0 THEN v
        ELSE (Shl(masked, shift) + Shl(LastChar(v), shift - 1)) % Pow2[Width]

\* write_as_string: it stops where nothing but dots is left.
WriteAsString(v) ==
    LET rest == [k \in 0 .. FullChars |-> Shl(v, CharBits * k)]
        char(k) == IF k = FullChars THEN Shr(rest[k], Width - LastBits) ELSE Top(rest[k])
        end == CHOOSE n \in 0 .. Chars :
                  (n < Chars => rest[n] = 0) /\ \A k \in 0 .. n - 1 : rest[k] # 0
    IN  [k \in 1 .. end |-> char(k - 1)]

-----------------------------------------------------------------------------
(* The tools' side *)

Symbol(c) == IF c = Foreign THEN 0 ELSE c

\* string_to_name.
StringToName(w) ==
    LET at(k) == IF k <= Len(w) THEN Symbol(w[k]) ELSE 0
        sum[k \in 0 .. FullChars] ==
            IF k = 0 THEN 0 ELSE sum[k - 1] + Shl(at(k), Width - CharBits * k)
    IN  sum[FullChars] + LastChar(at(Chars))

Trimmed(w) ==
    LET end == CHOOSE n \in 0 .. Len(w) :
                  (n > 0 => w[n] # 0) /\ \A k \in n + 1 .. Len(w) : w[k] = 0
    IN  SubSeq(w, 1, end)

Spelled(v) == [k \in 1 .. Chars |-> IF k = Chars THEN LastChar(v) ELSE CharAt(v, k)]

\* validate_name: does the name read as the string it was made from?
ValidateName_BugLength(w) == Foreign \notin ToSet(w) /\ Len(w) <= Chars

ValidateName(w) == Len(w) <= Chars /\ Trimmed(Spelled(StringToName(w))) = w

\* name_to_string: trim_right_dots leaves a string of nothing but dots.
NameToString(v) == IF v = 0 THEN Spelled(v) ELSE Trimmed(Spelled(v))

-----------------------------------------------------------------------------

\* A name of a string, or of a value that the host or a table gave back.
NameInit ==
    \/ str \in NameStrings /\ name = NameOf(str)
    \/ str = <<>> /\ name \in 0 .. Pow2[Width] - 1

TakeSuffix == name # Rejected /\ name' = Suffix(name) /\ UNCHANGED str

NameSpec == NameInit /\ [][TakeSuffix]_nameVars

-----------------------------------------------------------------------------
(* Properties *)

\* A name is what its string says: a string that the contract accepts reads back
\* the same but for trailing dots, on both sides.
ReadsBack ==
    /\ NameOf(str) # Rejected => WriteAsString(NameOf(str)) = Trimmed(str)
    /\ name # Rejected => NameOf(WriteAsString(name)) = name
    /\ name > 0 => NameToString(name) = WriteAsString(name)

\* The tools accept the strings that the contract accepts without trailing dots,
\* and make the same name of them: what the ABI calls an action is what the
\* dispatcher compares with.
SidesAgree ==
    /\ ValidateName(str) <=> NameOf(str) # Rejected /\ Trimmed(str) = str
    /\ NameOf(str) # Rejected => StringToName(str) = NameOf(str)

\* map.hpp:88, validate_table_name: a length below the last character's place
\* means that the last character's bits are free.
ShortLeavesLastBits ==
    name # Rejected =>
        /\ Length(name) = Len(WriteAsString(name))
        /\ Length(name) < Chars <=> LastChar(name) = 0

\* What a name is, on both sides, is what its string says.
NamesAgree == ReadsBack /\ SidesAgree /\ ShortLeavesLastBits

\* suffix of a name of a contract's string, of the host or of another suffix reads as
\* what follows the last dot of the name, and is its own suffix.
SuffixIsLastPart ==
    name # Rejected =>
        LET w == WriteAsString(name)
            after == CHOOSE n \in 0 .. Len(w) :
                        (n > 0 => w[n] = 0) /\ \A k \in n + 1 .. Len(w) : w[k] # 0
        IN  /\ WriteAsString(Suffix(name)) = SubSeq(w, after + 1, Len(w))
            /\ Suffix(Suffix(name)) = Suffix(name)
===============================================================================
