-------------------------------- MODULE MCCodec --------------------------------
(***************************************************************************)
(* Bytes of three bits, two of which carry data in a varint, and words of  *)
(* five bits: a varint takes up to three bytes, the last one with a bit    *)
(* that does not count, and four are too many.  The types nest each kind   *)
(* in the others to a depth of two or three.                               *)
(***************************************************************************)
EXTENDS Codec

U8 == [k |-> "byte"]
Flag == [k |-> "bool"]
VarU == [k |-> "varuint"]
VarI == [k |-> "varint"]
ListOf(t) == [k |-> "list", of |-> t]
ArrayOf(n, t) == [k |-> "carray", n |-> n, of |-> t]
SetOf(t) == [k |-> "set", of |-> t]
MapOf(u, t) == [k |-> "map", key |-> u, of |-> t]
Optional(t) == [k |-> "optional", of |-> t]
Variant(t, u) == [k |-> "variant", of |-> <<t, u>>]
Pair(t, u) == [k |-> "pair", of |-> <<t, u>>]
Struct(ts) == [k |-> "struct", of |-> ts]

MCTypes ==
    {U8, Flag, VarU, VarI, ListOf(U8), ListOf(VarU), ListOf(ListOf(U8)),
     ListOf(Flag), ListOf(Optional(U8)), ArrayOf(2, VarU), ArrayOf(1, Optional(VarI)),
     SetOf(VarU), SetOf(U8), MapOf(U8, VarU), MapOf(VarU, ListOf(U8)),
     MapOf(U8, Optional(U8)), Optional(VarI), Optional(ListOf(Flag)),
     Optional(Optional(U8)), Variant(U8, ListOf(VarU)), Variant(Flag, Optional(VarU)),
     Pair(VarU, U8), Pair(Optional(U8), ListOf(U8)), Struct(<<Flag, VarI, U8>>),
     Struct(<<ListOf(VarU), Optional(U8)>>), Struct(<<SetOf(U8), ListOf(U8)>>),
     Struct(<<Variant(U8, VarU), Pair(U8, Flag)>>), ListOf(SetOf(VarU))}

\* Every value of the types that are small; a few of each size of the others.
RECURSIVE Some(_), Products(_)

\* The sequences with an element of each of these sets.
Products(sets) ==
    IF sets = <<>> THEN {<<>>}
    ELSE {<<x>> \o xs : x \in Head(sets), xs \in Products(Tail(sets))}

MCValuesOf(t) ==
    CASE t.k = "varuint" -> Word
      [] t.k = "varint" -> Integer
      [] t.k = "byte" -> Byte
      [] OTHER -> Some(t)

Some(t) ==
    CASE t.k = "byte" -> {0, 7}
      [] t.k = "bool" -> BOOLEAN
      [] t.k = "varuint" -> {1, 21}
      [] t.k = "varint" -> {-16, 3}
      [] t.k = "list" -> BoundedSeq(Some(t.of), 2)
      [] t.k = "carray" -> TupleOf(Some(t.of), t.n)
      [] t.k = "set" -> SUBSET Some(t.of)
      [] t.k = "map" -> UNION {[ks -> Some(t.of)] : ks \in SUBSET Some(t.key)}
      [] t.k = "optional" -> BoundedSeq(Some(t.of), 1)
      [] t.k = "variant" -> UNION {{[i |-> i - 1, v |-> v] : v \in Some(t.of[i])} :
                                      i \in DOMAIN t.of}
      [] OTHER -> Products([i \in DOMAIN t.of |-> Some(t.of[i])])
=============================================================================
