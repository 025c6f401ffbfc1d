------------------------------- MODULE MCAbiGen -------------------------------
(***************************************************************************)
(* Programs of two structs, an alias, a container, a composed type and a   *)
(* builtin, that mention each other in every way C++ allows, with an       *)
(* action, a table and the order and files they are declared in.           *)
(***************************************************************************)
EXTENDS AbiGen

MCTypes == {"int", "A", "B", "L", "V", "P"}

MCBuiltins == {"int8", "bytes"}

MCValidNames == {"act", "other"}

Desc(kind, name, args, fields, base) ==
    [kind |-> kind, name |-> name, args |-> args, fields |-> fields, base |-> base]

Method(attr, t) ==
    [kind |-> "method", name |-> "act", attr |-> attr, fields |-> <<t>>, base |-> <<>>]

RecordAction(attr, t, base) ==
    [kind |-> "record", name |-> "rec", attr |-> attr, fields |-> <<t>>, base |-> base]

TableOf(key, value) ==
    [kind |-> "table", name |-> "tab", attr |-> "", fields |-> <<key, value>>, base |-> <<>>]

\* A struct, base or pair contains its parts by value, so not itself.
Legal(type) ==
    \A S \in SUBSET {"A", "B", "L", "P"} :
        S # {} =>
            \E t \in S : ToSet((IF type[t].kind = "map" THEN <<>> ELSE type[t].args)
                               \o type[t].fields \o type[t].base) \cap S = {}

TypeChoices(aFields, bFields, bBases, lTargets, vDescs, pDescs) ==
    {type \in
        {[int |-> Desc("builtin", "int8", <<>>, <<>>, <<>>),
          A |-> Desc("struct", "A", <<>>, a, <<>>),
          B |-> Desc("struct", "B", <<>>, b, base),
          L |-> Desc("alias", "L", <<l>>, <<>>, <<>>),
          V |-> v, P |-> x] :
            a \in aFields, b \in bFields, base \in bBases, l \in lTargets,
            v \in vDescs, x \in pDescs} :
     Legal(type)}

Containers ==
    {Desc(kind, "", <<t>>, <<>>, <<>>) : kind \in {"seq", "optional"}, t \in {"A", "B"}}
    \cup {Desc("seq", "", <<"int">>, <<>>, <<>>)}

Composed ==
    {Desc(kind, "", <<"int", t>>, <<>>, <<>>) : kind \in {"pair", "map", "tuple"},
                                                 t \in {"A", "L", "V"}}
    \cup {Desc("template", "T", <<t>>, <<t>>, <<>>) : t \in {"A", "V"}}

InputChoices ==
    {<<<<Method("", "P"), TableOf("V", "B"), Method("", "P")>>>>,
     <<<<TableOf("L", "P")>>, <<Method("other", "B")>>>>,
     <<<<RecordAction("other", "P", <<"B">>)>>, <<>>>>,
     <<<<RecordAction("bad", "V", <<>>), Method("", "L")>>>>,
     <<<<[Method("", "A") EXCEPT !.name = "A"]>>>>}   \* a method named as a struct

AllTypes ==
    TypeChoices({<<>>, <<"B">>, <<"V", "P">>}, {<<"L">>, <<"V">>, <<"P">>}, {<<>>, <<"A">>},
                {"int", "A", "V"}, Containers, Composed)

MCPrograms == [type : AllTypes, inputs : InputChoices]
===============================================================================
