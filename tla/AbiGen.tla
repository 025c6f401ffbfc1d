-------------------------------- MODULE AbiGen --------------------------------
(***************************************************************************)
(* The ABI generator (fractal-tools/include/ftl/abigen.hpp, gen.hpp): for  *)
(* each declaration of the contract, the calls of add_type, add_struct and *)
(* their like, depth first over the types that are mentioned, then to_json *)
(* with what it leaves out.  One abigen serves all inputs of a run.        *)
(*                                                                         *)
(* The name of a type is a sequence of words; "[]" and "?" are words.      *)
(***************************************************************************)
EXTENDS Integers, Sequences, FiniteSets, SequencesExt

CONSTANTS
    Types,          \* the types of a program
    Programs,       \* what the generator may be given: its types and inputs
    Builtins,       \* the names of is_builtin_type
    ValidNames,     \* the names validate_name accepts
    StackLimit      \* calls that fit on the native stack

Marks == {"[]", "?"}

Kinds == {"builtin", "struct", "alias", "seq", "optional", "map", "pair", "tuple", "template"}

\* A type: fields are the types of its fields, base its base class.
TypeForm ==
    [kind : Kinds, name : STRING, args : Seq(Types), fields : Seq(Types), base : Seq(Types)]

\* A declaration: fields are the types of its parameters or fields.
DeclForm ==
    [kind : {"method", "record", "table"}, name : STRING, attr : STRING,
     fields : Seq(Types), base : Seq(Types)]

\* The arguments the generator asks for; tuples and templates have any number.
Arity ==
    [builtin |-> 0, struct |-> 0, alias |-> 1, seq |-> 1, optional |-> 1, map |-> 2, pair |-> 2]

\* What C++ makes sure of: no name has a mark in it, a template has its
\* arguments and none of them contains it, a table has a key and a value.
ASSUME ProgramsAssumption ==
    /\ "bytes" \in Builtins /\ (Builtins \cup Types) \cap Marks = {}
    /\ \A p \in Programs :
          /\ p.type \in [Types -> TypeForm]
          /\ \A t \in Types :
                /\ p.type[t].name \notin Marks
                /\ p.type[t].kind = "builtin" => p.type[t].name \in Builtins
                /\ p.type[t].kind \in DOMAIN Arity =>
                      Len(p.type[t].args) = Arity[p.type[t].kind]
          /\ \A S \in SUBSET Types :
                S # {} => \E t \in S : ToSet(p.type[t].args) \cap S = {}
          /\ p.inputs \in Seq(Seq(DeclForm))
          /\ \A i \in DOMAIN p.inputs : \A d \in ToSet(p.inputs[i]) :
                /\ d.name \notin Marks
                /\ d.kind = "table" => Len(d.fields) = 2

VARIABLES
    prog,           \* the program
    inputs,         \* inputs left, each a sequence of declarations
    decls,          \* declarations left in the current input
    work,           \* what the pending calls have left to do, innermost first
    abi,            \* abigen::_abi
    files,          \* the ABI files written so far
    pc

vars == <<prog, inputs, decls, work, abi, files, pc>>

Type(p, t) == p.type[t]

Init ==
    /\ prog \in Programs
    /\ inputs = prog.inputs
    /\ decls = <<>>
    /\ work = <<>>
    /\ abi = [structs |-> {}, typedefs |-> {}, actions |-> {}, tables |-> {}]
    /\ files = <<>>
    /\ pc = "next"

-----------------------------------------------------------------------------
(* Names *)

Each(Op(_), s) == [i \in DOMAIN s |-> Op(s[i])]

Joined(Op(_), s) == FlattenSeq(Each(Op, s))

\* _translate_type of a type: how it is spelled in the source.
Spelled(p, t) ==
    IF Type(p, t).kind \in {"builtin", "struct", "alias"}
    THEN <<Type(p, t).name>> ELSE <<"spelled", t>>

\* translate_type, given the names of the arguments.
NameFrom(p, name, t) ==
    LET d == Type(p, t)
        first == name[d.args[1]]
        both == <<"pair">> \o first \o name[d.args[2]]
    IN  CASE d.kind = "seq" -> IF first = <<"int8">> THEN <<"bytes">> ELSE Append(first, "[]")
          [] d.kind = "optional" -> Append(first, "?")
          [] d.kind = "map" -> Append(both, "[]")
          [] d.kind = "pair" -> both
          [] d.kind = "tuple" -> <<"tuple">> \o Joined(LAMBDA a : Spelled(p, a), d.args)
          [] d.kind = "template" -> <<d.name>> \o Joined(LAMBDA a : name[a], d.args)
          [] OTHER -> <<d.name>>

Name(p, t) ==
    LET name[u \in Types] == NameFrom(p, name, u)
    IN  name[t]

\* get_template_name, the name under which add_type adds a specialization.
TemplateName(p, t) ==
    <<Type(p, t).name>> \o Joined(LAMBDA a : Spelled(p, a), Type(p, t).args)

IsBuiltin(name) == Len(name) = 1 /\ name[1] \in Builtins

RemoveSuffix(name) ==
    LET end == CHOOSE i \in 0 .. Len(name) :
                  /\ i > 0 => name[i] \notin Marks
                  /\ \A j \in i + 1 .. Len(name) : name[j] \in Marks
    IN  SubSeq(name, 1, end)

-----------------------------------------------------------------------------
(* The calls, each as the work it leaves *)

AddType(t) == <<"type", t>>
AddTypes(s) == Each(AddType, s)
AddRecord(t) == <<"record", t>>
Insert(set, entry) == <<"insert", set, entry>>
Validate(name) == <<"validate", name>>

Struct(name, base, fields) == [name |-> name, base |-> base, fields |-> fields]

Names(p, s) == Each(LAMBDA t : Name(p, t), s)

\* add_struct of a record, under the name rname.
StructWork(p, d, rname) ==
    LET base == IF Len(d.base) = 1 THEN d.base ELSE <<>>
        parent == IF base = <<>> THEN <<>> ELSE Name(p, base[1])
    IN  Each(AddRecord, base) \o AddTypes(d.fields)
        \o <<Insert("structs", Struct(rname, parent, Names(p, d.fields)))>>

\* add_pair, add_map: the two types twice over, then a struct of both.
PairWork(p, t, name) ==
    LET args == Type(p, t).args
    IN  AddTypes(args) \o AddTypes(args)
        \o <<Insert("structs", Struct(name, <<>>, Names(p, args)))>>

TypedefWork_BugSelf(p, t) ==
    <<AddType(t), Insert("typedefs", [name |-> Name(p, t), type |-> Name(p, Type(p, t).args[1])])>>

TypedefWork_BugNoTarget(p, t) ==
    <<Insert("typedefs", [name |-> Name(p, t), type |-> Name(p, Type(p, t).args[1])])>>

\* add_typedef.
TypedefWork(p, t) ==
    LET target == Type(p, t).args[1]
    IN  (IF IsBuiltin(Name(p, target)) THEN <<>> ELSE <<AddType(target)>>)
        \o <<Insert("typedefs", [name |-> Name(p, t), type |-> Name(p, target)])>>

\* add_type.  An alias of the name of its target is no alias.
TypeWork(p, t) ==
    LET d == Type(p, t)
    IN  IF IsBuiltin(Name(p, t)) THEN <<>>
        ELSE CASE d.kind = "alias" -> TypedefWork(p, t)
               [] d.kind \in {"seq", "optional"} -> AddTypes(d.args)
               [] d.kind = "map" -> PairWork(p, t, Front(Name(p, t)))
               [] d.kind = "pair" -> PairWork(p, t, Name(p, t))
               [] d.kind = "tuple" ->
                     AddTypes(d.args)
                     \o <<Insert("structs", Struct(Name(p, t), <<>>, Names(p, d.args)))>>
               [] d.kind = "template" -> StructWork(p, d, TemplateName(p, t))
               [] OTHER -> StructWork(p, d, <<d.name>>)

\* The name in the attribute, if it has one.
ActionName(d) == IF d.attr = "" THEN d.name ELSE d.attr

Action(d) == [name |-> <<ActionName(d)>>, type |-> <<d.name>>]

Table(p, d) ==
    [name |-> <<d.name>>, key |-> Name(p, d.fields[1]), value |-> Name(p, d.fields[2])]

\* FtlMethodMatcher, FtlRecordMatcher.  Of a method an invalid name is only
\* reported; of a record it ends the generator.
DeclWork(p, d) ==
    CASE d.kind = "method" ->
            StructWork(p, d, <<d.name>>) \o <<Insert("actions", Action(d))>>
            \o AddTypes(d.fields)
      [] d.kind = "record" ->
            StructWork(p, d, <<d.name>>)
            \o <<Validate(ActionName(d)), Insert("actions", Action(d))>>
            \o AddTypes(d.fields)
      [] d.kind = "table" ->
            <<Insert("tables", Table(p, d))>> \o AddTypes(d.fields)

-----------------------------------------------------------------------------
(* The generator *)

\* generate() of the next input; the abi of the ones before it is still there.
NextInput ==
    /\ pc = "next" /\ inputs # <<>>
    /\ decls' = Head(inputs)
    /\ inputs' = Tail(inputs)
    /\ pc' = "match"
    /\ UNCHANGED <<prog, work, abi, files>>

Match ==
    /\ pc = "match" /\ work = <<>> /\ decls # <<>>
    /\ work' = DeclWork(prog, Head(decls))
    /\ decls' = Tail(decls)
    /\ UNCHANGED <<prog, inputs, abi, files, pc>>

\* The calls on the native stack: each has an insertion left to do.
Depth == Cardinality({i \in DOMAIN work : work[i][1] = "insert"})

Call(kind, unfolded(_)) ==
    /\ pc = "match" /\ work # <<>>
    /\ Head(work)[1] = kind
    /\ IF Depth < StackLimit
       THEN work' = unfolded(Head(work)[2]) \o Tail(work) /\ UNCHANGED pc
       ELSE pc' = "crashed" /\ UNCHANGED work
    /\ UNCHANGED <<prog, inputs, decls, abi, files>>

CallType == Call("type", LAMBDA t : TypeWork(prog, t))

CallRecord ==
    Call("record", LAMBDA t : StructWork(prog, Type(prog, t), <<Type(prog, t).name>>))

Inserted(set, e) ==
    IF \E x \in set : x.name = e.name THEN set ELSE set \cup {e}

CallInsert ==
    /\ pc = "match" /\ work # <<>>
    /\ Head(work)[1] = "insert"
    /\ abi' = [abi EXCEPT ![Head(work)[2]] = Inserted(@, Head(work)[3])]
    /\ work' = Tail(work)
    /\ UNCHANGED <<prog, inputs, decls, files, pc>>

\* abigen_exception, which main does not catch.
CallValidate ==
    /\ pc = "match" /\ work # <<>>
    /\ Head(work)[1] = "validate"
    /\ pc' = IF Head(work)[2] \in ValidNames THEN pc ELSE "terminated"
    /\ work' = Tail(work)
    /\ UNCHANGED <<prog, inputs, decls, abi, files>>

ValidStruct_BugNoActions(a, s) ==
    \/ \E z \in a.structs : \E i \in DOMAIN z.fields : RemoveSuffix(z.fields[i]) = s.name
    \/ \E x \in a.tables : s.name \in {x.key, x.value}
    \/ \E x \in a.typedefs : RemoveSuffix(x.type) = s.name

\* validate_struct: is the struct mentioned?
ValidStruct(a, s) ==
    /\ ~IsBuiltin(s.name)
    /\ \/ \E z \in a.structs :
             \/ \E i \in DOMAIN z.fields : RemoveSuffix(z.fields[i]) = s.name
             \/ z.base = s.name
       \/ \E x \in a.actions : x.type = s.name
       \/ \E x \in a.tables : s.name \in {x.key, x.value}
       \/ \E x \in a.typedefs : RemoveSuffix(x.type) = s.name

\* validate_types.
ValidTypedef(a, td) ==
    \/ \E s \in a.structs :
          /\ ValidStruct(a, s)
          /\ \E i \in DOMAIN s.fields : RemoveSuffix(s.fields[i]) = td.name
    \/ \E x \in a.tables : x.value = td.name
    \/ \E x \in a.actions : x.type = td.name
    \/ \E x \in a.typedefs : RemoveSuffix(x.type) = td.name

\* to_json.
Json(a) ==
    [a EXCEPT !.structs = {s \in @ : ValidStruct(a, s)},
              !.typedefs = {td \in @ : ValidTypedef(a, td)}]

IsEmpty(a) == \A set \in DOMAIN a : a[set] = {}

WriteAbi ==
    /\ pc = "match" /\ work = <<>> /\ decls = <<>>
    /\ files' = IF IsEmpty(abi) THEN files ELSE Append(files, Json(abi))
    /\ pc' = IF inputs = <<>> THEN "done" ELSE "next"
    /\ UNCHANGED <<prog, inputs, decls, work, abi>>

Next ==
    \/ NextInput \/ Match \/ CallType \/ CallRecord \/ CallInsert
    \/ CallValidate \/ WriteAbi

Spec == Init /\ [][Next]_vars

\* The generator runs on unless the stack is exhausted.
FairSpec == Spec /\ WF_vars(Next)

-----------------------------------------------------------------------------
(* Properties *)

Mentions(p, t) == ToSet(Type(p, t).args \o Type(p, t).fields \o Type(p, t).base)

\* No type mentions itself, through others and containers.
WellFounded(p) ==
    \A S \in SUBSET {t \in Types : ~IsBuiltin(Name(p, t))} :
        S # {} => \E t \in S : Mentions(p, t) \cap S = {}

Declared(p) == UNION {ToSet(p.inputs[i]) : i \in DOMAIN p.inputs}

\* The names that the entries of a program's types and actions get.
OwnName(p, t) ==
    CASE Type(p, t).kind = "map" -> Front(Name(p, t))
      [] Type(p, t).kind = "template" -> TemplateName(p, t)
      [] OTHER -> Name(p, t)

\* Different types and actions have different names, and no builtin's.
NoClash(p) ==
    LET named == {t \in Types : Type(p, t).kind \notin {"builtin", "seq", "optional"}}
    IN  /\ \A t, u \in named : OwnName(p, t) = OwnName(p, u) => t = u
        /\ \A d, e \in Declared(p) : d.name = e.name \/ Action(d).name = Action(e).name => d = e
        /\ \A d \in Declared(p), t \in named : <<d.name>> # OwnName(p, t)
        /\ \A d \in Declared(p) : ~IsBuiltin(<<d.name>>) /\ \A t \in Types : d.name # Type(p, t).name

(***************************************************************************)
(* What the names in an ABI can express: a pair is named for its parts, so *)
(* one with a container as its last part is named like a container of      *)
(* pairs; a template is added under the spelled names of its arguments but *)
(* spoken of under the translated ones; a base is added under its own name *)
(* alone.                                                                  *)
(***************************************************************************)
Expressible(p) ==
    /\ \A t \in Types :
          /\ Type(p, t).kind \in {"map", "pair"} =>
                Last(Name(p, Last(Type(p, t).args))) \notin Marks
          /\ Type(p, t).kind = "template" => Name(p, t) = TemplateName(p, t)
          /\ \A b \in ToSet(Type(p, t).base) : Type(p, b).kind = "struct"
    /\ \A d \in Declared(p) : \A b \in ToSet(d.base) : Type(p, b).kind = "struct"

\* The types that the structs, typedefs and actions of an ABI speak of.
Spoken(json) ==
    (UNION {{RemoveSuffix(f) : f \in ToSet(s.fields)} : s \in json.structs})
    \cup ({s.base : s \in json.structs} \ {<<>>})
    \cup {RemoveSuffix(td.type) : td \in json.typedefs}
    \cup {x.type : x \in json.actions}

\* Those that its tables speak of.
Stored(json) == UNION {{RemoveSuffix(x.key), RemoveSuffix(x.value)} : x \in json.tables}

IsAlias(p, name) == \E t \in Types : Type(p, t).kind = "alias" /\ Name(p, t) = name

\* Those of them that to_json looks for: it compares a table's key and value with
\* their suffixes, and its key with no alias.
LookedFor(p, json) ==
    {n \in {x.value : x \in json.tables} : RemoveSuffix(n) = n}
    \cup {n \in {x.key : x \in json.tables} : RemoveSuffix(n) = n /\ ~IsAlias(p, n)}

Described(json) == {s.name : s \in json.structs} \cup {td.name : td \in json.typedefs}

Complete(json, names) == \A n \in names : IsBuiltin(n) \/ n \in Described(json)

\* Whatever the order of declarations and inputs, the traversal leaves out no type
\* that is spoken of, and the pruning of to_json none but those that only a table
\* speaks of, behind a suffix or as an alias for its key.
AbiClosed ==
    Expressible(prog) /\ NoClash(prog) =>
        /\ pc = "match" /\ work = <<>> /\ decls = <<>> =>
              Complete(abi, Spoken(abi) \cup Stored(abi))
        /\ \A i \in DOMAIN files :
              Complete(files[i], Spoken(files[i]) \cup LookedFor(prog, files[i]))

\* The declarations the i-th file is about: those of its input and before.
Before(i) == UNION {ToSet(prog.inputs[j]) : j \in 1 .. i}

\* An action of any input so far is in the file with its own parameters, though
\* types and actions share one set of names and the set keeps what came first.
ActionsDescribed ==
    \A i \in DOMAIN files :
        Len(files) + Len(inputs) = Len(prog.inputs) /\ NoClash(prog) =>
            \A d \in Before(i) : d.kind # "table" =>
                /\ Action(d) \in files[i].actions
                /\ \E s \in files[i].structs :
                      /\ s.name = <<d.name>>
                      /\ s.fields = Names(prog, d.fields)

\* add_struct has no mark for a type it is in the middle of: the generator
\* comes to an end for every program whose types do not contain themselves.
TraversalEnds ==
    WellFounded(prog) /\ (\A d \in Declared(prog) : ActionName(d) \in ValidNames)
        ~> pc = "done"
===============================================================================
