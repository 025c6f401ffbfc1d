--------------------------------- MODULE Codec ---------------------------------
(***************************************************************************)
(* Serialisation: operator<< and operator>> of datastream.hpp for every    *)
(* kind of type, as operators on values and strings of bytes, with the     *)
(* integers of VarInt, and a contract that packs values, receives bytes    *)
(* from elsewhere and unpacks them into objects that may have been used    *)
(* before.                                                                 *)
(*                                                                         *)
(* A type is a record whose kind k is                                      *)
(*   "byte", "bool", "varuint", "varint"                                   *)
(*   "list"      of     vector, list, deque, string                        *)
(*   "carray"    of, n  T[n], which carries its length                     *)
(*   "set"       of     std::set                                           *)
(*   "map"       key, of                                                   *)
(*   "optional"  of                                                        *)
(*   "variant"   of     a sequence of types                                *)
(*   "pair"      of     a sequence of two types                            *)
(*   "struct"    of     a sequence of types: struct, tuple, std::array     *)
(***************************************************************************)
EXTENDS VarInt, FiniteSets, SequencesExt

CONSTANTS
    Types,          \* the types a contract uses
    ValuesOf(_),    \* the values of a type it packs
    MaxJunk,        \* bound: bytes that follow a packed value
    MaxForeign      \* bound: bytes received from elsewhere

\* An optional is a sequence of at most one value.
None == <<>>

-----------------------------------------------------------------------------
(* Objects *)

RECURSIVE Default(_)

\* An object no value has been read into.
Default(t) ==
    CASE t.k = "bool" -> FALSE
      [] t.k = "set" -> {}
      [] t.k \in {"list", "map"} -> <<>>
      [] t.k = "optional" -> None
      [] t.k = "variant" -> [i |-> 0, v |-> Default(t.of[1])]
      [] t.k = "carray" -> [i \in 1 .. t.n |-> Default(t.of)]
      [] t.k \in {"pair", "struct"} -> [i \in DOMAIN t.of |-> Default(t.of[i])]
      [] OTHER -> 0

\* resize(n), which keeps the elements there are.
Resized(old, n, type) ==
    [i \in 1 .. n |-> IF i <= Len(old) THEN old[i] ELSE Default(type)]

\* A set or map is written in the order of its keys, which are integers.
Ascending(S) == SetToSortSeq(S, <)

-----------------------------------------------------------------------------
(* operator<< *)

RECURSIVE Pack(_, _)

PackEach(type, values) ==
    FlattenSeq([i \in DOMAIN values |-> Pack(type, values[i])])

OptionalFlag_BugMissing(v) == <<>>

OptionalFlag(v) == <<IF v = None THEN 0 ELSE 1>>

\* A char array or vector is written in one piece, with the same bytes.
Pack(t, v) ==
    CASE t.k = "byte" -> <<v>>
      [] t.k = "bool" -> <<IF v THEN 1 ELSE 0>>
      [] t.k = "varuint" -> PackVar(v)
      [] t.k = "varint" -> PackVar(ZigZag(v))
      [] t.k \in {"list", "carray"} -> PackVar(Len(v)) \o PackEach(t.of, v)
      [] t.k = "set" -> PackVar(Cardinality(v)) \o PackEach(t.of, Ascending(v))
      [] t.k = "map" ->
            LET keys == Ascending(DOMAIN v)
            IN  PackVar(Len(keys))
                \o FlattenSeq([i \in DOMAIN keys |->
                       Pack(t.key, keys[i]) \o Pack(t.of, v[keys[i]])])
      [] t.k = "optional" ->
            OptionalFlag(v) \o PackEach(t.of, v)
      [] t.k = "variant" -> PackVar(v.i) \o Pack(t.of[v.i + 1], v.v)
      [] OTHER -> FlattenSeq([i \in DOMAIN t.of |-> Pack(t.of[i], v[i])])

-----------------------------------------------------------------------------
(* operator>> *)

RECURSIVE Read(_, _, _), ReadEach(_, _, _), ReadSet(_, _, _, _), ReadMap(_, _, _, _)

\* Read(t, old, bytes) is what reading an object of type t that held old may
\* give: [v, rest].  It is empty when a check stops the contract.
ReadFresh(t, bytes) == Read(t, Default(t), bytes)

\* Fields of the given types, each read into the old one in its place.
ReadEach(types, olds, bytes) ==
    IF types = <<>> THEN {[v |-> <<>>, rest |-> bytes]}
    ELSE UNION {{[v |-> <<head.v>> \o tail.v, rest |-> tail.rest] :
                    tail \in ReadEach(Tail(types), Tail(olds), head.rest)} :
                 head \in Read(Head(types), Head(olds), bytes)}

\* emplace keeps an element with an equal key.
Emplaced(m, k, v) == m @@ (k :> v)

ReadMap(t, n, m, bytes) ==
    IF n = 0 THEN {[v |-> m, rest |-> bytes]}
    ELSE UNION {UNION {ReadMap(t, n - 1, Emplaced(m, k.v, x.v), x.rest) :
                          x \in ReadFresh(t.of, k.rest)} :
                 k \in ReadFresh(t.key, bytes)}

ReadSet(t, n, s, bytes) ==
    IF n = 0 THEN {[v |-> s, rest |-> bytes]}
    ELSE UNION {ReadSet(t, n - 1, s \cup {x.v}, x.rest) : x \in ReadFresh(t.of, bytes)}

Cleared_BugKept(container, empty) == container

\* clear() of a set or map.
Cleared(container, empty) == empty

Read(t, old, bytes) ==
    CASE t.k = "byte" ->
            IF bytes = <<>> THEN {} ELSE {[v |-> Head(bytes), rest |-> Tail(bytes)]}
      [] t.k = "bool" ->
            IF bytes = <<>> THEN {} ELSE {[v |-> Head(bytes) # 0, rest |-> Tail(bytes)]}
      [] t.k = "varuint" -> ReadVar(bytes)
      [] t.k = "varint" -> {[r EXCEPT !.v = UnZigZag(@)] : r \in ReadVar(bytes)}
      \* Every element takes a byte at least: a length beyond the bytes there
      \* are stops the contract, be it in resize or at a missing element.
      [] t.k = "list" ->
            UNION {ReadEach([i \in 1 .. s.v |-> t.of], Resized(old, s.v, t.of), s.rest) :
                      s \in {r \in ReadVar(bytes) : r.v <= Len(r.rest)}}
      [] t.k = "carray" ->
            UNION {ReadEach([i \in 1 .. t.n |-> t.of], old, s.rest) :
                      s \in {r \in ReadVar(bytes) : r.v = t.n}}
      [] t.k = "set" ->
            UNION {ReadSet(t, s.v, Cleared(old, {}), s.rest) :
                      s \in {r \in ReadVar(bytes) : r.v <= Len(r.rest)}}
      [] t.k = "map" ->
            UNION {ReadMap(t, s.v, Cleared(old, <<>>), s.rest) :
                      s \in {r \in ReadVar(bytes) : r.v <= Len(r.rest)}}
      \* An empty optional leaves the object as it was.
      [] t.k = "optional" ->
            IF bytes = <<>> THEN {}
            ELSE IF Head(bytes) = 0 THEN {[v |-> old, rest |-> Tail(bytes)]}
            ELSE {[r EXCEPT !.v = <<@>>] : r \in ReadFresh(t.of, Tail(bytes))}
      [] t.k = "variant" ->
            UNION {{[v |-> [i |-> s.v, v |-> x.v], rest |-> x.rest] :
                       x \in ReadFresh(t.of[s.v + 1], s.rest)} :
                    s \in {r \in ReadVar(bytes) : r.v < Len(t.of)}}
      [] t.k = "pair" ->
            ReadEach(t.of, [i \in DOMAIN t.of |-> Default(t.of[i])], bytes)
      [] OTHER -> ReadEach(t.of, old, bytes)

-----------------------------------------------------------------------------
(* A contract *)

VARIABLES
    type, value,    \* what is packed
    target,         \* what the object it is unpacked into held before
    bytes,          \* the stream
    origin,         \* "none", "packed", "followed", "cut" or "foreign"
    junk,           \* how many bytes follow the packed value
    outcome,        \* "none", "aborted" or "read"
    result          \* what was read: [v, rest]

vars == <<type, value, target, bytes, origin, junk, outcome, result>>

Init ==
    /\ type \in Types
    /\ value \in ValuesOf(type)
    /\ target \in ValuesOf(type) \cup {Default(type)}
    /\ bytes = <<>>
    /\ origin = "none"
    /\ junk = 0
    /\ outcome = "none"
    /\ result = [v |-> 0, rest |-> <<>>]

\* pack.
PackValue ==
    /\ origin = "none"
    /\ bytes' = Pack(type, value)
    /\ origin' = "packed"
    /\ UNCHANGED <<type, value, target, junk, outcome, result>>

\* More values follow in the same stream, as arguments follow the action's name.
Follow ==
    /\ origin = "packed" /\ outcome = "none"
    /\ \E b \in Byte, n \in 1 .. MaxJunk :
          /\ bytes' = bytes \o [i \in 1 .. n |-> b]
          /\ junk' = n
    /\ origin' = "followed"
    /\ UNCHANGED <<type, value, target, outcome, result>>

\* The stream is shorter than what was packed.
Cut ==
    /\ origin = "packed" /\ outcome = "none"
    /\ \E n \in 0 .. Len(bytes) - 1 : bytes' = SubSeq(bytes, 1, n)
    /\ origin' = "cut"
    /\ UNCHANGED <<type, value, target, junk, outcome, result>>

\* Bytes that no operator<< wrote.
Receive ==
    /\ origin = "none"
    /\ \E n \in 0 .. MaxForeign : bytes' \in [1 .. n -> Byte]
    /\ value' = Default(type)
    /\ origin' = "foreign"
    /\ UNCHANGED <<type, target, junk, outcome, result>>

\* unpack into the object.
Unpack ==
    /\ origin # "none" /\ outcome = "none"
    /\ LET outcomes == Read(type, target, bytes)
       IN  \/ outcome' = "read" /\ result' \in outcomes
           \/ outcome' = "aborted" /\ outcomes = {} /\ UNCHANGED result
    /\ UNCHANGED <<type, value, target, bytes, origin, junk>>

Next == PackValue \/ Follow \/ Cut \/ Receive \/ Unpack

Spec == Init /\ [][Next]_vars

-----------------------------------------------------------------------------
(* Properties *)

Done == outcome = "read"

\* An optional that is read in place, into an object that may hold a value.
RECURSIVE ReadsOptionalInPlace(_)
ReadsOptionalInPlace(t) ==
    \/ t.k = "optional"
    \/ t.k \in {"list", "carray"} /\ ReadsOptionalInPlace(t.of)
    \/ t.k = "struct" /\ \E i \in DOMAIN t.of : ReadsOptionalInPlace(t.of[i])

\* What pack writes, unpack reads back, whatever follows it in the stream.
RoundTrip ==
    origin \in {"packed", "followed"} /\ outcome # "none"
    /\ (target = Default(type) \/ ~ReadsOptionalInPlace(type))
    => Done /\ result.v = value /\ Len(result.rest) = junk

\* A packed value that has lost its tail is never taken for another value.
TruncationNoticed == origin = "cut" => ~Done

\* What an object held before never shows in what is read into it, but for
\* optionals that are read in place.
TargetDoesNotShow ==
    Done /\ ~ReadsOptionalInPlace(type) => result \in ReadFresh(type, bytes)

\* Reading in a value and packing it again takes no more room than it took:
\* varint.hpp's "as few bytes as possible", for whole values.
RepackNeverLonger ==
    Done /\ (target = Default(type) \/ ~ReadsOptionalInPlace(type)) =>
        Len(Pack(type, result.v)) <= Len(bytes) - Len(result.rest)
=============================================================================
