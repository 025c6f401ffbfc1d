--------------------------------- MODULE Table ---------------------------------
(***************************************************************************)
(* The tables of map.hpp over the host's store: put, get, has_key and      *)
(* erase, one step for each thing they do in turn.  Keys and values are    *)
(* packed by the operators of Codec, of which this module uses that a key  *)
(* has a packing of its own and that no packing begins another.            *)
(*                                                                         *)
(* A check that fails ends the run.  The host's store outlives runs, so    *)
(* what a run finds is what earlier ones have put there.                   *)
(***************************************************************************)
EXTENDS Integers, Sequences

CONSTANTS
    Tables,         \* the tables a contract defines
    Keys, Values, Absent,
    Byte,
    TableName,      \* the name of each table
    PackedKey,      \* for each table and key, the bytes it is packed into
    PackedValue,    \* for each table and value, likewise
    MaxKeyLength,   \* MAX_KEY_LENGTH: 32
    MaxStackBuffer  \* max_stack_buffer_size: 512

Begins(p, s) == Len(p) <= Len(s) /\ \A i \in 1 .. Len(p) : p[i] = s[i]

ASSUME ConstantsAssumption ==
    /\ Absent \notin Values
    /\ MaxKeyLength \in Nat
    /\ MaxStackBuffer \in Nat
    /\ PackedKey \in [Tables -> [Keys -> Seq(Byte)]]
    /\ PackedValue \in [Tables -> [Values -> Seq(Byte)]]

\* The names of two tables differ: DEF_TABLE makes a struct of each.
ASSUME NamesDiffer == \A t, u \in Tables : TableName[t] = TableName[u] => t = u

ASSUME KeysDiffer ==
    \A t \in Tables : \A k, l \in Keys : PackedKey[t][k] = PackedKey[t][l] => k = l

\* Codec's RoundTrip: what follows a packed value does not show.
ASSUME ValuesPrefixFree ==
    \A t \in Tables : \A v, w \in Values :
        Begins(PackedValue[t][v], PackedValue[t][w]) => v = w

VARIABLES
    store,      \* the host's store
    request,    \* the operation a contract has called
    answer,     \* what it has returned
    pc,         \* what it does next
    key,        \* its MapKey
    size,       \* what db_load said
    buffer      \* the packed value

vars == <<store, request, answer, pc, key, size, buffer>>

Fits == [t \in Tables |-> {k \in Keys : Len(PackedKey[t][k]) <= MaxKeyLength}]
Large == [t \in Tables |-> {v \in Values : Len(PackedValue[t][v]) > MaxStackBuffer}]

EntryName(t, k) == <<TableName[t], PackedKey[t][k]>>

\* What reading bytes as a value of table t gives.
Unpacked(t, bytes) == {v \in Values : Begins(PackedValue[t][v], bytes)}

\* The map that the host's store represents.
map ==
    [t \in Tables |-> [k \in Keys |->
        IF k \in Fits[t] /\ EntryName(t, k) \in DOMAIN store
        THEN CHOOSE v \in Values : PackedValue[t][v] = store[EntryName(t, k)]
        ELSE Absent]]

Spec0 == INSTANCE TableSpec

NoKey == [length |-> 0, bytes |-> <<>>]

Init ==
    /\ store = <<>>
    /\ request = Spec0!NoRequest
    /\ answer = Spec0!Answer("idle")
    /\ pc = "idle"
    /\ key = NoKey
    /\ size = 0
    /\ buffer = <<>>

-----------------------------------------------------------------------------
Call ==
    /\ pc = "idle"
    /\ request' \in Spec0!Requests
    /\ pc' = IF request'.op = "put" THEN "pack" ELSE "key"
    /\ answer' = Spec0!Answer("pending")
    /\ UNCHANGED <<store, key, size, buffer>>

Return(a) ==
    /\ answer' = a
    /\ pc' = "idle"
    /\ key' = NoKey
    /\ size' = 0
    /\ buffer' = <<>>
    /\ UNCHANGED request

\* A failed check or an exhausted memory.
Stop ==
    /\ answer' = Spec0!Answer("stopped")
    /\ pc' = "stopped"
    /\ UNCHANGED <<store, request, key, size, buffer>>

\* put packs the value before it looks at the key.
PackValue ==
    /\ pc = "pack"
    /\ buffer' = PackedValue[request.table][request.value]
    /\ pc' = "key"
    /\ UNCHANGED <<store, request, answer, key, size>>

\* malloc, for a value too large for the stack.
OutOfMemory ==
    /\ \/ pc = "pack" /\ Len(PackedValue[request.table][request.value]) > MaxStackBuffer
       \/ pc = "load" /\ size > MaxStackBuffer
    /\ Stop

KeyLengthCheck_BugStrict(n) == n < MaxKeyLength

KeyLengthCheck(n) == n <= MaxKeyLength

\* The constructor MapKey(T), which leaves the bytes after the key as they are.
MapKeys(p) ==
    {[length |-> Len(p), bytes |-> bytes] :
        bytes \in {b \in [1 .. MaxKeyLength -> Byte] : Begins(p, b)}}

AfterKey == [put |-> "store", get |-> "size", has_key |-> "has_key", erase |-> "erase"]

MakeKey ==
    /\ pc = "key"
    /\ LET p == PackedKey[request.table][request.key]
       IN  KeyLengthCheck(Len(p)) /\ key' \in MapKeys(p)
    /\ pc' = AfterKey[request.op]
    /\ UNCHANGED <<store, request, answer, size, buffer>>

KeyTooLong ==
    /\ pc = "key"
    /\ ~KeyLengthCheck(Len(PackedKey[request.table][request.key]))
    /\ Stop

HostEntry_BugNoTable(t, mk) == <<0, [i \in 1 .. mk.length |-> mk.bytes[i]]>>

HostEntry_BugWholeKey(t, mk) == <<TableName[t], mk.bytes>>

\* What the host gets of a table and a MapKey: key.bytes, key.length.
HostEntry(t, mk) == <<TableName[t], [i \in 1 .. mk.length |-> mk.bytes[i]]>>

Here == HostEntry(request.table, key)

-----------------------------------------------------------------------------
(* The host's calls *)

\* db_store.
Store ==
    /\ pc = "store"
    /\ store' = [e \in DOMAIN store \cup {Here} |-> IF e = Here THEN buffer ELSE store[e]]
    /\ Return(Spec0!Answer("done"))

\* db_has_key.
HasKey ==
    /\ pc = "has_key"
    /\ Return(Spec0!Answer(IF Here \in DOMAIN store THEN "yes" ELSE "no"))
    /\ UNCHANGED store

\* db_remove_key.
Erase ==
    /\ pc = "erase"
    /\ store' = [e \in DOMAIN store \ {Here} |-> store[e]]
    /\ Return(Spec0!Answer("done"))

\* db_load(..., nullptr, 0): the size of the value, negative when there is none.
LoadedSize == IF Here \in DOMAIN store THEN Len(store[Here]) ELSE -1

SizeCheck_BugMissing(n) == TRUE

\* ftl::check(size >= 0, ...)
SizeCheck(n) == n >= 0

LoadSize ==
    /\ pc = "size"
    /\ SizeCheck(LoadedSize)
    /\ size' = LoadedSize
    /\ pc' = "load"
    /\ UNCHANGED <<store, request, answer, key, buffer>>

NoSuchKey ==
    /\ pc = "size"
    /\ ~SizeCheck(LoadedSize)
    /\ Stop

\* db_load into a buffer of that size.
Load ==
    /\ pc = "load"
    /\ buffer' = [i \in 1 .. size |-> store[Here][i]]
    /\ pc' = "unpack"
    /\ UNCHANGED <<store, request, answer, key, size>>

\* A datastream check stops the contract when the bytes are not those of a value.
UnpackValue ==
    /\ pc = "unpack"
    /\ LET values == Unpacked(request.table, buffer)
       IN  IF values = {} THEN Stop
           ELSE UNCHANGED store /\ \E v \in values : Return(Spec0!Value(v))

Next ==
    \/ Call \/ PackValue \/ OutOfMemory \/ MakeKey \/ KeyTooLong
    \/ Store \/ HasKey \/ Erase
    \/ LoadSize \/ NoSuchKey \/ Load \/ UnpackValue

Spec == Init /\ [][Next]_vars

-----------------------------------------------------------------------------
(* Properties *)

MapKeyType ==
    {NoKey} \cup [length : 0 .. MaxKeyLength, bytes : [1 .. MaxKeyLength -> Byte]]

\* Keys are at most MAX_KEY_LENGTH bytes, and get has a size once it loads.
TypeOK ==
    /\ DOMAIN store \subseteq {TableName[t] : t \in Tables} \X Seq(Byte)
    /\ \A e \in DOMAIN store : store[e] \in Seq(Byte)
    /\ request \in Spec0!Requests \cup {Spec0!NoRequest}
    /\ answer \in Spec0!Answers
    /\ pc \in {"idle", "pack", "key", "store", "size", "load", "unpack",
                "has_key", "erase", "stopped"}
    /\ key \in MapKeyType
    /\ size \in Nat
    /\ buffer \in Seq(Byte)

\* Every entry of the host's store has the name that put, get, has_key and erase
\* give some key of some table, and holds a value of that table: nothing of what
\* MapKey leaves uninitialised, nor of another table, reaches the store.
EntriesBelong ==
    \A e \in DOMAIN store :
        \E t \in Tables : \E k \in Fits[t], v \in Values :
            e = EntryName(t, k) /\ store[e] = PackedValue[t][v]

\* What get has loaded in two calls is one value, so that unpacking it cannot
\* stop the contract.
LoadedIsValue ==
    pc = "unpack" =>
        \E v \in Values : Unpacked(request.table, buffer) = {v}

\* put, get, has_key and erase implement a map for each table.
ImplementsTableSpec == Spec0!Spec
=============================================================================
