------------------------------ MODULE TableProofs ------------------------------
(***************************************************************************)
(* Proofs about Table: its invariants, and that the tables over the host's *)
(* store implement a map each, for any tables, keys, values, packings and  *)
(* limits that meet the assumptions of Table.                              *)
(***************************************************************************)
EXTENDS Table, TLAPS

(***************************************************************************)
(* Packings.                                                               *)
(***************************************************************************)

\* A value is the only one that can be read from its packing.
LEMMA ReadBack ==
    ASSUME NEW t \in Tables, NEW v \in Values
    PROVE  /\ Unpacked(t, PackedValue[t][v]) = {v}
           /\ (CHOOSE w \in Values : PackedValue[t][w] = PackedValue[t][v]) = v
<1>1. Begins(PackedValue[t][v], PackedValue[t][v])
    <2>1. PackedValue[t][v] \in Seq(Byte)
        BY ConstantsAssumption
    <2> QED
        BY <2>1 DEF Begins
<1>2. Unpacked(t, PackedValue[t][v]) = {v}
    BY <1>1, ValuesPrefixFree DEF Unpacked
<1>3. \A w \in Values : PackedValue[t][w] = PackedValue[t][v] => w = v
    BY <1>1, ValuesPrefixFree
<1> QED
    BY <1>2, <1>3

\* Two keys never share an entry.
LEMMA EntryOfOne ==
    ASSUME NEW t \in Tables, NEW u \in Tables, NEW k \in Keys, NEW l \in Keys,
           EntryName(t, k) = EntryName(u, l)
    PROVE  t = u /\ k = l
BY NamesDiffer, KeysDiffer DEF EntryName

\* What the host gets of a MapKey is the packed key, whatever follows it.
LEMMA HostSeesKey ==
    ASSUME NEW t \in Tables, NEW k \in Keys,
           NEW mk \in MapKeys(PackedKey[t][k])
    PROVE  HostEntry(t, mk) = EntryName(t, k)
<1> DEFINE p == PackedKey[t][k]
<1>1. p \in Seq(Byte)
    BY ConstantsAssumption
<1>2. PICK b \in [1 .. MaxKeyLength -> Byte] :
            Begins(p, b) /\ mk = [length |-> Len(p), bytes |-> b]
    BY DEF MapKeys
<1>3. [i \in 1 .. Len(p) |-> b[i]] = p
    <2>1. \A i \in 1 .. Len(p) : b[i] = p[i]
        BY <1>2 DEF Begins
    <2> HIDE DEF p
    <2> QED
        BY <1>1, <2>1
<1> QED
    BY <1>2, <1>3 DEF HostEntry, EntryName

-----------------------------------------------------------------------------
(***************************************************************************)
(* The inductive invariant.  Between Call and Return, the locals of the    *)
(* operation in progress agree with its request and with the store: the    *)
(* MapKey names the request's entry, the entry whose size db_load gave is  *)
(* still there, and the buffer holds the value to be stored or read.       *)
(***************************************************************************)
Asked(ops) == request \in Spec0!Requests /\ request.op \in ops

KeyMade == /\ request.key \in Fits[request.table]
           /\ Here = EntryName(request.table, request.key)

AnswerMatches ==
    CASE pc = "idle" -> answer.kind \notin {"pending", "stopped"}
      [] pc = "stopped" -> answer = Spec0!Answer("stopped")
      [] OTHER -> answer = Spec0!Answer("pending")

Locals ==
    /\ pc = "pack" => Asked({"put"})
    /\ pc = "key" =>
            /\ Asked({"put", "get", "has_key", "erase"})
            /\ request.op = "put" => buffer = PackedValue[request.table][request.value]
    /\ pc = "store" =>
            /\ Asked({"put"}) /\ KeyMade
            /\ buffer = PackedValue[request.table][request.value]
    /\ pc = "has_key" => Asked({"has_key"}) /\ KeyMade
    /\ pc = "erase" => Asked({"erase"}) /\ KeyMade
    /\ pc = "size" => Asked({"get"}) /\ KeyMade
    /\ pc \in {"load", "unpack"} => Asked({"get"}) /\ KeyMade /\ Here \in DOMAIN store
    /\ pc = "load" => size = Len(store[Here])
    /\ pc = "unpack" => buffer = store[Here]

IInv == TypeOK /\ EntriesBelong /\ AnswerMatches /\ Locals

\* The fields of a request.
LEMMA RequestFields ==
    ASSUME request \in Spec0!Requests
    PROVE  /\ request.op \in {"put", "get", "has_key", "erase"}
           /\ request.table \in Tables
           /\ request.key \in Keys
           /\ request.op = "put" => request.value \in Values
BY DEF Spec0!Requests

\* The answers of different kinds.
LEMMA AnswersDiffer ==
    /\ \A kind \in {"idle", "pending", "stopped", "done", "yes", "no"} :
           /\ Spec0!Answer(kind) \in Spec0!Answers
           /\ Spec0!Answer(kind).kind = kind
    /\ \A v \in Values : Spec0!Value(v) \in Spec0!Answers /\ Spec0!Value(v).kind = "value"
BY DEF Spec0!Answer, Spec0!Value, Spec0!Answers

\* The keys that fit are those the check of MapKey lets pass.
LEMMA KeyOfFits ==
    ASSUME NEW t \in Tables, NEW k \in Keys
    PROVE  /\ PackedKey[t][k] \in Seq(Byte)
           /\ Len(PackedKey[t][k]) \in Nat
           /\ k \in Fits[t] <=> KeyLengthCheck(Len(PackedKey[t][k]))
           /\ EntryName(t, k) \in {TableName[u] : u \in Tables} \X Seq(Byte)
<1>1. PackedKey[t][k] \in Seq(Byte)
    BY ConstantsAssumption
<1> QED
    BY <1>1 DEF Fits, KeyLengthCheck, EntryName

\* A packed value is a string of bytes.
LEMMA PackedValueType ==
    ASSUME NEW t \in Tables, NEW v \in Values
    PROVE  PackedValue[t][v] \in Seq(Byte)
BY ConstantsAssumption

\* The invariant holds of an empty store.
THEOREM InitEstablishes == Init => IInv
<1> SUFFICES ASSUME Init PROVE IInv
    OBVIOUS
<1>1. store = <<>> /\ DOMAIN store = {}
    BY DEF Init
<1>2. /\ pc = "idle" /\ size = 0 /\ buffer = <<>> /\ key = NoKey
      /\ request = Spec0!NoRequest /\ answer = Spec0!Answer("idle")
    BY DEF Init
<1>3. TypeOK
    <2>1. answer \in Spec0!Answers
        BY <1>2, AnswersDiffer
    <2> QED
        BY <1>1, <1>2, <2>1 DEF TypeOK, MapKeyType
<1>4. EntriesBelong
    BY <1>1 DEF EntriesBelong
<1>5. AnswerMatches
    BY <1>2, AnswersDiffer DEF AnswerMatches
<1>6. Locals
    BY <1>2 DEF Locals
<1> QED
    BY <1>3, <1>4, <1>5, <1>6 DEF IInv

-----------------------------------------------------------------------------
(* Every step preserves the invariant *)

\* An entry holds a packed value of the table it is named for.
LEMMA EntryValue ==
    ASSUME EntriesBelong, NEW t \in Tables, NEW k \in Keys,
           EntryName(t, k) \in DOMAIN store
    PROVE  /\ k \in Fits[t]
           /\ \E v \in Values : store[EntryName(t, k)] = PackedValue[t][v]
<1>1. PICK u \in Tables : \E l \in Fits[u], v \in Values :
            EntryName(t, k) = EntryName(u, l) /\ store[EntryName(t, k)] = PackedValue[u][v]
    BY DEF EntriesBelong
<1>2. PICK l \in Fits[u], v \in Values :
            EntryName(t, k) = EntryName(u, l) /\ store[EntryName(t, k)] = PackedValue[u][v]
    BY <1>1
<1>3. l \in Keys
    BY DEF Fits
<1>4. t = u /\ k = l
    BY <1>2, <1>3, EntryOfOne
<1> QED
    BY <1>2, <1>4

\* A failed check or an exhausted memory leaves the store alone.
LEMMA StopKeeps ==
    ASSUME IInv, Stop
    PROVE  IInv'
<1>1. pc' = "stopped" /\ answer' = Spec0!Answer("stopped")
    BY DEF Stop
<1>2. UNCHANGED <<store, request, key, size, buffer>>
    BY DEF Stop
<1>3. TypeOK'
    BY <1>1, <1>2, AnswersDiffer DEF IInv, TypeOK
<1>4. EntriesBelong'
    BY <1>2 DEF IInv, EntriesBelong
<1>5. AnswerMatches'
    BY <1>1 DEF AnswerMatches
<1>6. Locals'
    BY <1>1 DEF Locals
<1> QED
    BY <1>3, <1>4, <1>5, <1>6 DEF IInv

\* An operation that returns leaves nothing but its answer and its effect on the
\* store to be considered.
LEMMA ReturnKeeps ==
    ASSUME IInv, NEW a \in Spec0!Answers, Return(a),
           a.kind \notin {"pending", "stopped"},
           DOMAIN store' \subseteq {TableName[t] : t \in Tables} \X Seq(Byte),
           \A e \in DOMAIN store' : store'[e] \in Seq(Byte),
           EntriesBelong'
    PROVE  IInv'
<1>1. /\ pc' = "idle" /\ answer' = a /\ key' = NoKey /\ size' = 0 /\ buffer' = <<>>
      /\ request' = request
    BY DEF Return
<1>2. TypeOK'
    BY <1>1 DEF IInv, TypeOK, MapKeyType
<1>3. AnswerMatches'
    BY <1>1 DEF AnswerMatches
<1>4. Locals'
    BY <1>1 DEF Locals
<1> QED
    BY <1>2, <1>3, <1>4 DEF IInv

\* A contract calls an operation.
LEMMA CallKeeps == IInv /\ Call => IInv'
<1> SUFFICES ASSUME IInv, Call PROVE IInv'
    OBVIOUS
<1>1. /\ pc = "idle" /\ request' \in Spec0!Requests /\ answer' = Spec0!Answer("pending")
      /\ pc' = IF request'.op = "put" THEN "pack" ELSE "key"
      /\ UNCHANGED <<store, key, size, buffer>>
    BY DEF Call
<1>2. request'.op \in {"put", "get", "has_key", "erase"}
    BY <1>1 DEF Spec0!Requests
<1>3. pc' \in {"pack", "key"}
    BY <1>1
<1>4. TypeOK'
    BY <1>1, <1>3, AnswersDiffer DEF IInv, TypeOK
<1>5. EntriesBelong'
    BY <1>1 DEF IInv, EntriesBelong
<1>6. AnswerMatches'
    BY <1>1, <1>3 DEF AnswerMatches
<1>7. Locals'
    <2>1. CASE request'.op = "put"
        BY <1>1, <2>1 DEF Locals, Asked
    <2>2. CASE request'.op # "put"
        BY <1>1, <1>2, <2>2 DEF Locals, Asked
    <2> QED
        BY <2>1, <2>2
<1> QED
    BY <1>4, <1>5, <1>6, <1>7 DEF IInv

\* put packs its value.
LEMMA PackValueKeeps == IInv /\ PackValue => IInv'
<1> SUFFICES ASSUME IInv, PackValue PROVE IInv'
    OBVIOUS
<1>1. /\ pc = "pack" /\ pc' = "key"
      /\ buffer' = PackedValue[request.table][request.value]
      /\ UNCHANGED <<store, request, answer, key, size>>
    BY DEF PackValue
<1>2. request \in Spec0!Requests /\ request.op = "put"
    BY <1>1 DEF IInv, Locals, Asked
<1>3. buffer' \in Seq(Byte)
    BY <1>1, <1>2, RequestFields, PackedValueType
<1>4. TypeOK'
    BY <1>1, <1>3 DEF IInv, TypeOK
<1>5. EntriesBelong'
    BY <1>1 DEF IInv, EntriesBelong
<1>6. AnswerMatches'
    BY <1>1 DEF IInv, AnswerMatches
<1>7. Locals'
    BY <1>1, <1>2 DEF Locals, Asked
<1> QED
    BY <1>4, <1>5, <1>6, <1>7 DEF IInv

\* The MapKey made names the entry of the request.
LEMMA MakeKeyKeeps == IInv /\ MakeKey => IInv'
<1> SUFFICES ASSUME IInv, MakeKey PROVE IInv'
    OBVIOUS
<1> DEFINE p == PackedKey[request.table][request.key]
<1>1. /\ pc = "key" /\ pc' = AfterKey[request.op]
      /\ KeyLengthCheck(Len(p)) /\ key' \in MapKeys(p)
      /\ UNCHANGED <<store, request, answer, size, buffer>>
    BY DEF MakeKey
<1>2. /\ request \in Spec0!Requests
      /\ request.op = "put" => buffer = PackedValue[request.table][request.value]
    BY <1>1 DEF IInv, Locals, Asked
<1>3. /\ request.table \in Tables /\ request.key \in Keys
      /\ request.op \in {"put", "get", "has_key", "erase"}
    BY <1>2, RequestFields
<1>4. pc' \in {"store", "size", "has_key", "erase"}
    BY <1>1, <1>3 DEF AfterKey
<1>5. key' \in MapKeyType
    <2>1. Len(p) \in 0 .. MaxKeyLength
        BY <1>1, <1>3, KeyOfFits, ConstantsAssumption DEF KeyLengthCheck
    <2> HIDE DEF p
    <2> QED
        BY <1>1, <2>1 DEF MapKeys, MapKeyType
<1>6. KeyMade'
    <2>1. Here' = EntryName(request.table, request.key)
        <3>1. HostEntry(request.table, key') = EntryName(request.table, request.key)
            BY <1>1, <1>3, HostSeesKey
        <3> QED
            BY <1>1, <3>1 DEF Here
    <2>2. request.key \in Fits[request.table]
        BY <1>1, <1>3, KeyOfFits
    <2> QED
        BY <1>1, <2>1, <2>2 DEF KeyMade, EntryName
<1>7. TypeOK'
    BY <1>1, <1>4, <1>5 DEF IInv, TypeOK
<1>8. EntriesBelong'
    BY <1>1 DEF IInv, EntriesBelong
<1>9. AnswerMatches'
    BY <1>1, <1>4 DEF IInv, AnswerMatches
<1>10. Locals'
    <2>1. /\ pc' = "store" => request.op = "put"
          /\ pc' = "size" => request.op = "get"
          /\ pc' = "has_key" => request.op = "has_key"
          /\ pc' = "erase" => request.op = "erase"
        BY <1>1, <1>3 DEF AfterKey
    <2> QED
        BY <1>1, <1>2, <1>4, <1>6, <2>1 DEF Locals, Asked
<1> QED
    BY <1>7, <1>8, <1>9, <1>10 DEF IInv

\* db_store puts a packed value under the name of its key.
LEMMA StoreKeeps == IInv /\ Store => IInv'
<1> SUFFICES ASSUME IInv, Store PROVE IInv'
    OBVIOUS
<1> DEFINE t == request.table  k == request.key  v == request.value
<1>1. /\ pc = "store"
      /\ store' = [e \in DOMAIN store \cup {Here} |-> IF e = Here THEN buffer ELSE store[e]]
      /\ Return(Spec0!Answer("done"))
    BY DEF Store
<1>2. /\ request \in Spec0!Requests /\ request.op = "put"
      /\ k \in Fits[t] /\ Here = EntryName(t, k) /\ buffer = PackedValue[t][v]
    BY <1>1 DEF IInv, Locals, Asked, KeyMade
<1>3. t \in Tables /\ k \in Keys /\ v \in Values
    BY <1>2, RequestFields
<1>4. DOMAIN store' = DOMAIN store \cup {Here}
    BY <1>1
<1>5. \A e \in DOMAIN store' : store'[e] = IF e = Here THEN buffer ELSE store[e]
    BY <1>1
<1>6. DOMAIN store' \subseteq {TableName[u] : u \in Tables} \X Seq(Byte)
    BY <1>2, <1>3, <1>4, KeyOfFits DEF IInv, TypeOK
<1>7. \A e \in DOMAIN store' : store'[e] \in Seq(Byte)
    BY <1>4, <1>5 DEF IInv, TypeOK
<1>8. EntriesBelong'
    <2> SUFFICES ASSUME NEW e \in DOMAIN store'
                 PROVE  \E u \in Tables : \E l \in Fits[u], w \in Values :
                            e = EntryName(u, l) /\ store'[e] = PackedValue[u][w]
        BY DEF EntriesBelong, EntryName, Fits
    <2>1. CASE e = Here
        BY <1>2, <1>3, <1>5, <2>1
    <2>2. CASE e # Here
        BY <1>4, <1>5, <2>2 DEF IInv, EntriesBelong
    <2> QED
        BY <2>1, <2>2
<1> QED
    BY <1>1, <1>6, <1>7, <1>8, ReturnKeeps, AnswersDiffer

\* db_has_key changes nothing.
LEMMA HasKeyKeeps == IInv /\ HasKey => IInv'
<1> SUFFICES ASSUME IInv, HasKey PROVE IInv'
    OBVIOUS
<1>1. PICK a \in {Spec0!Answer("yes"), Spec0!Answer("no")} : Return(a)
    BY DEF HasKey
<1>2. store' = store
    BY DEF HasKey
<1>3. EntriesBelong'
    BY <1>2 DEF IInv, EntriesBelong
<1>4. a \in Spec0!Answers /\ a.kind \notin {"pending", "stopped"}
    BY <1>1, AnswersDiffer
<1> QED
    BY <1>1, <1>2, <1>3, <1>4, ReturnKeeps DEF IInv, TypeOK

\* db_remove_key takes an entry away.
LEMMA EraseKeeps == IInv /\ Erase => IInv'
<1> SUFFICES ASSUME IInv, Erase PROVE IInv'
    OBVIOUS
<1>1. /\ store' = [e \in DOMAIN store \ {Here} |-> store[e]]
      /\ Return(Spec0!Answer("done"))
    BY DEF Erase
<1>2. DOMAIN store' = DOMAIN store \ {Here}
    BY <1>1
<1>3. \A e \in DOMAIN store' : store'[e] = store[e]
    BY <1>1
<1>4. EntriesBelong'
    BY <1>2, <1>3 DEF IInv, EntriesBelong, EntryName, Fits
<1>5. /\ DOMAIN store' \subseteq {TableName[u] : u \in Tables} \X Seq(Byte)
      /\ \A e \in DOMAIN store' : store'[e] \in Seq(Byte)
    BY <1>2, <1>3 DEF IInv, TypeOK
<1> QED
    BY <1>1, <1>4, <1>5, ReturnKeeps, AnswersDiffer

\* The first db_load gives the size of an entry that is there.
LEMMA LoadSizeKeeps == IInv /\ LoadSize => IInv'
<1> SUFFICES ASSUME IInv, LoadSize PROVE IInv'
    OBVIOUS
<1>1. /\ pc = "size" /\ pc' = "load" /\ SizeCheck(LoadedSize) /\ size' = LoadedSize
      /\ UNCHANGED <<store, request, answer, key, buffer>>
    BY DEF LoadSize
<1>2. Here \in DOMAIN store /\ size' = Len(store[Here])
    BY <1>1 DEF SizeCheck, LoadedSize
<1>3. size' \in Nat
    BY <1>2 DEF IInv, TypeOK
<1>4. TypeOK'
    BY <1>1, <1>3 DEF IInv, TypeOK
<1>5. EntriesBelong'
    BY <1>1 DEF IInv, EntriesBelong
<1>6. AnswerMatches'
    BY <1>1 DEF IInv, AnswerMatches
<1>7. Locals'
    <2>1. Here' = Here
        BY <1>1 DEF Here, HostEntry
    <2> QED
        BY <1>1, <1>2, <2>1 DEF IInv, Locals, Asked, KeyMade, EntryName
<1> QED
    BY <1>4, <1>5, <1>6, <1>7 DEF IInv

\* The second db_load fills the buffer with that entry.
LEMMA LoadKeeps == IInv /\ Load => IInv'
<1> SUFFICES ASSUME IInv, Load PROVE IInv'
    OBVIOUS
<1>1. /\ pc = "load" /\ pc' = "unpack"
      /\ buffer' = [i \in 1 .. size |-> store[Here][i]]
      /\ UNCHANGED <<store, request, answer, key, size>>
    BY DEF Load
<1>2. Here \in DOMAIN store /\ size = Len(store[Here]) /\ store[Here] \in Seq(Byte)
    BY <1>1 DEF IInv, Locals, TypeOK
<1>3. buffer' = store[Here]
    BY <1>1, <1>2
<1>4. TypeOK'
    BY <1>1, <1>2, <1>3 DEF IInv, TypeOK
<1>5. EntriesBelong'
    BY <1>1 DEF IInv, EntriesBelong
<1>6. AnswerMatches'
    BY <1>1 DEF IInv, AnswerMatches
<1>7. Locals'
    <2>1. Here' = Here
        BY <1>1 DEF Here, HostEntry
    <2> QED
        BY <1>1, <1>2, <1>3, <2>1 DEF IInv, Locals, Asked, KeyMade, EntryName
<1> QED
    BY <1>4, <1>5, <1>6, <1>7 DEF IInv

\* What get is about to unpack is the entry's value and no other.
LEMMA LoadedValue ==
    ASSUME IInv, pc = "unpack"
    PROVE  /\ request \in Spec0!Requests /\ request.op = "get"
           /\ EntryName(request.table, request.key) \in DOMAIN store
           /\ \E v \in Values :
                 /\ store[EntryName(request.table, request.key)] = PackedValue[request.table][v]
                 /\ Unpacked(request.table, buffer) = {v}
<1>1. /\ request \in Spec0!Requests /\ request.op = "get"
      /\ Here = EntryName(request.table, request.key)
      /\ Here \in DOMAIN store /\ buffer = store[Here]
    BY DEF IInv, Locals, Asked, KeyMade
<1>2. request.table \in Tables /\ request.key \in Keys
    BY <1>1, RequestFields
<1>3. PICK v \in Values : store[Here] = PackedValue[request.table][v]
    BY <1>1, <1>2, EntryValue DEF IInv
<1> QED
    BY <1>1, <1>2, <1>3, ReadBack

\* get unpacks the value it has loaded.
LEMMA UnpackValueKeeps == IInv /\ UnpackValue => IInv'
<1> SUFFICES ASSUME IInv, UnpackValue PROVE IInv'
    OBVIOUS
<1>1. pc = "unpack"
    BY DEF UnpackValue
<1>2. PICK v \in Values : Unpacked(request.table, buffer) = {v}
    BY <1>1, LoadedValue
<1>3. store' = store /\ Return(Spec0!Value(v))
    BY <1>2 DEF UnpackValue
<1>4. EntriesBelong'
    BY <1>3 DEF IInv, EntriesBelong
<1> QED
    BY <1>3, <1>4, ReturnKeeps, AnswersDiffer DEF IInv, TypeOK

\* Every step of put, get, has_key and erase keeps the invariant.
THEOREM NextPreserves == IInv /\ [Next]_vars => IInv'
<1> SUFFICES ASSUME IInv, [Next]_vars PROVE IInv'
    OBVIOUS
<1>1. CASE Call
    BY <1>1, CallKeeps
<1>2. CASE PackValue
    BY <1>2, PackValueKeeps
<1>3. CASE OutOfMemory \/ KeyTooLong \/ NoSuchKey
    BY <1>3, StopKeeps DEF OutOfMemory, KeyTooLong, NoSuchKey
<1>4. CASE MakeKey
    BY <1>4, MakeKeyKeeps
<1>5. CASE Store
    BY <1>5, StoreKeeps
<1>6. CASE HasKey
    BY <1>6, HasKeyKeeps
<1>7. CASE Erase
    BY <1>7, EraseKeeps
<1>8. CASE LoadSize
    BY <1>8, LoadSizeKeeps
<1>9. CASE Load
    BY <1>9, LoadKeeps
<1>10. CASE UnpackValue
    BY <1>10, UnpackValueKeeps
<1>11. CASE UNCHANGED vars
    BY <1>11 DEF vars, IInv, TypeOK, EntriesBelong, AnswerMatches, Locals, Asked, KeyMade,
                 Here, HostEntry, EntryName
<1> QED
    BY <1>1, <1>2, <1>3, <1>4, <1>5, <1>6, <1>7, <1>8, <1>9, <1>10, <1>11 DEF Next

\* The invariant holds throughout.
THEOREM Invariance == Spec => []IInv
BY InitEstablishes, NextPreserves, PTL DEF Spec

-----------------------------------------------------------------------------
(* The theorems *)

\* Sizes, keys and buffers have the types the code gives them, and get loads
\* with the size of a value that is there.
THEOREM TypeCorrect == Spec => []TypeOK
<1>1. IInv => TypeOK
    BY DEF IInv
<1> QED
    BY <1>1, Invariance, PTL

\* Nothing that MapKey leaves uninitialised, nor another table, shows in the
\* host's store.
THEOREM StoreIsOfTables == Spec => []EntriesBelong
<1>1. IInv => EntriesBelong
    BY DEF IInv
<1> QED
    BY <1>1, Invariance, PTL

\* The two calls of db_load give get one value, and unpacking it cannot fail.
THEOREM GetReadsAValue == Spec => []LoadedIsValue
<1>1. IInv => LoadedIsValue
    <2> SUFFICES ASSUME IInv, pc = "unpack"
                 PROVE  \E v \in Values : Unpacked(request.table, buffer) = {v}
        BY DEF LoadedIsValue
    <2> QED
        BY LoadedValue
<1> QED
    BY <1>1, Invariance, PTL

-----------------------------------------------------------------------------
(* Refinement *)

\* The map has the value whose packing the store has under the entry's name.
LEMMA MapOfStore ==
    ASSUME EntriesBelong, NEW t \in Tables, NEW k \in Keys
    PROVE  /\ EntryName(t, k) \notin DOMAIN store => map[t][k] = Absent
           /\ EntryName(t, k) \in DOMAIN store =>
                /\ map[t][k] \in Values
                /\ store[EntryName(t, k)] = PackedValue[t][map[t][k]]
           /\ \A v \in Values :
                EntryName(t, k) \in DOMAIN store /\ store[EntryName(t, k)] = PackedValue[t][v]
                    => map[t][k] = v
<1>1. map[t][k] = IF k \in Fits[t] /\ EntryName(t, k) \in DOMAIN store
                  THEN CHOOSE v \in Values : PackedValue[t][v] = store[EntryName(t, k)]
                  ELSE Absent
    BY DEF map
<1>2. CASE EntryName(t, k) \in DOMAIN store
    <2>1. PICK v \in Values : store[EntryName(t, k)] = PackedValue[t][v]
        BY <1>2, EntryValue
    <2>2. map[t][k] = CHOOSE w \in Values : PackedValue[t][w] = PackedValue[t][v]
        BY <1>1, <1>2, <2>1, EntryValue
    <2>3. map[t][k] = v
        BY <2>2, ReadBack
    <2>4. \A w \in Values : PackedValue[t][w] = PackedValue[t][v] => w = v
        BY ReadBack
    <2> QED
        BY <1>2, <2>1, <2>3, <2>4
<1>3. CASE EntryName(t, k) \notin DOMAIN store
    BY <1>1, <1>3
<1> QED
    BY <1>2, <1>3

\* A map that differs from another in one entry of one table.
LEMMA EntryUpdate ==
    ASSUME NEW m, NEW n, NEW x, NEW T, NEW K, NEW t \in T, NEW k \in K,
           m = [u \in T |-> [l \in K |-> m[u][l]]],
           n = [u \in T |-> [l \in K |-> n[u][l]]],
           \A u \in T, l \in K : n[u][l] = IF u = t /\ l = k THEN x ELSE m[u][l]
    PROVE  n = [m EXCEPT ![t][k] = x]
<1> DEFINE e == [m EXCEPT ![t][k] = x]
<1>1. \A u \in T : DOMAIN m[u] = K /\ DOMAIN n[u] = K
    <2> TAKE u \in T
    <2>1. m[u] = [l \in K |-> m[u][l]] /\ n[u] = [l \in K |-> n[u][l]]
        OBVIOUS
    <2> QED
        BY <2>1
<1>2. DOMAIN m = T /\ DOMAIN n = T /\ DOMAIN e = T
    OBVIOUS
<1>3. ASSUME NEW u \in T PROVE n[u] = e[u]
    <2>1. n[u] = [l \in K |-> n[u][l]] /\ m[u] = [l \in K |-> m[u][l]]
        OBVIOUS
    <2>2. CASE u = t
        <3>1. e[u] = [m[t] EXCEPT ![k] = x]
            BY <1>2, <2>2
        <3>2. e[u] = [l \in K |-> IF l = k THEN x ELSE m[t][l]]
            BY <1>1, <3>1
        <3>3. \A l \in K : n[u][l] = IF l = k THEN x ELSE m[t][l]
            BY <2>2
        <3> HIDE DEF e
        <3> QED
            BY <2>1, <3>2, <3>3
    <2>3. CASE u # t
        <3>1. e[u] = m[u]
            BY <1>2, <2>3
        <3>2. \A l \in K : n[u][l] = m[u][l]
            BY <2>3
        <3> HIDE DEF e
        <3> QED
            BY <2>1, <3>1, <3>2
    <2> QED
        BY <2>2, <2>3
<1>4. n = [u \in T |-> n[u]]
    OBVIOUS
<1>5. e = [u \in T |-> e[u]]
    BY <1>2
<1> HIDE DEF e
<1>6. n = e
    BY <1>3, <1>4, <1>5
<1> QED
    BY <1>6 DEF e

\* The map depends on the store alone.
LEMMA MapUnchanged == store' = store => map' = map
BY DEF map, EntryName, Fits

\* Before the host is asked, and when it has answered, the entry of the request
\* is the entry of the map.
LEMMA EntryHere ==
    ASSUME IInv, KeyMade, request \in Spec0!Requests
    PROVE  /\ Spec0!Fitting
           /\ Here \notin DOMAIN store => Spec0!Entry = Absent
           /\ Here \in DOMAIN store =>
                /\ Spec0!Entry \in Values /\ Spec0!Entry # Absent
                /\ store[Here] = PackedValue[request.table][Spec0!Entry]
<1>1. request.table \in Tables /\ request.key \in Keys
    BY RequestFields
<1>2. Here = EntryName(request.table, request.key)
    BY DEF KeyMade
<1>3. Spec0!Fitting
    BY DEF KeyMade, Spec0!Fitting
<1>4. Spec0!Entry = map[request.table][request.key]
    BY DEF Spec0!Entry
<1> QED
    BY <1>1, <1>2, <1>3, <1>4, MapOfStore, ConstantsAssumption DEF IInv

\* A failed check or an exhausted memory has one of the reasons allowed.
LEMMA StopRefines ==
    ASSUME IInv, OutOfMemory \/ KeyTooLong \/ NoSuchKey
    PROVE  Spec0!Stop
<1>1. answer' = Spec0!Answer("stopped") /\ UNCHANGED <<store, request>>
    BY DEF OutOfMemory, KeyTooLong, NoSuchKey, Stop
<1>2. pc \in {"pack", "key", "size", "load"}
    BY DEF OutOfMemory, KeyTooLong, NoSuchKey
<1>3. answer.kind = "pending"
    BY <1>2, AnswersDiffer DEF IInv, AnswerMatches
<1>4. request \in Spec0!Requests
    BY <1>2 DEF IInv, Locals, Asked
<1>5. request.table \in Tables /\ request.key \in Keys
    BY <1>4, RequestFields
<1>6. Spec0!MayStop
    <2>1. CASE pc = "pack"
        <3>1. request.op = "put"
            BY <2>1 DEF IInv, Locals, Asked
        <3>2. request.value \in Values
            BY <1>4, <3>1, RequestFields
        <3>3. Len(PackedValue[request.table][request.value]) > MaxStackBuffer
            BY <2>1 DEF OutOfMemory, KeyTooLong, NoSuchKey
        <3>4. request.value \in Large[request.table]
            BY <1>5, <3>2, <3>3 DEF Large
        <3> QED
            BY <3>1, <3>4 DEF Spec0!MayStop
    <2>2. CASE pc = "key"
        <3>1. ~KeyLengthCheck(Len(PackedKey[request.table][request.key]))
            BY <2>2 DEF OutOfMemory, KeyTooLong, NoSuchKey
        <3>2. ~Spec0!Fitting
            BY <1>5, <3>1, KeyOfFits DEF Spec0!Fitting
        <3> QED
            BY <3>2 DEF Spec0!MayStop
    <2>3. CASE pc = "size"
        <3>1. request.op = "get" /\ KeyMade
            BY <2>3 DEF IInv, Locals, Asked
        <3>2. ~SizeCheck(LoadedSize)
            BY <2>3 DEF OutOfMemory, KeyTooLong, NoSuchKey
        <3>3. Here \notin DOMAIN store
            <4> SUFFICES ASSUME Here \in DOMAIN store PROVE FALSE
                OBVIOUS
            <4>1. LoadedSize \in Nat
                BY DEF LoadedSize, IInv, TypeOK
            <4> QED
                BY <3>2, <4>1 DEF SizeCheck
        <3>4. Spec0!Entry = Absent
            BY <1>4, <3>1, <3>3, EntryHere
        <3> QED
            BY <3>1, <3>4 DEF Spec0!MayStop
    <2>4. CASE pc = "load"
        <3>1. /\ request.op = "get" /\ KeyMade
              /\ Here \in DOMAIN store /\ size = Len(store[Here])
            BY <2>4 DEF IInv, Locals, Asked
        <3>2. size > MaxStackBuffer
            BY <2>4 DEF OutOfMemory, KeyTooLong, NoSuchKey
        <3>3. /\ Spec0!Entry \in Values
              /\ store[Here] = PackedValue[request.table][Spec0!Entry]
            BY <1>4, <3>1, EntryHere
        <3>4. Spec0!Entry \in Large[request.table]
            BY <1>5, <3>1, <3>2, <3>3 DEF Large
        <3> QED
            BY <3>1, <3>4 DEF Spec0!MayStop
    <2> QED
        BY <1>2, <2>1, <2>2, <2>3, <2>4
<1> QED
    BY <1>1, <1>3, <1>6, MapUnchanged DEF Spec0!Stop

\* The request of an operation that is about to return, and its entry.
LEMMA AboutToReturn ==
    ASSUME IInv, pc \in {"store", "has_key", "erase", "unpack"}
    PROVE  /\ request \in Spec0!Requests
           /\ KeyMade
           /\ answer.kind = "pending"
           /\ request.op = [store |-> "put", has_key |-> "has_key",
                            erase |-> "erase", unpack |-> "get"][pc]
<1>1. request \in Spec0!Requests /\ KeyMade
    BY DEF IInv, Locals, Asked
<1>2. answer.kind = "pending"
    BY AnswersDiffer DEF IInv, AnswerMatches
<1>3. /\ pc = "store" => request.op = "put"
      /\ pc = "has_key" => request.op = "has_key"
      /\ pc = "erase" => request.op = "erase"
      /\ pc = "unpack" => request.op = "get"
    BY DEF IInv, Locals, Asked
<1> QED
    BY <1>1, <1>2, <1>3

\* The map changes only where the store does.
LEMMA MapElsewhere ==
    ASSUME NEW u \in Tables, NEW l \in Keys,
           EntryName(u, l) \in DOMAIN store' <=> EntryName(u, l) \in DOMAIN store,
           EntryName(u, l) \in DOMAIN store =>
                store'[EntryName(u, l)] = store[EntryName(u, l)]
    PROVE  map'[u][l] = map[u][l]
<1>1. map[u][l] = IF l \in Fits[u] /\ EntryName(u, l) \in DOMAIN store
                  THEN CHOOSE w \in Values : PackedValue[u][w] = store[EntryName(u, l)]
                  ELSE Absent
    BY DEF map
<1>2. map'[u][l] = IF l \in Fits[u] /\ EntryName(u, l) \in DOMAIN store'
                   THEN CHOOSE w \in Values : PackedValue[u][w] = store'[EntryName(u, l)]
                   ELSE Absent
    BY DEF map, Fits, EntryName
<1> QED
    BY <1>1, <1>2

\* put changes the entry of its key to its value, and no other.
LEMMA StoreRefines ==
    ASSUME IInv, Store
    PROVE  Spec0!Put
<1> DEFINE t == request.table  k == request.key  v == request.value
<1>1. /\ pc = "store"
      /\ store' = [e \in DOMAIN store \cup {Here} |-> IF e = Here THEN buffer ELSE store[e]]
      /\ answer' = Spec0!Answer("done") /\ request' = request
    BY DEF Store, Return
<1>2. /\ request \in Spec0!Requests /\ KeyMade /\ answer.kind = "pending"
      /\ request.op = "put"
    BY <1>1, AboutToReturn
<1>3. t \in Tables /\ k \in Keys /\ v \in Values
    BY <1>2, RequestFields
<1>4. Here = EntryName(t, k) /\ buffer = PackedValue[t][v]
    BY <1>1, <1>2 DEF KeyMade, IInv, Locals
<1>5. EntriesBelong /\ EntriesBelong'
    BY StoreKeeps DEF IInv
<1>6. map' = [map EXCEPT ![t][k] = v]
    <2>1. ASSUME NEW u \in Tables, NEW l \in Keys
          PROVE  map'[u][l] = IF u = t /\ l = k THEN v ELSE map[u][l]
        <3>1. CASE EntryName(u, l) = Here
            <4>1. u = t /\ l = k
                BY <1>3, <1>4, <3>1, EntryOfOne
            <4>2. map'[t][k] = v
                <5>1. Here \in DOMAIN store' /\ store'[Here] = PackedValue[t][v]
                    BY <1>1, <1>4
                <5>2. map'[t][k] = IF k \in Fits[t] /\ EntryName(t, k) \in DOMAIN store'
                        THEN CHOOSE w \in Values : PackedValue[t][w] = store'[EntryName(t, k)]
                        ELSE Absent
                    BY <1>3 DEF map, Fits, EntryName
                <5>3. k \in Fits[t]
                    BY <1>2 DEF KeyMade
                <5> QED
                    BY <1>3, <1>4, <5>1, <5>2, <5>3, ReadBack
            <4> QED
                BY <4>1, <4>2
        <3>2. CASE EntryName(u, l) # Here
            <4>1. ~(u = t /\ l = k)
                BY <1>4, <3>2
            <4>2. /\ EntryName(u, l) \in DOMAIN store' <=> EntryName(u, l) \in DOMAIN store
                  /\ EntryName(u, l) \in DOMAIN store =>
                        store'[EntryName(u, l)] = store[EntryName(u, l)]
                BY <1>1, <3>2
            <4>3. map'[u][l] = map[u][l]
                BY <4>2, MapElsewhere
            <4> QED
                BY <4>1, <4>3
        <3> QED
            BY <3>1, <3>2
    <2>2. map = [u \in Tables |-> [l \in Keys |-> map[u][l]]]
        BY DEF map
    <2>3. map' = [u \in Tables |-> [l \in Keys |-> map'[u][l]]]
        BY DEF map
    <2> HIDE DEF t, k, v
    <2> QED
        BY <1>3, <2>1, <2>2, <2>3, EntryUpdate
<1>7. Spec0!Fitting
    BY <1>2, EntryHere
<1> QED
    BY <1>1, <1>2, <1>6, <1>7 DEF Spec0!Put, Spec0!Pending

\* erase leaves every other entry as it was.
LEMMA EraseRefines ==
    ASSUME IInv, Erase
    PROVE  Spec0!Erase
<1> DEFINE t == request.table  k == request.key
<1>1. /\ pc = "erase"
      /\ store' = [e \in DOMAIN store \ {Here} |-> store[e]]
      /\ answer' = Spec0!Answer("done") /\ request' = request
    BY DEF Erase, Return
<1>2. /\ request \in Spec0!Requests /\ KeyMade /\ answer.kind = "pending"
      /\ request.op = "erase"
    BY <1>1, AboutToReturn
<1>3. t \in Tables /\ k \in Keys
    BY <1>2, RequestFields
<1>4. Here = EntryName(t, k)
    BY <1>2 DEF KeyMade
<1>5. map' = [map EXCEPT ![t][k] = Absent]
    <2>1. ASSUME NEW u \in Tables, NEW l \in Keys
          PROVE  map'[u][l] = IF u = t /\ l = k THEN Absent ELSE map[u][l]
        <3>1. CASE EntryName(u, l) = Here
            <4>1. u = t /\ l = k
                BY <1>3, <1>4, <3>1, EntryOfOne
            <4>2. EntryName(u, l) \notin DOMAIN store'
                BY <1>1, <3>1
            <4>3. map'[u][l] = Absent
                BY <4>2 DEF map, EntryName
            <4> QED
                BY <4>1, <4>3
        <3>2. CASE EntryName(u, l) # Here
            <4>1. ~(u = t /\ l = k)
                BY <1>4, <3>2
            <4>2. /\ EntryName(u, l) \in DOMAIN store' <=> EntryName(u, l) \in DOMAIN store
                  /\ EntryName(u, l) \in DOMAIN store =>
                        store'[EntryName(u, l)] = store[EntryName(u, l)]
                BY <1>1, <3>2
            <4>3. map'[u][l] = map[u][l]
                BY <4>2, MapElsewhere
            <4> QED
                BY <4>1, <4>3
        <3> QED
            BY <3>1, <3>2
    <2>2. map = [u \in Tables |-> [l \in Keys |-> map[u][l]]]
        BY DEF map
    <2>3. map' = [u \in Tables |-> [l \in Keys |-> map'[u][l]]]
        BY DEF map
    <2> HIDE DEF t, k
    <2> QED
        BY <1>3, <2>1, <2>2, <2>3, EntryUpdate
<1>6. Spec0!Fitting
    BY <1>2, EntryHere
<1> QED
    BY <1>1, <1>2, <1>5, <1>6 DEF Spec0!Erase, Spec0!Pending

\* has_key tells whether the map has the key.
LEMMA HasKeyRefines ==
    ASSUME IInv, HasKey
    PROVE  Spec0!HasKey
<1>1. /\ pc = "has_key"
      /\ answer' = Spec0!Answer(IF Here \in DOMAIN store THEN "yes" ELSE "no")
      /\ request' = request /\ store' = store
    BY DEF HasKey, Return
<1>2. /\ request \in Spec0!Requests /\ KeyMade /\ answer.kind = "pending"
      /\ request.op = "has_key"
    BY <1>1, AboutToReturn
<1>3. Spec0!Fitting /\ (Here \in DOMAIN store <=> Spec0!Entry # Absent)
    BY <1>2, EntryHere
<1> QED
    BY <1>1, <1>2, <1>3, MapUnchanged DEF Spec0!HasKey, Spec0!Pending

\* get returns the value the map has.
LEMMA UnpackValueRefines ==
    ASSUME IInv, UnpackValue
    PROVE  Spec0!Get
<1>1. pc = "unpack"
    BY DEF UnpackValue
<1>2. /\ request \in Spec0!Requests /\ KeyMade /\ answer.kind = "pending"
      /\ request.op = "get"
    BY <1>1, AboutToReturn
<1>3. PICK v \in Values :
            /\ store[EntryName(request.table, request.key)] = PackedValue[request.table][v]
            /\ Unpacked(request.table, buffer) = {v}
    BY <1>1, LoadedValue
<1>4. answer' = Spec0!Value(v) /\ request' = request /\ store' = store
    BY <1>3 DEF UnpackValue, Return
<1>5. Here \in DOMAIN store /\ Here = EntryName(request.table, request.key)
    BY <1>1, <1>2 DEF IInv, Locals, KeyMade
<1>6. Spec0!Fitting /\ Spec0!Entry # Absent /\ Spec0!Entry = v
    <2>1. request.table \in Tables /\ request.key \in Keys
        BY <1>2, RequestFields
    <2>2. Spec0!Entry = v
        BY <1>3, <1>5, <2>1, MapOfStore DEF IInv, Spec0!Entry
    <2> QED
        BY <1>2, <1>5, <2>2, EntryHere
<1> QED
    BY <1>2, <1>4, <1>6, MapUnchanged DEF Spec0!Get, Spec0!Pending

\* Calling an operation is a step of the specification.
LEMMA CallRefines ==
    ASSUME IInv, Call
    PROVE  Spec0!Call
<1>1. /\ pc = "idle" /\ request' \in Spec0!Requests
      /\ answer' = Spec0!Answer("pending") /\ store' = store
    BY DEF Call
<1>2. answer.kind \notin {"pending", "stopped"}
    BY <1>1 DEF IInv, AnswerMatches
<1> QED
    BY <1>1, <1>2, MapUnchanged DEF Spec0!Call

\* An empty store represents empty maps.
THEOREM InitRefines == Init => Spec0!Init
<1> SUFFICES ASSUME Init PROVE Spec0!Init
    OBVIOUS
<1>1. DOMAIN store = {}
    BY DEF Init
<1>2. map = [t \in Tables |-> [k \in Keys |-> Absent]]
    BY <1>1 DEF map
<1> QED
    BY <1>2 DEF Init, Spec0!Init

\* Each step of map.hpp is an operation on the maps or changes nothing of them.
THEOREM StepRefines == IInv /\ [Next]_vars => [Spec0!Next]_(Spec0!vars)
<1> SUFFICES ASSUME IInv, [Next]_vars PROVE [Spec0!Next]_(Spec0!vars)
    OBVIOUS
<1>1. CASE Call
    BY <1>1, CallRefines DEF Spec0!Next
<1>2. CASE PackValue \/ MakeKey \/ LoadSize \/ Load
    <2>1. UNCHANGED <<store, request, answer>>
        BY <1>2 DEF PackValue, MakeKey, LoadSize, Load
    <2> QED
        BY <2>1, MapUnchanged DEF Spec0!vars
<1>3. CASE OutOfMemory \/ KeyTooLong \/ NoSuchKey
    BY <1>3, StopRefines DEF Spec0!Next
<1>4. CASE Store
    BY <1>4, StoreRefines DEF Spec0!Next
<1>5. CASE HasKey
    BY <1>5, HasKeyRefines DEF Spec0!Next
<1>6. CASE Erase
    BY <1>6, EraseRefines DEF Spec0!Next
<1>7. CASE UnpackValue
    BY <1>7, UnpackValueRefines DEF Spec0!Next
<1>8. CASE UNCHANGED vars
    BY <1>8, MapUnchanged DEF vars, Spec0!vars
<1> QED
    BY <1>1, <1>2, <1>3, <1>4, <1>5, <1>6, <1>7, <1>8 DEF Next

\* Tables over the host's store are maps of their own: put, get, has_key and
\* erase take effect at once, and an operation that stops the contract has
\* changed nothing and has a reason.
THEOREM Refinement == Spec => ImplementsTableSpec
<1>1. Init => Spec0!Init
    BY InitRefines
<1>2. IInv /\ [Next]_vars => [Spec0!Next]_(Spec0!vars)
    BY StepRefines
<1> QED
    BY <1>1, <1>2, Invariance, PTL DEF Spec, ImplementsTableSpec, Spec0!Spec

=============================================================================
