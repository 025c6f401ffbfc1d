------------------------------- MODULE TableSpec -------------------------------
(***************************************************************************)
(* What the tables of a contract promise: each is a map of its own from    *)
(* keys to values, an operation takes effect at once or stops the          *)
(* contract, and one that stops it has changed nothing.                    *)
(***************************************************************************)
CONSTANTS
    Tables, Keys, Values,
    Absent,     \* not a value
    Fits,       \* for each table, the keys it accepts
    Large       \* for each table, the values whose buffer is allocated

VARIABLES
    map,        \* for each table and key, its value or Absent
    request,    \* the operation in progress, or the last one
    answer      \* what it returned

vars == <<map, request, answer>>

NoRequest == [op |-> "none"]

Requests ==
    [op : {"put"}, table : Tables, key : Keys, value : Values]
    \cup [op : {"get", "has_key", "erase"}, table : Tables, key : Keys]

Answer(kind) == [kind |-> kind, value |-> Absent]
Value(v) == [kind |-> "value", value |-> v]

Answers ==
    {Answer(kind) : kind \in {"idle", "pending", "stopped", "done", "yes", "no"}}
    \cup {Value(v) : v \in Values}

Init ==
    /\ map = [t \in Tables |-> [k \in Keys |-> Absent]]
    /\ request = NoRequest
    /\ answer = Answer("idle")

Call ==
    /\ answer.kind \notin {"pending", "stopped"}
    /\ request' \in Requests
    /\ answer' = Answer("pending")
    /\ UNCHANGED map

Pending(op) == answer.kind = "pending" /\ request.op = op
Fitting == request.key \in Fits[request.table]
Entry == map[request.table][request.key]

Put ==
    /\ Pending("put") /\ Fitting
    /\ map' = [map EXCEPT ![request.table][request.key] = request.value]
    /\ answer' = Answer("done")
    /\ UNCHANGED request

Get ==
    /\ Pending("get") /\ Fitting /\ Entry # Absent
    /\ answer' = Value(Entry)
    /\ UNCHANGED <<map, request>>

HasKey ==
    /\ Pending("has_key") /\ Fitting
    /\ answer' = Answer(IF Entry # Absent THEN "yes" ELSE "no")
    /\ UNCHANGED <<map, request>>

Erase ==
    /\ Pending("erase") /\ Fitting
    /\ map' = [map EXCEPT ![request.table][request.key] = Absent]
    /\ answer' = Answer("done")
    /\ UNCHANGED request

\* The reasons for which an operation may stop the contract.
MayStop ==
    \/ ~Fitting
    \/ request.op = "get" /\ Entry = Absent
    \/ request.op = "get" /\ Entry \in Large[request.table]
    \/ request.op = "put" /\ request.value \in Large[request.table]

Stop ==
    /\ answer.kind = "pending" /\ MayStop
    /\ answer' = Answer("stopped")
    /\ UNCHANGED <<map, request>>

Next == Call \/ Put \/ Get \/ HasKey \/ Erase \/ Stop

Spec == Init /\ [][Next]_vars
=============================================================================
