----------------------------------- MODULE Log -----------------------------------
(***************************************************************************)
(* log and log_hash of ftllib/log.hpp.  A value larger than the stack      *)
(* buffer is serialised into a block from malloc and every hash is in one; *)
(* malloc stops the contract when it gets no memory.  A block is what was  *)
(* written to it, whether it is the heap's and how often it was freed.     *)
(***************************************************************************)
EXTENDS Naturals, Sequences

CONSTANTS
    Values,         \* what is logged
    Large,          \* values of more bytes than max_stack_buffer_size
    LogCalls,       \* [name, data, args]
    MaxTopics       \* log_0, log_1 and log_2: 2

VARIABLES
    toLog,          \* the call of log
    blocks,         \* the blocks, in the order of their allocation
    buffer,         \* the block of data
    hashes,         \* the blocks of hash_name and hash_list
    pc,
    entry           \* what the node was handed

logVars == <<toLog, blocks, buffer, hashes, pc, entry>>

ASSUME LogAssumption ==
    /\ MaxTopics \in Nat
    /\ \A c \in LogCalls : c.name \in Values /\ c.data \in Values /\ c.args \in Seq(Values)

Garbage == "garbage"
NoEntry == "no entry"
Hash(v) == <<"sha256", v>>

Block(v, heap) == [content |-> v, heap |-> heap, frees |-> 0]

Buffer(v) == Block(v, v \in Large)

Freed(b) == [b EXCEPT !.frees = @ + 1]

Read(a) == IF blocks[a].frees > 0 THEN Garbage ELSE blocks[a].content

LogInit ==
    /\ toLog \in LogCalls
    /\ blocks = <<>> /\ buffer = 0 /\ hashes = <<>>
    /\ pc = "data" /\ entry = NoEntry

Pack ==
    /\ pc = "data"
    /\ blocks' = <<Buffer(toLog.data)>> /\ buffer' = 1
    /\ pc' = "hash"
    /\ UNCHANGED <<toLog, hashes, entry>>

\* hash_name, then the arguments from the left.
Hashed == (<<toLog.name>> \o toLog.args)[Len(hashes) + 1]

\* What comes after n hashes.
After(n) == IF n > Len(toLog.args) THEN "emit" ELSE "hash"

LogHash_BugKeepsBuffer ==
    /\ pc = "hash"
    /\ blocks' = blocks \o <<Buffer(Hashed), Block(Hash(Hashed), TRUE)>>
    /\ hashes' = Append(hashes, Len(blocks'))
    /\ pc' = After(Len(hashes'))
    /\ UNCHANGED <<toLog, buffer, entry>>

LogHash ==
    /\ pc = "hash"
    /\ blocks' = blocks \o <<IF Hashed \in Large THEN Freed(Buffer(Hashed)) ELSE Buffer(Hashed),
                             Block(Hash(Hashed), TRUE)>>
    /\ hashes' = Append(hashes, Len(blocks'))
    /\ pc' = After(Len(hashes'))
    /\ UNCHANGED <<toLog, buffer, entry>>

\* malloc has no memory for a buffer or a hash.
NoMemory ==
    /\ pc = "hash" \/ (pc = "data" /\ toLog.data \in Large)
    /\ pc' = "stopped"
    /\ UNCHANGED <<toLog, blocks, buffer, hashes, entry>>

\* log_0, log_1 or log_2; with more arguments there is none to call.
Emit ==
    /\ pc = "emit"
    /\ entry' = IF Len(toLog.args) > MaxTopics THEN NoEntry
                ELSE [data |-> Read(buffer), topics |-> [k \in DOMAIN hashes |-> Read(hashes[k])]]
    /\ pc' = "free"
    /\ UNCHANGED <<toLog, blocks, buffer, hashes>>

\* The buffer is freed wherever it lies; free does nothing in this allocator.
Free ==
    /\ pc = "free"
    /\ blocks' = [a \in DOMAIN blocks |->
                    IF a = buffer \/ \E k \in DOMAIN hashes : hashes[k] = a
                    THEN Freed(blocks[a]) ELSE blocks[a]]
    /\ pc' = "done"
    /\ UNCHANGED <<toLog, buffer, hashes, entry>>

LogNext == Pack \/ LogHash \/ NoMemory \/ Emit \/ Free

LogSpec == LogInit /\ [][LogNext]_logVars

-----------------------------------------------------------------------------
(* Properties *)

\* When log returns the node was handed the data and the hashes of the name and
\* of the arguments in their order, each before it was freed.
Logged ==
    pc = "done" /\ Len(toLog.args) <= MaxTopics =>
        entry = [data |-> toLog.data,
                 topics |-> [k \in 1 .. Len(toLog.args) + 1 |-> Hash((<<toLog.name>> \o toLog.args)[k])]]

\* log leaves no block of the heap behind and frees none twice, also when there
\* are more arguments than it can log.
FreedOnce ==
    pc = "done" => \A a \in DOMAIN blocks : blocks[a].heap => blocks[a].frees = 1

\* What was logged arrived, and no memory is lost over it.
LogsCleanly == Logged /\ FreedOnce
=================================================================================
