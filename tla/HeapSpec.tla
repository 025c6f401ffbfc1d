------------------------------ MODULE HeapSpec ------------------------------
(***************************************************************************)
(* What a contract may rely on from malloc, calloc, realloc and free: the  *)
(* blocks it owns lie inside the memory it can address and never overlap.  *)
(* Nothing is said of where a block is placed or of how memory grows, and  *)
(* a request may always stop the contract.                                 *)
(***************************************************************************)
EXTENDS Integers

VARIABLES
    owned,      \* the blocks the contract holds, records [base, size]
    extent,     \* bytes of linear memory the contract can address
    ok          \* FALSE once the contract has been stopped

heapVars == <<owned, extent, ok>>

Apart(b, c) == b.base + b.size <= c.base \/ c.base + c.size <= b.base

Inside(b, n) == b.base >= 0 /\ b.base + b.size <= n

\* A block the contract may be given once those in `kept` are its own.
Fresh(b, kept) ==
    /\ b.size > 0
    /\ Inside(b, extent')
    /\ \A c \in kept : Apart(b, c)

Init ==
    /\ owned = {}
    /\ extent \in Nat
    /\ ok = TRUE

(***************************************************************************)
(* A request: the caller gives up the blocks in `gone` (realloc) and gets  *)
(* either nothing or one new block.  Memory never shrinks.                 *)
(***************************************************************************)
Request ==
    /\ ok
    /\ extent' \in Nat /\ extent' >= extent
    /\ \E gone \in SUBSET owned :
          \/ owned' = owned \ gone
          \/ \E b \in owned' : /\ Fresh(b, owned \ gone)
                               /\ owned' = (owned \ gone) \cup {b}
    /\ ok' = ok

\* The request cannot be met: the contract is stopped and owns what it owned.
Stop ==
    /\ ok
    /\ ok' = FALSE
    /\ UNCHANGED <<owned, extent>>

Next == Request \/ Stop

Spec == Init /\ [][Next]_heapVars
=============================================================================
