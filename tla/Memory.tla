--------------------------------- MODULE Memory ---------------------------------
(***************************************************************************)
(* memset, memcpy, memmove and memcmp of ftllib/src/memory.cpp, a byte at a *)
(* time.  memmove copies through a block of its own from new, which is     *)
(* apart from the caller's (DsMalloc).                                     *)
(***************************************************************************)
EXTENDS Integers, Sequences

CONSTANTS
    Addrs,      \* addresses of memory
    ByteSize,   \* 256
    Calls       \* [f, p1, p2, n, c, p3]: p3 is the block that new returns

VARIABLES
    mem,        \* a byte for every address
    call,       \* the call
    loops,      \* the loops that are left, the first is running
    i,          \* its counter
    result,     \* what memcmp returns
    before      \* history: memory when the function was called

vars == <<mem, call, loops, i, result, before>>

Byte == 0 .. ByteSize - 1

Area(p, n) == p .. p + n - 1

Apart(p, q, n) == Area(p, n) \cap Area(q, n) = {}

ASSUME ByteSizeAssumption == ByteSize \in Nat \ {0}

ASSUME CallsAssumption ==
    \A k \in Calls :
        /\ k.f \in {"memset", "memcpy", "memmove", "memcmp"}
        /\ k.p1 \in Nat /\ k.p2 \in Nat /\ k.p3 \in Nat /\ k.n \in Nat /\ k.c \in Int
        /\ Area(k.p1, k.n) \cup Area(k.p2, k.n) \cup Area(k.p3, k.n) \subseteq Addrs
        /\ k.f = "memmove" => Apart(k.p3, k.p1, k.n) /\ Apart(k.p3, k.p2, k.n)

Copy(to, from) == [does |-> "copy", to |-> to, from |-> from]

Loops_BugInPlace(k) ==
    CASE k.f \in {"memcpy", "memmove"} -> <<Copy(k.p1, k.p2)>>
      [] k.f = "memset" -> <<[does |-> "set", to |-> k.p1, from |-> k.p1]>>
      [] OTHER -> <<[does |-> "compare", to |-> k.p1, from |-> k.p2]>>

\* The loops of a function.
Loops(k) ==
    CASE k.f = "memmove" -> <<Copy(k.p3, k.p2), Copy(k.p1, k.p3)>>
      [] k.f = "memcpy" -> <<Copy(k.p1, k.p2)>>
      [] k.f = "memset" -> <<[does |-> "set", to |-> k.p1, from |-> k.p1]>>
      [] OTHER -> <<[does |-> "compare", to |-> k.p1, from |-> k.p2]>>

Init ==
    /\ mem \in [Addrs -> Byte]
    /\ call \in Calls
    /\ loops = Loops(call)
    /\ i = 0
    /\ result = 0
    /\ before = mem

Running_BugOneMore(does) == loops # <<>> /\ Head(loops).does = does /\ i <= call.n

Running(does) == loops # <<>> /\ Head(loops).does = does /\ i < call.n

To == Head(loops).to + i
From == Head(loops).from + i

CopyByte ==
    /\ Running("copy")
    /\ mem' = [mem EXCEPT ![To] = mem[From]]
    /\ i' = i + 1
    /\ UNCHANGED <<call, loops, result, before>>

SetByte ==
    /\ Running("set")
    /\ mem' = [mem EXCEPT ![To] = call.c % ByteSize]
    /\ i' = i + 1
    /\ UNCHANGED <<call, loops, result, before>>

CompareByte ==
    /\ Running("compare")
    /\ \/ mem[To] < mem[From] /\ result' = -1 /\ loops' = <<>> /\ i' = i
       \/ mem[To] > mem[From] /\ result' = 1 /\ loops' = <<>> /\ i' = i
       \/ mem[To] = mem[From] /\ i' = i + 1 /\ UNCHANGED <<result, loops>>
    /\ UNCHANGED <<mem, call, before>>

EndLoop ==
    /\ loops # <<>> /\ i = call.n
    /\ loops' = Tail(loops)
    /\ i' = IF Tail(loops) = <<>> THEN i ELSE 0
    /\ UNCHANGED <<mem, call, result, before>>

Next == CopyByte \/ SetByte \/ CompareByte \/ EndLoop

Spec == Init /\ [][Next]_vars

-----------------------------------------------------------------------------
(* Properties *)

Done(f) == call.f = f /\ loops = <<>>

\* memmove leaves at p1 what was at p2, however the two overlap; memcpy does when
\* p1 does not lie inside the area it copies from.
Moved ==
    Done("memmove") \/ (Done("memcpy") /\ call.p1 \notin Area(call.p2 + 1, call.n - 1)) =>
        \A j \in 0 .. call.n - 1 : mem[call.p1 + j] = before[call.p2 + j]

\* memset leaves the byte that the int was cut to.
WasSet ==
    Done("memset") => \A j \in Area(call.p1, call.n) : mem[j] = call.c % ByteSize

\* memcmp orders by the first byte that differs.
Compared ==
    Done("memcmp") =>
        \/ /\ result = 0
           /\ \A j \in 0 .. call.n - 1 : mem[call.p1 + j] = mem[call.p2 + j]
        \/ \E j \in 0 .. call.n - 1 :
              /\ \A k \in 0 .. j - 1 : mem[call.p1 + k] = mem[call.p2 + k]
              /\ result = -1 => mem[call.p1 + j] < mem[call.p2 + j]
              /\ result = 1 => mem[call.p1 + j] > mem[call.p2 + j]
              /\ result # 0

\* Each function has done what it is for when it returns, on every overlap.
Results == Moved /\ WasSet /\ Compared

\* At no time is a byte changed outside the target and memmove's own block.
NothingElseWritten ==
    \A a \in Addrs :
        mem[a] # before[a] =>
            \/ call.f # "memcmp" /\ a \in Area(call.p1, call.n)
            \/ call.f = "memmove" /\ a \in Area(call.p3, call.n)
===============================================================================
