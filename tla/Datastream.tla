------------------------------ MODULE Datastream ------------------------------
(***************************************************************************)
(* The two streams of datastream.hpp, as the library uses them.  pack()    *)
(* runs a traversal of the value twice: on a datastream<size_t>, which     *)
(* counts, then on a datastream<char *> over a buffer of the counted size, *)
(* where every write is checked.  unpack() and its callers read a buffer   *)
(* with checked reads, and a contract with a stream of its own may also    *)
(* write any length, and move the cursor with skip and seekp, which check  *)
(* nothing.  Pointers are addresses and wrap; write compares signed        *)
(* numbers where read compares unsigned ones.                              *)
(***************************************************************************)
EXTENDS Integers, Sequences

CONSTANTS
    AddressSpace,   \* 2^32
    MaxCalls        \* bound: writes of one traversal

ASSUME AddressAssumption ==
    /\ AddressSpace \in Nat
    /\ AddressSpace > 1
    /\ AddressSpace % 2 = 0

ASSUME BoundAssumption == MaxCalls \in Nat

Address == 0 .. AddressSpace - 1
Half == AddressSpace \div 2

VARIABLES
    phase,          \* "count", "write", "packed" or "read"
    calls,          \* the traversal: [op, n, at], at being tellp() before it
    next,           \* the call of the second traversal that comes next
    size,           \* datastream<size_t>::_size
    start, pos, end,\* datastream<T>::_start, _pos and _end
    access,         \* the bytes the last operation touched: [op, at, n]
    seek,           \* the last call of seekp and what it returned: [p, result]
    status          \* "running", or "aborted" by ftl::check

vars == <<phase, calls, next, size, start, pos, end, access, seek, status>>

NoAccess == [op |-> "none", at |-> 0, n |-> 0]

Init ==
    /\ phase = "count"
    /\ calls = <<>>
    /\ next = 1
    /\ size = 0
    /\ start = 0 /\ pos = 0 /\ end = 0
    /\ access = NoAccess
    /\ seek = [p |-> 0, result |-> TRUE]
    /\ status = "running"

-----------------------------------------------------------------------------
(* The checks *)

Wrap(n) == n % AddressSpace

\* int32_t(n) for a size_t n, and _end - _pos as the signed number it is.
Signed(n) == IF n < Half THEN n ELSE n - AddressSpace

\* remaining().
Remaining == Wrap(end - pos)

\* valid().
Valid == start <= pos /\ pos <= end

ReadCheck_BugSigned(n) == Signed(Remaining) >= Signed(n)

ReadCheck(n) == Remaining >= n
WriteCheck(n) == Signed(Remaining) >= Signed(n)

\* The check of put and get.
ByteCheck == pos < end

Advance(n) == Wrap(pos + n)

\* A checked operation on n bytes at the cursor.
Checked(op, check, n) ==
    /\ status = "running"
    /\ IF check
       THEN /\ pos' = Advance(n)
            /\ access' = [op |-> op, at |-> pos, n |-> n]
            /\ UNCHANGED status
       ELSE /\ status' = "aborted"
            /\ access' = NoAccess
            /\ UNCHANGED pos
    /\ UNCHANGED <<phase, calls, size, start, end, seek>>

-----------------------------------------------------------------------------
(* pack *)

Counted_BugPutForgotten(op, n) == IF op = "put" THEN size ELSE size + n

Counted_BugPutAsWord(op, n) == IF op = "put" THEN size + 4 ELSE size + n

\* datastream<size_t>::write, skip and put.
Counted(op, n) == size + n

\* The first traversal.  A packed value fits in the address space, as the value
\* itself does.
Count(op, n) ==
    /\ phase = "count"
    /\ Len(calls) < MaxCalls
    /\ op = "put" => n = 1
    /\ Counted(op, n) < AddressSpace
    /\ calls' = Append(calls, [op |-> op, n |-> n, at |-> size])
    /\ size' = Counted(op, n)
    /\ UNCHANGED <<phase, next, start, pos, end, access, seek, status>>

\* The buffer is allocated with the counted size, and the stream constructed.
Open(address) ==
    /\ phase = "count"
    /\ address + size < AddressSpace
    /\ phase' = "write"
    /\ start' = address /\ pos' = address /\ end' = address + size
    /\ UNCHANGED <<calls, next, size, access, seek, status>>

\* The second traversal makes the same calls.
Write ==
    /\ phase = "write"
    /\ next <= Len(calls)
    /\ calls[next].op = "write"
    /\ Checked("write", WriteCheck(calls[next].n), calls[next].n)
    /\ next' = next + 1

Put ==
    /\ phase = "write"
    /\ next <= Len(calls)
    /\ calls[next].op = "put"
    /\ Checked("put", ByteCheck, 1)
    /\ next' = next + 1

Packed ==
    /\ phase = "write" /\ status = "running"
    /\ next > Len(calls)
    /\ phase' = "packed"
    /\ access' = NoAccess
    /\ UNCHANGED <<calls, next, size, start, pos, end, seek, status>>

-----------------------------------------------------------------------------
(* unpack, and what a contract may do with a stream of its own *)

\* A stream over the bytes just packed.
Reopen ==
    /\ phase = "packed"
    /\ phase' = "read"
    /\ pos' = start
    /\ UNCHANGED <<calls, next, size, start, end, access, seek, status>>

Read(n) ==
    /\ phase = "read"
    /\ Checked("read", ReadCheck(n), n)
    /\ UNCHANGED next

Get ==
    /\ phase = "read"
    /\ Checked("get", ByteCheck, 1)
    /\ UNCHANGED next

\* write and put of a datastream<char *>, of as many bytes as the contract says.
WriteOwn(n) ==
    /\ phase = "read"
    /\ Checked("write", WriteCheck(n), n)
    /\ UNCHANGED next

PutOwn ==
    /\ phase = "read"
    /\ Checked("put", ByteCheck, 1)
    /\ UNCHANGED next

Skip(n) ==
    /\ phase = "read" /\ status = "running"
    /\ pos' = Advance(n)
    /\ access' = NoAccess
    /\ UNCHANGED <<phase, calls, next, size, start, end, seek, status>>

Seekp(p) ==
    /\ phase = "read" /\ status = "running"
    /\ pos' = Wrap(start + p)
    /\ seek' = [p |-> p, result |-> (pos' <= end)]
    /\ access' = NoAccess
    /\ UNCHANGED <<phase, calls, next, size, start, end, status>>

Next ==
    \/ \E op \in {"write", "put"}, n \in Address : Count(op, n)
    \/ \E address \in Address : Open(address)
    \/ Write
    \/ Put
    \/ Packed
    \/ Reopen
    \/ \E n \in Address : Read(n)
    \/ Get
    \/ \E n \in Address : WriteOwn(n)
    \/ PutOwn
    \/ \E n \in Address : Skip(n)
    \/ \E p \in Address : Seekp(p)

Spec == Init /\ [][Next]_vars

-----------------------------------------------------------------------------
(* Properties *)

\* Cursor and sizes are 32-bit numbers, and the buffer does not wrap.
TypeOK ==
    /\ phase \in {"count", "write", "packed", "read"}
    /\ calls \in Seq([op : {"write", "put"}, n : Address, at : Address])
    /\ next \in 1 .. Len(calls) + 1
    /\ size \in Address
    /\ start \in Address /\ pos \in Address /\ end \in Address
    /\ end = start + size \/ phase = "count"
    /\ access \in [op : {"none", "read", "get", "write", "put"}, at : Address, n : Address]
    /\ seek \in [p : Address, result : BOOLEAN]
    /\ status \in {"running", "aborted"}

Inside(a) == start <= a.at /\ a.at + a.n <= end

\* A write that is asked for so much that it takes the length for a negative number,
\* where less than that remains.
TakenForNegative(a) == a.op = "write" /\ Remaining < Half /\ a.n >= Half

\* From a valid stream, get, put and read touch bytes of the buffer only and leave
\* the stream valid, whatever the length asked for, and so does every write of less
\* than half the address space: only skip and seekp can take the cursor out.  But a
\* write of more is not stopped when less than half the address space remains, and
\* goes past the end.
CheckedAccess ==
    [][Valid /\ access' # NoAccess =>
          IF TakenForNegative(access') THEN ~Inside(access')
          ELSE Inside(access') /\ Valid']_vars

\* pack: the checks of the second traversal stop a contract only when the
\* packed value is so large that write takes its size for a negative number.
PackAbortsOnlyWhenHuge ==
    phase = "write" /\ status = "aborted" => size >= Half

\* pack: the second traversal fills the buffer of the counted size.
PackFills == phase = "packed" => pos = end

\* datastream.hpp says of seekp that it returns true if p is within the range,
\* and false if it is not.
SeekReportsRange ==
    phase = "read" => (seek.result <=> start + seek.p <= end)
=============================================================================
