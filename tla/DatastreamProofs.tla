--------------------------- MODULE DatastreamProofs ---------------------------
(***************************************************************************)
(* Proofs about Datastream, for every even size of the address space and   *)
(* every number of calls.  The inductive invariant relates the second      *)
(* traversal to the first: before a call, the cursor is as far into the    *)
(* buffer as the counter was before that call.  Then proofs about VarInt,  *)
(* for every width of words and bytes.                                     *)
(***************************************************************************)
EXTENDS Datastream, VarInt, TLAPS, NaturalsInduction, WellFoundedInduction

\* What an operation may have touched.
Accesses == [op : {"none", "read", "get", "write", "put"}, at : Address, n : Address]

\* The offset at which call i of the traversal begins.
Offset(i) == IF i <= Len(calls) THEN calls[i].at ELSE size

\* Each call begins where the one before it ended, and none ends past the size.
CallsChained ==
    /\ Offset(1) = 0
    /\ \A i \in 1 .. Len(calls) :
          /\ calls[i].op = "put" => calls[i].n = 1
          /\ calls[i].at + calls[i].n = Offset(i + 1)
          /\ calls[i].at + calls[i].n <= size

\* Where the second traversal is.
InStep ==
    /\ phase = "count" => status = "running" /\ next = 1
    /\ phase \in {"count", "packed"} => access = NoAccess
    /\ phase = "write" /\ status = "running" => pos = start + Offset(next)
    /\ phase = "write" /\ status = "aborted" => size >= Half
    /\ phase = "packed" => pos = end /\ status = "running"

IInv == TypeOK /\ CallsChained /\ InStep

-----------------------------------------------------------------------------
(* Arithmetic of the address space *)

\* A number within the address space is not changed by wrapping.
LEMMA WrapSmall ==
    ASSUME NEW n \in Address
    PROVE  Wrap(n) = n
BY AddressAssumption DEF Wrap, Address

\* Wrapping gives an address.
LEMMA WrapType ==
    ASSUME NEW n \in Int
    PROVE  Wrap(n) \in Address
BY AddressAssumption DEF Wrap, Address

\* Half of the address space is a whole number, and twice it is all of it.
LEMMA HalfType == Half \in Nat /\ AddressSpace = 2 * Half
BY AddressAssumption DEF Half

\* A negative distance wraps to a positive one.
LEMMA WrapNegative ==
    ASSUME NEW n \in Int, -AddressSpace < n, n < 0
    PROVE  Wrap(n) = n + AddressSpace
BY AddressAssumption DEF Wrap

\* Reading a length as a signed number keeps the order of two lengths unless
\* the larger one is the only one that needs the sign bit.
LEMMA SignedOrder ==
    ASSUME NEW m \in Address, NEW n \in Address, n <= m, m < Half
    PROVE  Signed(m) >= Signed(n)
BY AddressAssumption, HalfType DEF Signed, Address

\* The calls of a traversal are records of what was called.
LEMMA ElementOfSeq ==
    ASSUME NEW S, NEW s \in Seq(S), NEW i \in 1 .. Len(s)
    PROVE  s[i] \in S
OBVIOUS

LEMMA CallType ==
    ASSUME TypeOK, NEW i \in 1 .. Len(calls)
    PROVE  /\ calls[i] \in [op : {"write", "put"}, n : Address, at : Address]
           /\ calls[i].n \in Address /\ calls[i].at \in Address
           /\ calls[i].n \in Nat /\ calls[i].at \in Nat
<1>1. calls[i] \in [op : {"write", "put"}, n : Address, at : Address]
  BY ElementOfSeq DEF TypeOK
<1> QED
  BY <1>1, AddressAssumption DEF Address

\* A checked operation of the two writers and the two readers, from a valid
\* stream, fits what is left.
LEMMA ReadFits ==
    ASSUME TypeOK, Valid, NEW n \in Address, ReadCheck(n)
    PROVE  pos + n <= end
<1>1. end - pos \in Address
  BY AddressAssumption DEF TypeOK, Valid, Address
<1>2. Remaining = end - pos
  BY <1>1, WrapSmall DEF Remaining
<1> QED
  BY <1>2 DEF ReadCheck, TypeOK, Address

\* What remains of a valid stream.
LEMMA RemainingIs ==
    ASSUME pos \in Address, end \in Address, pos <= end
    PROVE  Remaining = end - pos /\ end - pos \in Address
<1>1. end - pos \in Address
  BY AddressAssumption DEF Address
<1> QED
  BY <1>1, WrapSmall DEF Remaining

-----------------------------------------------------------------------------
(* The initial state *)

LEMMA InitIInv == Init => IInv
<1> SUFFICES ASSUME Init PROVE IInv
  OBVIOUS
<1>0. 0 \in Address
  BY AddressAssumption DEF Address
<1>1. TypeOK
  BY <1>0 DEF Init, TypeOK, NoAccess
<1>2. CallsChained
  BY DEF Init, CallsChained, Offset
<1>3. InStep
  BY DEF Init, InStep
<1> QED
  BY <1>1, <1>2, <1>3 DEF IInv

-----------------------------------------------------------------------------
(* The steps *)

LEMMA CountStep ==
    ASSUME IInv, NEW op \in {"write", "put"}, NEW n \in Address, Count(op, n)
    PROVE  IInv'
<1> DEFINE call == [op |-> op, n |-> n, at |-> size]
<1>1. /\ calls \in Seq([op : {"write", "put"}, n : Address, at : Address])
      /\ size \in Address
  BY DEF IInv, TypeOK
<1>2. size + n \in Address
  BY <1>1, AddressAssumption DEF Count, Counted, Address
<1>3. call \in [op : {"write", "put"}, n : Address, at : Address]
  BY <1>1
<1>4. /\ calls' = Append(calls, call)
      /\ size' = size + n
      /\ phase = "count" /\ UNCHANGED <<phase, next, start, pos, end, access, seek, status>>
  BY DEF Count, Counted
<1> HIDE DEF call
<1>5. /\ calls' \in Seq([op : {"write", "put"}, n : Address, at : Address])
      /\ Len(calls') = Len(calls) + 1
      /\ \A i \in 1 .. Len(calls) : calls'[i] = calls[i]
      /\ calls'[Len(calls) + 1] = call
      /\ Len(calls) \in Nat
  BY <1>1, <1>3, <1>4
<1>6. TypeOK'
  BY <1>2, <1>4, <1>5 DEF IInv, TypeOK
<1>7. CallsChained'
  <2>1. Offset(1)' = 0
    BY <1>1, <1>4, <1>5 DEF IInv, CallsChained, Offset, call
  <2>2. ASSUME NEW i \in 1 .. Len(calls')
        PROVE  /\ calls'[i].op = "put" => calls'[i].n = 1
               /\ calls'[i].at + calls'[i].n = Offset(i + 1)'
               /\ calls'[i].at + calls'[i].n <= size'
    <3>1. CASE i <= Len(calls)
      <4>1. /\ i \in 1 .. Len(calls)
            /\ calls'[i] = calls[i]
            /\ calls[i].op = "put" => calls[i].n = 1
            /\ calls[i].at + calls[i].n = Offset(i + 1)
            /\ calls[i].at + calls[i].n <= size
        BY <2>2, <3>1, <1>5 DEF IInv, CallsChained
      <4>2. Offset(i + 1)' = Offset(i + 1)
        BY <4>1, <1>4, <1>5 DEF Offset, call
      <4>3. calls[i].at \in Nat /\ calls[i].n \in Nat /\ size <= size'
        <5>1. calls[i].at \in Nat /\ calls[i].n \in Nat
          BY <4>1, CallType DEF IInv
        <5> QED
          BY <5>1, <1>1, <1>4, AddressAssumption DEF Address
      <4>4. size \in Nat /\ size' \in Nat
        BY <1>1, <1>4, AddressAssumption DEF Address
      <4>5. calls'[i].at + calls'[i].n <= size'
        BY <4>1, <4>3, <4>4
      <4> QED
        BY <4>1, <4>2, <4>5
    <3>2. CASE i = Len(calls) + 1
      <4>1. calls'[i] = call /\ Offset(i + 1)' = size'
        BY <3>2, <1>5 DEF Offset
      <4> QED
        BY <4>1, <1>1, <1>4 DEF call, Count, Address
    <3> QED
      BY <2>2, <3>1, <3>2, <1>5
  <2> QED
    BY <2>1, <2>2 DEF CallsChained
<1>8. InStep'
  BY <1>4 DEF IInv, InStep
<1> QED
  BY <1>6, <1>7, <1>8 DEF IInv

\* Steps that make no call leave the chain as it is.
LEMMA ChainUnchanged ==
    ASSUME CallsChained, UNCHANGED <<calls, size>>
    PROVE  CallsChained'
BY DEF CallsChained, Offset

LEMMA OpenStep ==
    ASSUME IInv, NEW address \in Address, Open(address)
    PROVE  IInv'
<1>1. TypeOK'
  BY AddressAssumption DEF IInv, TypeOK, Open, Address
<1>2. CallsChained'
  BY ChainUnchanged DEF IInv, Open
<1>3. InStep'
  BY SMTT(30) DEF IInv, InStep, CallsChained, TypeOK, Open, Offset, Address
<1> QED
  BY <1>1, <1>2, <1>3 DEF IInv

\* What the second traversal knows before a call.
LEMMA BeforeCall ==
    ASSUME IInv, phase = "write", status = "running", next <= Len(calls)
    PROVE  /\ calls[next].n \in Address
           /\ pos = start + calls[next].at
           /\ pos + calls[next].n = start + Offset(next + 1)
           /\ pos + calls[next].n <= end
           /\ end - pos \in Address
           /\ end - pos <= size
           /\ Valid
<1>0. Len(calls) \in Nat
  BY DEF IInv, TypeOK
<1>1. /\ next \in 1 .. Len(calls)
      /\ start \in Address /\ pos \in Address /\ end \in Address
      /\ size \in Address /\ end = start + size
  BY <1>0 DEF IInv, TypeOK
<1>2. calls[next].n \in Nat /\ calls[next].at \in Nat /\ calls[next].n \in Address
  BY <1>1, CallType DEF IInv
<1>3. /\ pos = start + calls[next].at
      /\ calls[next].at + calls[next].n = Offset(next + 1)
      /\ calls[next].at + calls[next].n <= size
  BY <1>1 DEF IInv, InStep, CallsChained, Offset
<1>4. pos + calls[next].n = start + Offset(next + 1)
  BY <1>1, <1>2, <1>3 DEF Address
<1>5. pos + calls[next].n <= end /\ end - pos <= size /\ start <= pos /\ pos <= end
  <2> DEFINE at == calls[next].at
             n == calls[next].n
  <2>1. /\ at \in Nat /\ n \in Nat /\ start \in Nat /\ size \in Nat
        /\ pos = start + at /\ end = start + size /\ at + n <= size
    BY <1>1, <1>2, <1>3, AddressAssumption DEF Address
  <2> HIDE DEF at, n
  <2>2. pos + n <= end /\ end - pos <= size /\ start <= pos /\ pos <= end
    BY <2>1
  <2> QED
    BY <2>2 DEF n
<1>6. end - pos \in Address
  BY <1>1, <1>5, AddressAssumption DEF Address
<1> QED
  BY <1>2, <1>3, <1>4, <1>5, <1>6 DEF Valid

\* A call whose check passes, and one whose check fails.
LEMMA CallPasses ==
    ASSUME IInv, phase = "write", status = "running", next <= Len(calls),
           pos' = Advance(calls[next].n), next' = next + 1,
           NEW op \in {"write", "put"}, access' = [op |-> op, at |-> pos, n |-> calls[next].n],
           UNCHANGED <<phase, calls, size, start, end, seek, status>>
    PROVE  IInv' /\ pos' = pos + calls[next].n
<1>1. /\ calls[next].n \in Address
      /\ pos + calls[next].n = start + Offset(next + 1)
      /\ pos + calls[next].n <= end
  BY BeforeCall
<1>2. /\ pos \in Address /\ end \in Address /\ next \in 1 .. Len(calls) + 1
      /\ Len(calls) \in Nat
  BY DEF IInv, TypeOK
<1>3. pos + calls[next].n \in Address
  BY <1>1, <1>2, AddressAssumption DEF Address
<1>4. pos' = pos + calls[next].n
  BY <1>3, WrapSmall DEF Advance
<1>5. TypeOK'
  BY <1>1, <1>2, <1>3, <1>4 DEF IInv, TypeOK
<1>6. CallsChained'
  BY ChainUnchanged DEF IInv
<1>7. Offset(next)' = Offset(next + 1)
  BY DEF Offset
<1>8. InStep'
  BY <1>1, <1>4, <1>7 DEF IInv, InStep
<1> QED
  BY <1>4, <1>5, <1>6, <1>8 DEF IInv

LEMMA CallFails ==
    ASSUME IInv, phase = "write", status = "running", next <= Len(calls),
           size >= Half, status' = "aborted", access' = NoAccess, next' = next + 1,
           UNCHANGED <<phase, calls, size, start, pos, end, seek>>
    PROVE  IInv'
<1>0. 0 \in Address
  BY AddressAssumption DEF Address
<1>1. TypeOK'
  BY <1>0 DEF IInv, TypeOK, NoAccess
<1>2. CallsChained'
  BY ChainUnchanged DEF IInv
<1>3. InStep'
  BY DEF IInv, InStep
<1> QED
  BY <1>1, <1>2, <1>3 DEF IInv

LEMMA WriteStep ==
    ASSUME IInv, Write
    PROVE  IInv'
<1> DEFINE n == calls[next].n
<1>1. phase = "write" /\ status = "running" /\ next <= Len(calls)
  BY DEF Write, Checked
<1>2. /\ n \in Address /\ pos + n <= end
      /\ end - pos \in Address /\ end - pos <= size
      /\ pos \in Address /\ end \in Address /\ size \in Address
  BY <1>1, BeforeCall DEF IInv, TypeOK
<1>3. CASE WriteCheck(n)
  BY <1>1, <1>3, CallPasses DEF Write, Checked
<1>4. CASE ~WriteCheck(n)
  <2>1. Remaining = end - pos
    BY <1>2, WrapSmall DEF Remaining
  <2>2. n <= end - pos
    BY <1>2 DEF Address
  <2>3. ~(end - pos < Half)
    BY <1>2, <1>4, <2>1, <2>2, SignedOrder DEF WriteCheck
  <2>4. size >= Half
    BY <1>2, <2>3, HalfType DEF Address
  <2> QED
    BY <1>1, <1>4, <2>4, CallFails DEF Write, Checked
<1> QED
  BY <1>3, <1>4

LEMMA PutStep ==
    ASSUME IInv, Put
    PROVE  IInv'
<1>1. /\ phase = "write" /\ status = "running" /\ next <= Len(calls)
      /\ calls[next].op = "put"
  BY DEF Put, Checked
<1>2. next \in 1 .. Len(calls)
  BY <1>1 DEF IInv, TypeOK
<1>3. calls[next].n = 1
  BY <1>1, <1>2 DEF IInv, CallsChained
<1>4. ByteCheck
  <2>1. pos + 1 <= end /\ pos \in Address /\ end \in Address
    BY <1>1, <1>3, BeforeCall DEF IInv, TypeOK
  <2> QED
    BY <2>1 DEF ByteCheck, Address
<1>5. /\ pos' = Advance(calls[next].n)
      /\ access' = [op |-> "put", at |-> pos, n |-> calls[next].n]
      /\ next' = next + 1
      /\ UNCHANGED <<phase, calls, size, start, end, seek, status>>
  BY <1>3, <1>4 DEF Put, Checked
<1> QED
  BY <1>1, <1>5, CallPasses

LEMMA PackedStep ==
    ASSUME IInv, Packed
    PROVE  IInv'
<1>0. 0 \in Address
  BY AddressAssumption DEF Address
<1>1. TypeOK'
  BY <1>0 DEF IInv, TypeOK, Packed, NoAccess
<1>2. CallsChained'
  BY ChainUnchanged DEF IInv, Packed
<1>3. pos = end
  BY DEF IInv, TypeOK, InStep, Packed, Offset
<1>4. InStep'
  BY <1>3 DEF InStep, Packed
<1> QED
  BY <1>1, <1>2, <1>4 DEF IInv

\* Nothing but the cursor matters to the steps of a reader.
LEMMA ReaderStep ==
    ASSUME IInv, phase' = "read", UNCHANGED <<calls, next, size, start, end>>,
           phase # "count", pos' \in Address, access' \in Accesses,
           seek' \in [p : Address, result : BOOLEAN],
           status' \in {"running", "aborted"}
    PROVE  IInv'
<1>1. TypeOK'
  BY DEF IInv, TypeOK, Accesses
<1>2. CallsChained'
  BY ChainUnchanged DEF IInv
<1>3. InStep'
  BY DEF InStep
<1> QED
  BY <1>1, <1>2, <1>3 DEF IInv

LEMMA CheckedReader ==
    ASSUME IInv, phase = "read", NEW op \in {"read", "get", "write", "put"}, NEW check,
           NEW n \in Address, Checked(op, check, n), UNCHANGED next
    PROVE  IInv'
<1>0. 0 \in Address
  BY AddressAssumption DEF Address
<1>1. pos \in Address /\ pos + n \in Int
  BY DEF IInv, TypeOK, Address
<1>2. pos' \in Address
  BY <1>1, WrapType DEF Checked, Advance
<1>3. access' \in Accesses
  BY <1>0, <1>1 DEF Checked, NoAccess, Accesses
<1> QED
  BY <1>2, <1>3, ReaderStep DEF Checked, IInv, TypeOK

LEMMA MoveStep ==
    ASSUME IInv, NEW n \in Address, Skip(n) \/ Seekp(n)
    PROVE  IInv'
<1>0. NoAccess \in Accesses
  BY AddressAssumption DEF Address, NoAccess, Accesses
<1>1. pos + n \in Int /\ start + n \in Int
  BY DEF IInv, TypeOK, Address
<1>2. pos' \in Address
  BY <1>1, WrapType DEF Skip, Seekp, Advance
<1>3. seek' \in [p : Address, result : BOOLEAN]
  <2>1. (pos' <= end) \in BOOLEAN
    OBVIOUS
  <2>2. CASE Skip(n)
    BY <2>2 DEF Skip, IInv, TypeOK
  <2>3. CASE Seekp(n)
    BY <2>1, <2>3 DEF Seekp
  <2> QED
    BY <2>2, <2>3
<1> QED
  BY <1>0, <1>2, <1>3, ReaderStep DEF Skip, Seekp, IInv, TypeOK

LEMMA NextIInv == IInv /\ [Next]_vars => IInv'
<1> SUFFICES ASSUME IInv, [Next]_vars PROVE IInv'
  OBVIOUS
<1>1. CASE \E op \in {"write", "put"}, n \in Address : Count(op, n)
  BY <1>1, CountStep
<1>2. CASE \E address \in Address : Open(address)
  BY <1>2, OpenStep
<1>3. CASE Write
  BY <1>3, WriteStep
<1>4. CASE Put
  BY <1>4, PutStep
<1>5. CASE Packed
  BY <1>5, PackedStep
<1>6. CASE Reopen
  BY <1>6, ReaderStep DEF Reopen, IInv, TypeOK, Accesses
<1>7. CASE \E n \in Address : Read(n)
  BY <1>7, CheckedReader DEF Read
<1>8. CASE Get \/ PutOwn
  <2>1. 1 \in Address
    BY AddressAssumption DEF Address
  <2> QED
    BY <1>8, <2>1, CheckedReader DEF Get, PutOwn
<1>9. CASE \E n \in Address : Skip(n)
  BY <1>9, MoveStep
<1>10. CASE \E p \in Address : Seekp(p)
  BY <1>10, MoveStep
<1>11. CASE UNCHANGED vars
  BY <1>11 DEF vars, IInv, TypeOK, CallsChained, InStep, Offset
<1>12. CASE \E n \in Address : WriteOwn(n)
  BY <1>12, CheckedReader DEF WriteOwn
<1> QED
  BY <1>1, <1>2, <1>3, <1>4, <1>5, <1>6, <1>7, <1>8, <1>9, <1>10, <1>11, <1>12 DEF Next

THEOREM InvariantHolds == Spec => []IInv
BY InitIInv, NextIInv, PTL DEF Spec

-----------------------------------------------------------------------------
(* The theorems *)

\* Cursor, counter and lengths stay 32-bit numbers (datastream.hpp, both
\* classes).
THEOREM TypeCorrect == Spec => []TypeOK
BY InvariantHolds, PTL DEF IInv

\* The checks of pack's second traversal fail only for values of half the
\* address space and more, where write takes a length for a negative number.
THEOREM PackSucceeds == Spec => []PackAbortsOnlyWhenHuge
<1>1. IInv => PackAbortsOnlyWhenHuge
  BY DEF IInv, InStep, PackAbortsOnlyWhenHuge
<1> QED
  BY <1>1, InvariantHolds, PTL

\* pack fills the buffer that pack_size measured, to the byte.
THEOREM PackFillsBuffer == Spec => []PackFills
<1>1. IInv => PackFills
  BY DEF IInv, InStep, PackFills
<1> QED
  BY <1>1, InvariantHolds, PTL

\* Every checked operation, from a valid stream, stays in the buffer and leaves
\* the stream valid, but for the write whose length the check of write takes for a
\* negative number: that one goes past the end (datastream.hpp:64-117).
THEOREM AccessesAreInBounds == Spec => CheckedAccess
<1>. DEFINE Good == IF TakenForNegative(access') THEN ~Inside(access')
                    ELSE Inside(access') /\ Valid'
<1>1. ASSUME IInv, Next, Valid, access' # NoAccess
      PROVE  Good
  <2>0. /\ pos \in Address /\ end \in Address /\ start \in Address
        /\ start <= pos /\ pos <= end
    BY <1>1 DEF IInv, TypeOK, Valid
  <2>1. ASSUME NEW op, NEW n \in Address,
               access' = [op |-> op, at |-> pos, n |-> n], pos' = Advance(n),
               UNCHANGED <<start, end>>, pos + n <= end
        PROVE  Good
    <3>1. pos + n \in Address
      BY <2>0, <2>1, AddressAssumption DEF Address
    <3>2. pos' = pos + n
      BY <3>1, <2>1, WrapSmall DEF Advance
    <3>3. Inside(access') /\ Valid'
      BY <2>0, <2>1, <3>2 DEF Inside, Valid, Address
    <3>4. ~TakenForNegative(access')
      <4>1. Remaining >= n /\ n = access'.n
        BY <2>0, <2>1, RemainingIs DEF Address
      <4>2. QED  BY <2>0, <4>1, RemainingIs, HalfType DEF TakenForNegative, Address
    <3>5. QED  BY <3>3, <3>4
  <2>2. CASE Write
    <3>1. phase = "write" /\ status = "running" /\ next <= Len(calls)
      BY <2>2 DEF Write, Checked
    <3>2. /\ calls[next].n \in Address /\ pos + calls[next].n <= end
      BY <1>1, <3>1, BeforeCall
    <3>3. /\ access' = [op |-> "write", at |-> pos, n |-> calls[next].n]
          /\ pos' = Advance(calls[next].n) /\ UNCHANGED <<start, end>>
      BY <1>1, <2>2 DEF Write, Checked
    <3>. HIDE DEF Good
    <3> QED
      BY <2>1, <3>2, <3>3
  <2>3. ASSUME NEW op, Checked(op, ByteCheck, 1) PROVE Good
    <3>1. /\ 1 \in Address /\ access' = [op |-> op, at |-> pos, n |-> 1]
          /\ pos' = Advance(1) /\ UNCHANGED <<start, end>> /\ pos + 1 <= end
      BY <1>1, <2>0, <2>3, AddressAssumption DEF Checked, ByteCheck, Address
    <3>. HIDE DEF Good
    <3> QED
      BY <2>1, <3>1
  <2>4. CASE Put \/ Get \/ PutOwn
    <3>. HIDE DEF Good
    <3> QED
      BY <2>3, <2>4 DEF Put, Get, PutOwn
  <2>5. ASSUME NEW n \in Address, Read(n) PROVE Good
    <3>1. /\ access' = [op |-> "read", at |-> pos, n |-> n] /\ ReadCheck(n)
          /\ pos' = Advance(n) /\ UNCHANGED <<start, end>>
      BY <1>1, <2>5 DEF Read, Checked
    <3>2. pos + n <= end
      BY <1>1, <3>1, ReadFits DEF IInv
    <3>. HIDE DEF Good
    <3> QED
      BY <2>1, <3>1, <3>2
  <2>6. ASSUME NEW n \in Address, WriteOwn(n) PROVE Good
    <3>1. /\ access' = [op |-> "write", at |-> pos, n |-> n] /\ WriteCheck(n)
          /\ pos' = Advance(n) /\ UNCHANGED <<start, end>>
      BY <1>1, <2>6 DEF WriteOwn, Checked
    <3>2. CASE TakenForNegative(access')
      <4>1. n >= Half /\ end - pos < Half
        BY <2>0, <3>1, <3>2, RemainingIs DEF TakenForNegative
      <4>2. pos + n > end
        BY <2>0, <4>1, HalfType DEF Address
      <4>3. ~Inside(access')
        BY <2>0, <3>1, <4>2 DEF Inside, Address
      <4> QED
        BY <3>2, <4>3
    <3>3. CASE ~TakenForNegative(access')
      <4>1. Signed(end - pos) >= Signed(n) /\ ~(end - pos < Half /\ n >= Half)
        BY <2>0, <3>1, <3>3, RemainingIs DEF WriteCheck, TakenForNegative
      <4>2. n <= end - pos
        BY <2>0, <4>1, HalfType, AddressAssumption DEF Signed, Address
      <4>3. pos + n <= end
        BY <2>0, <4>2 DEF Address
      <4>. HIDE DEF Good
      <4> QED
        BY <2>1, <3>1, <4>3
    <3> QED
      BY <3>2, <3>3
  <2>7. CASE Packed \/ (\E n \in Address : Skip(n)) \/ (\E p \in Address : Seekp(p))
    BY <1>1, <2>7 DEF Packed, Skip, Seekp
  <2>8. CASE \/ \E op \in {"write", "put"}, n \in Address : Count(op, n)
             \/ \E address \in Address : Open(address)
             \/ Reopen
    BY <1>1, <2>8 DEF Count, Open, Reopen, IInv, InStep
  <2>. HIDE DEF Good
  <2> QED
    BY <1>1, <2>2, <2>4, <2>5, <2>6, <2>7, <2>8 DEF Next
<1>2. IInv /\ [Next]_vars => [Valid /\ access' # NoAccess => Good]_vars
  <2>. HIDE DEF Good
  <2> QED
    BY <1>1
<1> QED
  BY <1>2, InvariantHolds, PTL DEF Spec, CheckedAccess

-----------------------------------------------------------------------------
(* Induction and recursion, for the loops of varint.hpp *)

\* A set of natural numbers has a least one.
LEMMA LeastNat ==
    ASSUME NEW T, T \subseteq Nat, T # {}
    PROVE  \E x \in T : \A y \in T : x <= y
<1>. DEFINE R == OpToRel(<, Nat)
<1>1. \E x \in T : \A y \in T : ~(<<y, x>> \in R)
  <2>1. IsWellFoundedOn(R, Nat)
    BY NatLessThanWellFounded
  <2>. HIDE DEF R
  <2>2. QED  BY <2>1, WFMin
<1>2. \A x, y \in Nat : y < x => <<y, x>> \in R
  BY DEF OpToRel
<1>. HIDE DEF R
<1>3. PICK x \in T : \A y \in T : ~(<<y, x>> \in R)
  BY <1>1
<1>4. ASSUME NEW y \in T PROVE x <= y
  <2>1. x \in Nat /\ y \in Nat
    OBVIOUS
  <2>2. ~(y < x)
    BY <1>2, <1>3, <2>1
  <2>3. QED  BY <2>1, <2>2
<1>5. QED  BY <1>4

\* A set with 0 and the successors of its elements holds all natural numbers.
LEMMA Induct ==
    ASSUME NEW S, S \subseteq Nat, 0 \in S, \A n \in Nat : n \in S => n + 1 \in S
    PROVE  S = Nat
<1>1. SUFFICES ASSUME Nat \ S # {} PROVE FALSE
  OBVIOUS
<1>. DEFINE T == Nat \ S
<1>2. PICK x \in T : \A y \in T : x <= y
  <2>1. T \subseteq Nat /\ T # {}
    BY <1>1
  <2>. HIDE DEF T
  <2>2. QED  BY <2>1, LeastNat
<1>3. x \in Nat /\ x # 0 /\ x - 1 \in Nat /\ x = (x - 1) + 1 /\ ~(x <= x - 1)
  OBVIOUS
<1>4. x - 1 \in S
  BY <1>2, <1>3
<1>5. QED  BY <1>2, <1>3, <1>4

\* Each of the n functions in G maps X to X.
Closed(n, X, G) == \A k \in 1 .. n : \A x \in X : G[k][x] \in X

\* g starts with z and takes these steps.
Takes(g, n, X, z, G) ==
    g \in [0 .. n -> X] /\ g[0] = z /\ \A k \in 1 .. n : g[k] = G[k][g[k - 1]]

\* A function that is defined by recursion over 0 .. n exists: its values are in X,
\* and G[k] makes the one of k of the one before.
LEMMA Recursion ==
    ASSUME NEW n \in Nat, NEW X, NEW z \in X, NEW G, Closed(n, X, G)
    PROVE  \E g : Takes(g, n, X, z, G)
<1>. USE DEF Takes
<1>. DEFINE Makes(g, m) == Takes(g, m, X, z, G)
            S == {m \in Nat : m <= n => \E g : Makes(g, m)}
<1>1. 0 \in S
  <2>1. Makes([k \in 0 .. 0 |-> z], 0)
    OBVIOUS
  <2>2. QED  BY <2>1
<1>2. ASSUME NEW m \in Nat, m \in S PROVE m + 1 \in S
  <2>1. SUFFICES ASSUME m + 1 <= n PROVE \E g : Makes(g, m + 1)
    OBVIOUS
  <2>2. PICK g : Makes(g, m)
    BY <1>2, <2>1
  <2>. DEFINE more == [k \in 0 .. m + 1 |-> IF k <= m THEN g[k] ELSE G[m + 1][g[m]]]
  <2>3. m \in 0 .. m /\ m + 1 \in 1 .. n /\ m + 1 \in 0 .. m + 1 /\ ~(m + 1 <= m) /\ 0 \in 0 .. m
    BY <2>1
  <2>4. g[m] \in X
    BY <2>2, <2>3
  <2>5. G[m + 1][g[m]] \in X
    BY <2>3, <2>4 DEF Closed
  <2>6. more \in [0 .. m + 1 -> X]
    <3>1. ASSUME NEW k \in 0 .. m + 1, k <= m PROVE g[k] \in X
      <4>1. k \in 0 .. m
        BY <3>1
      <4>2. QED  BY <2>2, <4>1
    <3>2. QED  BY <2>5, <3>1
  <2>7. \A k \in 0 .. m : more[k] = g[k]
    OBVIOUS
  <2>8. more[m + 1] = G[m + 1][g[m]]
    BY <2>3
  <2>. HIDE DEF more
  <2>9. more[0] = z
    BY <2>2, <2>3, <2>7
  <2>10. ASSUME NEW k \in 1 .. m + 1 PROVE more[k] = G[k][more[k - 1]]
    <3>1. k - 1 \in 0 .. m
      OBVIOUS
    <3>2. CASE k = m + 1
      <4>1. k - 1 = m
        BY <3>2
      <4>2. QED  BY <2>3, <2>7, <2>8, <3>2, <4>1
    <3>3. CASE k \in 1 .. m
      <4>1. k \in 0 .. m
        BY <3>3
      <4>2. QED  BY <2>2, <2>7, <3>1, <3>3, <4>1
    <3>4. QED  BY <3>2, <3>3
  <2>11. Makes(more, m + 1)
    BY <2>6, <2>9, <2>10
  <2>12. QED  BY <2>11
<1>3. S \subseteq Nat
  OBVIOUS
<1>4. \E g : Makes(g, n)
  <2>. HIDE DEF S
  <2>1. S = Nat
    BY <1>1, <1>2, <1>3, Induct
  <2>2. QED  BY <2>1 DEF S
<1>5. QED  BY <1>4

-----------------------------------------------------------------------------
(* Variable-length integers *)

\* The shifts of a word by whole groups, as far as a bit for each of its own.
LEMMA Shifts ==
    /\ MaxShift \in Nat /\ PayloadBits \in Nat /\ PayloadBits >= 1 /\ WordBits \in Nat /\ WordBits >= 1
    /\ \A i \in 0 .. WordBits : PayloadBits * i \in 0 .. MaxShift
    /\ \A i \in 1 .. WordBits : PayloadBits * i = PayloadBits * (i - 1) + PayloadBits
    /\ WordBits <= MaxShift /\ PayloadBits <= MaxShift
<1>1. PayloadBits \in Nat /\ PayloadBits >= 1 /\ WordBits \in Nat /\ WordBits >= 1
  BY VarIntAssumption
<1>2. ASSUME NEW i \in 0 .. WordBits PROVE PayloadBits * i \in 0 .. MaxShift
  <2>1. PayloadBits * i \in Nat /\ PayloadBits * i <= PayloadBits * WordBits
    BY <1>1
  <2>2. PayloadBits * WordBits \in Nat
    BY <1>1
  <2>3. QED  BY <2>1, <2>2 DEF MaxShift
<1>3. ASSUME NEW i \in 1 .. WordBits PROVE PayloadBits * i = PayloadBits * (i - 1) + PayloadBits
  BY <1>1
<1>4. MaxShift \in Nat
  BY <1>1 DEF MaxShift
<1>5. WordBits <= MaxShift
  <2>1. 1 * WordBits <= PayloadBits * WordBits
    BY <1>1
  <2>2. QED  BY <1>1, <2>1 DEF MaxShift
<1>6. PayloadBits <= MaxShift
  <2>1. PayloadBits * 1 <= PayloadBits * WordBits
    BY <1>1
  <2>2. QED  BY <1>1, <2>1 DEF MaxShift
<1>7. QED  BY <1>1, <1>2, <1>3, <1>4, <1>5, <1>6

\* The powers are positive, and each is twice the one before.
LEMMA Powers ==
    /\ \A n \in 0 .. MaxShift : Pow2[n] \in Nat /\ Pow2[n] >= 1
    /\ Pow2[0] = 1
    /\ \A n \in 1 .. MaxShift : Pow2[n] = 2 * Pow2[n - 1]
<1>. DEFINE X == Nat \ {0}
            one == 1
            G == [k \in 1 .. MaxShift |-> [x \in X |-> 2 * x]]
            Solves(g) == g = [n \in 0 .. MaxShift |-> IF n = 0 THEN 1 ELSE 2 * g[n - 1]]
            v == CHOOSE g : Solves(g)
<1>0. MaxShift \in Nat
  BY Shifts
<1>1. \A k \in 1 .. MaxShift : \A x \in X : G[k][x] = 2 * x
  OBVIOUS
<1>2. PICK g : Takes(g, MaxShift, X, one, G)
  <2>1. Closed(MaxShift, X, G)
    BY <1>1 DEF Closed
  <2>2. one \in X
    OBVIOUS
  <2>. HIDE DEF G, X, one
  <2>3. QED  BY <1>0, <2>1, <2>2, Recursion
<1>. HIDE DEF G
<1>3. \A k \in 1 .. MaxShift : g[k] = 2 * g[k - 1]
  <2>. USE DEF Takes
  <2>1. ASSUME NEW k \in 1 .. MaxShift PROVE k - 1 \in 0 .. MaxShift
    BY <1>0
  <2>2. QED  BY <1>1, <1>2, <2>1
<1>4. Solves(g)
  <2>1. g = [n \in 0 .. MaxShift |-> g[n]]
    BY <1>2 DEF Takes
  <2>2. \A n \in 0 .. MaxShift : n = 0 \/ n \in 1 .. MaxShift
    BY <1>0
  <2>3. QED  BY <1>2, <1>3, <2>1, <2>2 DEF Takes
<1>5. Solves(v)
  <2>. HIDE DEF Solves
  <2>1. QED  BY <1>4
<1>6. Pow2 = v
  BY DEF Pow2
<1>. HIDE DEF v
<1>7. /\ v[0] = 1 /\ \A n \in 1 .. MaxShift : v[n] = 2 * v[n - 1]
  <2>1. 0 \in 0 .. MaxShift /\ \A n \in 1 .. MaxShift : n \in 0 .. MaxShift /\ n # 0
    BY <1>0
  <2>2. QED  BY <1>5, <2>1
<1>. DEFINE S == {n \in Nat : n <= MaxShift => v[n] \in Nat /\ v[n] >= 1}
<1>8. S = Nat
  <2>1. 0 \in S
    BY <1>7
  <2>2. ASSUME NEW n \in Nat, n \in S PROVE n + 1 \in S
    <3>1. CASE n + 1 <= MaxShift
      <4>1. n + 1 \in 1 .. MaxShift /\ (n + 1) - 1 = n /\ n <= MaxShift
        BY <1>0, <3>1
      <4>2. v[n + 1] = 2 * v[n]
        BY <1>7, <4>1
      <4>3. QED  BY <2>2, <4>1, <4>2
    <3>2. QED  BY <3>1
  <2>. HIDE DEF S
  <2>3. S \subseteq Nat
    BY DEF S
  <2>4. QED  BY <2>1, <2>2, <2>3, Induct
<1>9. ASSUME NEW n \in 0 .. MaxShift PROVE v[n] \in Nat /\ v[n] >= 1
  <2>1. n \in Nat /\ n <= MaxShift
    BY <1>0
  <2>2. QED  BY <1>8, <2>1
<1>10. QED  BY <1>6, <1>7, <1>9

\* The product of two powers.
LEMMA PowerSum ==
    ASSUME NEW m \in Nat, NEW n \in Nat, m + n <= MaxShift
    PROVE  Pow2[m + n] = Pow2[m] * Pow2[n]
<1>. DEFINE S == {k \in Nat : m + k <= MaxShift => Pow2[m + k] = Pow2[m] * Pow2[k]}
<1>1. S = Nat
  <2>1. 0 \in S
    <3>1. ASSUME m + 0 <= MaxShift PROVE Pow2[m] \in Nat
      BY <3>1, Powers, Shifts
    <3>2. m + 0 = m
      OBVIOUS
    <3>3. QED  BY <3>1, <3>2, Powers
  <2>2. ASSUME NEW k \in Nat, k \in S PROVE m + (k + 1) \in Nat /\ k + 1 \in S
    <3>1. CASE m + (k + 1) <= MaxShift
      <4>1. /\ k + 1 \in 1 .. MaxShift /\ m + (k + 1) \in 1 .. MaxShift /\ m + k <= MaxShift
            /\ (k + 1) - 1 = k /\ (m + (k + 1)) - 1 = m + k
            /\ m \in 0 .. MaxShift /\ k \in 0 .. MaxShift
        BY <3>1, Shifts
      <4>2. Pow2[m + k] = Pow2[m] * Pow2[k]
        BY <2>2, <4>1
      <4>3. Pow2[k + 1] = 2 * Pow2[k] /\ Pow2[m + (k + 1)] = 2 * Pow2[m + k]
        BY <4>1, Powers
      <4>4. Pow2[m] \in Nat /\ Pow2[k] \in Nat
        BY <4>1, Powers
      <4>5. Pow2[m + (k + 1)] = Pow2[m] * Pow2[k + 1]
        BY <4>2, <4>3, <4>4
      <4>6. QED  BY <4>5
    <3>2. QED  BY <3>1
  <2>. HIDE DEF S
  <2>3. S \subseteq Nat
    BY DEF S
  <2>4. QED  BY <2>1, <2>2, <2>3, Induct
<1>2. QED  BY <1>1

\* A higher power is not less.
LEMMA PowerOrder ==
    ASSUME NEW m \in Nat, NEW n \in Nat, m <= n, n <= MaxShift
    PROVE  Pow2[m] <= Pow2[n]
<1>. DEFINE a == Pow2[m]
            b == Pow2[n - m]
<1>1. n - m \in Nat /\ m + (n - m) = n /\ m + (n - m) <= MaxShift
      /\ m \in 0 .. MaxShift /\ n - m \in 0 .. MaxShift
  BY Shifts
<1>2. Pow2[m + (n - m)] = a * b
  BY <1>1, PowerSum
<1>3. a \in Nat /\ b \in Nat /\ b >= 1
  BY <1>1, Powers
<1>. HIDE DEF a, b
<1>4. a <= a * b
  BY <1>3
<1>5. QED  BY <1>1, <1>2, <1>4 DEF a

\* A quotient and a remainder that fit are the quotient and the remainder.
LEMMA Divided ==
    ASSUME NEW q \in Nat, NEW b \in Nat, NEW r \in Nat, r < b
    PROVE  (q * b + r) \div b = q /\ (q * b + r) % b = r
<1>1. (q * b + r) \div b = q
  OBVIOUS
<1>2. (q * b + r) % b = r
  OBVIOUS
<1>3. QED  BY <1>1, <1>2

\* A quotient and a remainder make the number.
LEMMA Division ==
    ASSUME NEW v \in Nat, NEW b \in Nat, b >= 1
    PROVE  v \div b \in Nat /\ v % b \in Nat /\ v % b < b /\ v = (v \div b) * b + (v % b)
<1>1. v \div b \in Nat /\ v % b \in Nat /\ v % b < b
  OBVIOUS
<1>2. v = (v \div b) * b + (v % b)
  OBVIOUS
<1>3. QED  BY <1>1, <1>2

\* What the lowest bit of group i counts, from 0 on.
Place(i) == Pow2[PayloadBits * i]
Modulus == Pow2[WordBits]

\* A group counts a whole byte's payload times the one before; a place whose shift is
\* not less than a word counts more than any word.
LEMMA Places ==
    /\ Payload \in Nat /\ Payload >= 2 /\ Modulus \in Nat /\ Modulus >= 2
    /\ Place(0) = 1 /\ Place(WordBits) >= Modulus
    /\ \A i \in 0 .. WordBits :
          /\ Place(i) \in Nat /\ Place(i) >= 1
          /\ PayloadBits * i >= WordBits => Place(i) >= Modulus
    /\ \A i \in 1 .. WordBits : Place(i) = Place(i - 1) * Payload
<1>1. PayloadBits * 0 = 0 /\ PayloadBits \in 1 .. MaxShift /\ WordBits \in 1 .. MaxShift
  BY Shifts
<1>2. ASSUME NEW n \in 1 .. MaxShift PROVE Pow2[n] \in Nat /\ Pow2[n] >= 2
  <2>1. n - 1 \in 0 .. MaxShift /\ n \in 0 .. MaxShift
    BY Shifts
  <2>2. Pow2[n] = 2 * Pow2[n - 1] /\ Pow2[n - 1] \in Nat /\ Pow2[n - 1] >= 1
    BY <2>1, Powers
  <2>3. QED  BY <2>2
<1>3. Payload \in Nat /\ Payload >= 2 /\ Modulus \in Nat /\ Modulus >= 2 /\ Place(0) = 1
  BY <1>1, <1>2, Powers DEF Payload, Modulus, Place
<1>4. ASSUME NEW i \in 0 .. WordBits
      PROVE  /\ Place(i) \in Nat /\ Place(i) >= 1
             /\ PayloadBits * i >= WordBits => Place(i) >= Modulus
  <2>. DEFINE n == PayloadBits * i
  <2>1. n \in 0 .. MaxShift /\ WordBits \in Nat
    BY Shifts
  <2>. HIDE DEF n
  <2>2. Pow2[n] \in Nat /\ Pow2[n] >= 1
    BY <2>1, Powers
  <2>3. ASSUME n >= WordBits PROVE Pow2[WordBits] <= Pow2[n]
    <3>1. WordBits \in Nat /\ n \in Nat /\ WordBits <= n /\ n <= MaxShift
      BY <2>1, <2>3, Shifts
    <3>2. QED  BY <3>1, PowerOrder
  <2>4. n >= WordBits => Pow2[n] >= Pow2[WordBits]
    BY <1>3, <2>2, <2>3 DEF Modulus
  <2>5. QED  BY <2>2, <2>4 DEF n, Place, Modulus
<1>5. Place(WordBits) >= Modulus
  <2>1. WordBits \in 0 .. WordBits /\ PayloadBits * WordBits >= WordBits
    BY Shifts DEF MaxShift
  <2>2. QED  BY <1>4, <2>1
<1>6. ASSUME NEW i \in 1 .. WordBits PROVE Place(i) = Place(i - 1) * Payload
  <2>. DEFINE n == PayloadBits * (i - 1)
  <2>1. i - 1 \in 0 .. WordBits /\ i \in 0 .. WordBits
    BY Shifts
  <2>2. n \in Nat /\ n + PayloadBits = PayloadBits * i /\ n + PayloadBits <= MaxShift
    BY <2>1, Shifts
  <2>. HIDE DEF n
  <2>3. PayloadBits \in Nat
    BY Shifts
  <2>4. Pow2[n + PayloadBits] = Pow2[n] * Pow2[PayloadBits]
    BY <2>2, <2>3, PowerSum
  <2>5. QED  BY <2>2, <2>4 DEF n, Place, Payload
<1>7. QED  BY <1>3, <1>4, <1>5, <1>6

\* A word in groups: what is left after i of them, and the group that is shifted out.
LEMMA Grouped ==
    ASSUME NEW n \in Word
    PROVE  /\ n \in Nat /\ n < Modulus /\ Left(n, 0) = n
           /\ \A i \in 0 .. WordBits :
                 /\ Left(n, i) \in Nat
                 /\ Left(n, i) = 0 <=> n < Place(i)
                 /\ n = Left(n, i) * Place(i) + (n % Place(i))
                 /\ n % Place(i) \in Nat /\ n % Place(i) < Place(i)
           /\ \A i \in 1 .. WordBits :
                 /\ Left(n, i - 1) = Left(n, i) * Payload + (Left(n, i - 1) % Payload)
                 /\ Left(n, i - 1) % Payload \in Nat /\ Left(n, i - 1) % Payload < Payload
<1>1. n \in Nat /\ n < Modulus
  BY Places DEF Word, Modulus
<1>2. Left(n, 0) = n
  <2>1. n \div 1 = n
    BY <1>1
  <2>2. QED  BY <2>1, Places DEF Left, Place
<1>3. ASSUME NEW i \in 0 .. WordBits
      PROVE  /\ Left(n, i) \in Nat
             /\ Left(n, i) = 0 <=> n < Place(i)
             /\ n = Left(n, i) * Place(i) + (n % Place(i))
             /\ n % Place(i) \in Nat /\ n % Place(i) < Place(i)
  <2>. DEFINE b == Place(i)
              q == Left(n, i)
              r == n % b
  <2>1. b \in Nat /\ b >= 1
    BY Places
  <2>2. q = n \div b
    BY DEF Left, Place
  <2>. HIDE DEF b
  <2>3. n \div b \in Nat /\ r \in Nat /\ r < b /\ n = (n \div b) * b + r
    BY <1>1, <2>1, Division
  <2>. HIDE DEF q, r
  <2>4. q = 0 => n < b
    <3>1. 0 * b = 0
      BY <2>1
    <3>2. QED  BY <2>2, <2>3, <3>1
  <2>5. q # 0 => ~(n < b)
    <3>0. q \in Nat
      BY <2>2, <2>3
    <3>1. q # 0 => q * b >= b
      <4>1. q # 0 => q * b >= 1 * b
        BY <2>1, <3>0
      <4>2. QED  BY <2>1, <4>1
    <3>2. q * b \in Nat
      BY <2>1, <2>2, <2>3
    <3>. DEFINE x == q * b
    <3>3. q # 0 => x >= b
      BY <3>1
    <3>4. x \in Nat /\ n = x + r
      BY <2>2, <2>3, <3>2
    <3>. HIDE DEF x
    <3>5. QED  BY <1>1, <2>1, <2>3, <3>3, <3>4
  <2>6. QED  BY <2>2, <2>3, <2>4, <2>5 DEF b, q, r
<1>4. ASSUME NEW i \in 1 .. WordBits
      PROVE  /\ Left(n, i - 1) = Left(n, i) * Payload + (Left(n, i - 1) % Payload)
             /\ Left(n, i - 1) % Payload \in Nat /\ Left(n, i - 1) % Payload < Payload
  <2>. DEFINE a == Place(i - 1)
              p == Payload
              x == Left(n, i - 1)
  <2>1. i - 1 \in 0 .. WordBits
    BY Shifts
  <2>2. a \in Nat /\ a >= 1 /\ p \in Nat /\ p >= 1 /\ Place(i) = a * p /\ x \in Nat
    BY <1>3, <2>1, Places
  <2>3. Left(n, i) = n \div (a * p) /\ x = n \div a
    BY <2>2 DEF Left, Place
  <2>. HIDE DEF a, p, x
  <2>4. (n \div a) \div p = n \div (a * p)
    BY <1>1, <2>2
  <2>5. x \div p = Left(n, i)
    BY <2>3, <2>4
  <2>6. x % p \in Nat /\ x % p < p /\ x = (x \div p) * p + (x % p)
    BY <2>2, Division
  <2>7. QED  BY <2>5, <2>6 DEF x, p
<1>5. QED  BY <1>1, <1>2, <1>3, <1>4

\* The number of bytes that a word takes.
TakesBytes(n, l) == l \in 1 .. WordBits /\ Left(n, l) = 0 /\ \A j \in 1 .. l - 1 : Left(n, j) # 0

\* There is one, and pack writes that many (varint.hpp:207-215).
LEMMA PackedIs ==
    ASSUME NEW n \in Word
    PROVE  \E l : /\ TakesBytes(n, l)
                  /\ PackVar(n) =
                        [i \in 1 .. l |-> (Left(n, i - 1) % Payload) + ContinueBit(Left(n, i))]
<1>. DEFINE T == {i \in Nat : i >= 1 /\ i <= WordBits /\ Left(n, i) = 0}
            len == CHOOSE i \in 1 .. WordBits :
                      Left(n, i) = 0 /\ \A j \in 1 .. i - 1 : Left(n, j) # 0
<1>1. WordBits \in T
  <2>1. WordBits \in Nat /\ WordBits >= 1 /\ WordBits \in 0 .. WordBits
    BY Shifts
  <2>2. n < Place(WordBits)
    <3>1. n \in Nat /\ n < Modulus /\ Place(WordBits) \in Nat /\ Modulus \in Nat
          /\ Place(WordBits) >= Modulus
      BY <2>1, Grouped, Places
    <3>2. QED  BY <3>1
  <2>3. Left(n, WordBits) = 0
    BY <2>1, <2>2, Grouped
  <2>4. QED  BY <2>1, <2>3
<1>2. T \subseteq Nat
  OBVIOUS
<1>3. \E x \in T : \A y \in T : x <= y
  <2>. HIDE DEF T
  <2>1. T # {}
    BY <1>1
  <2>2. QED  BY <1>2, <2>1, LeastNat
<1>4. PICK x \in T : \A y \in T : x <= y
  BY <1>3
<1>5. TakesBytes(n, x)
  <2>1. x \in 1 .. WordBits /\ Left(n, x) = 0
    BY Shifts
  <2>2. ASSUME NEW j \in 1 .. x - 1, Left(n, j) = 0 PROVE FALSE
    <3>1. j \in Nat /\ j >= 1 /\ j <= WordBits /\ ~(x <= j)
      BY <2>1, Shifts
    <3>2. j \in T
      BY <2>2, <3>1
    <3>3. QED  BY <1>4, <3>1, <3>2
  <2>3. QED  BY <2>1, <2>2 DEF TakesBytes
<1>6. TakesBytes(n, len)
  BY <1>5 DEF TakesBytes
<1>7. PackVar(n) = [i \in 1 .. len |-> (Left(n, i - 1) % Payload) + ContinueBit(Left(n, i))]
  BY DEF PackVar
<1>. HIDE DEF len
<1>8. QED  BY <1>6, <1>7

\* The last byte is the only one below the continue bit, and each holds its group.
LEMMA PackedBytes ==
    ASSUME NEW n \in Word, NEW l, TakesBytes(n, l),
           PackVar(n) = [i \in 1 .. l |-> (Left(n, i - 1) % Payload) + ContinueBit(Left(n, i))]
    PROVE  /\ PackVar(n) \in Seq(Byte) /\ Len(PackVar(n)) = l
           /\ \A i \in 1 .. l :
                 /\ PackVar(n)[i] < Payload <=> i = l
                 /\ PackVar(n)[i] % Payload = Left(n, i - 1) % Payload
                 /\ PackVar(n)[i] \in Byte
<1>. DEFINE b == PackVar(n)
<1>1. l \in Nat /\ l >= 1 /\ l <= WordBits
  BY Shifts DEF TakesBytes
<1>2. ASSUME NEW i \in 1 .. l
      PROVE  /\ b[i] < Payload <=> i = l
             /\ b[i] % Payload = Left(n, i - 1) % Payload
             /\ b[i] \in Byte
  <2>. DEFINE x == Left(n, i - 1) % Payload
              c == ContinueBit(Left(n, i))
              p == Payload
  <2>1. b[i] = x + c
    OBVIOUS
  <2>2. i \in 1 .. WordBits /\ i \in 0 .. WordBits
    BY <1>1, Shifts
  <2>3. x \in Nat /\ x < p /\ Left(n, i) \in Nat /\ p \in Nat /\ p >= 2
    BY <2>2, Grouped, Places
  <2>4. Left(n, i) = 0 <=> i = l
    <3>1. i # l => i \in 1 .. l - 1
      BY <1>1
    <3>2. QED  BY <3>1 DEF TakesBytes
  <2>5. c = IF i = l THEN 0 ELSE p
    BY <2>3, <2>4 DEF ContinueBit
  <2>. HIDE DEF b, x, c, p
  <2>6. x % p = x /\ (x + p) % p = x
    <3>1. 0 * p + x = x /\ 1 * p + x = x + p
      BY <2>3
    <3>2. (0 * p + x) % p = x /\ (1 * p + x) % p = x
      BY <2>3, Divided
    <3>3. QED  BY <3>1, <3>2
  <2>7. (b[i] < p <=> i = l) /\ b[i] % p = x /\ b[i] \in 0 .. 2 * p - 1
    <3>1. CASE i = l
      <4>1. b[i] = x
        BY <2>1, <2>3, <2>5, <3>1
      <4>2. QED  BY <2>3, <2>6, <3>1, <4>1
    <3>2. CASE i # l
      <4>1. b[i] = x + p
        BY <2>1, <2>3, <2>5, <3>2
      <4>2. QED  BY <2>3, <2>6, <3>2, <4>1
    <3>3. QED  BY <3>1, <3>2
  <2>8. QED  BY <2>7 DEF p, x, Byte
<1>3. b \in [1 .. l -> Byte]
  <2>1. \A i \in 1 .. l : b[i] \in Byte
    BY <1>2
  <2>2. b = [i \in 1 .. l |-> b[i]]
    OBVIOUS
  <2>. HIDE DEF b
  <2>3. QED  BY <2>1, <2>2
<1>. HIDE DEF b
<1>4. b \in Seq(Byte) /\ Len(b) = l
  BY <1>1, <1>3
<1>5. QED  BY <1>2, <1>4 DEF b

\* What reading has summed up after each byte (varint.hpp:231-235).
SumsUp(s, bytes, n) ==
    s \in [0 .. n -> Nat] /\ s[0] = 0
    /\ \A i \in 1 .. n : s[i] = s[i - 1] + (bytes[i] % Payload) * Place(i - 1)

\* Byte n is the first without the continue bit.
EndsAt(bytes, n) ==
    n \in 1 .. Len(bytes) /\ bytes[n] < Payload /\ \A j \in 1 .. n - 1 : ~(bytes[j] < Payload)

\* There is one sum.
LEMMA OneSum ==
    ASSUME NEW n \in Nat, NEW bytes, NEW s, SumsUp(s, bytes, n),
           NEW f, f = [i \in 0 .. n |->
                         IF i = 0 THEN 0
                         ELSE f[i - 1] + (bytes[i] % Payload) * Pow2[PayloadBits * (i - 1)]]
    PROVE  f[n] = s[n]
<1>. DEFINE S == {k \in Nat : k <= n => f[k] = s[k]}
<1>1. S = Nat
  <2>1. 0 \in S
    BY DEF SumsUp
  <2>2. ASSUME NEW k \in Nat, k \in S PROVE k + 1 \in S
    <3>1. SUFFICES ASSUME k + 1 <= n PROVE f[k + 1] = s[k + 1]
      OBVIOUS
    <3>2. k + 1 \in 0 .. n /\ k + 1 \in 1 .. n /\ k + 1 # 0 /\ (k + 1) - 1 = k /\ k <= n
      BY <3>1
    <3>3. f[k + 1] = f[k] + (bytes[k + 1] % Payload) * Place(k)
      BY <3>2 DEF Place
    <3>4. s[k + 1] = s[k] + (bytes[k + 1] % Payload) * Place(k)
      BY <3>2 DEF SumsUp
    <3>5. f[k] = s[k]
      BY <2>2, <3>2
    <3>6. QED  BY <3>3, <3>4, <3>5
  <2>. HIDE DEF S
  <2>3. S \subseteq Nat
    BY DEF S
  <2>4. QED  BY <2>1, <2>2, <2>3, Induct
<1>2. n \in S
  BY <1>1
<1>3. QED  BY <1>2

\* What reading gives, by where the integer ends (varint.hpp:227-237).
LEMMA ReadIs ==
    ASSUME NEW bytes \in Seq(Byte), NEW n, EndsAt(bytes, n)
    PROVE  /\ PayloadBits * (n - 1) >= WordBits =>
                 ReadVar(bytes) = {[v |-> v, rest |-> SubSeq(bytes, n + 1, Len(bytes))] : v \in Word}
           /\ \A s : SumsUp(s, bytes, n) /\ ~(PayloadBits * (n - 1) >= WordBits) =>
                 ReadVar(bytes) = {[v |-> s[n] % Modulus, rest |-> SubSeq(bytes, n + 1, Len(bytes))]}
<1>. DEFINE last == {i \in DOMAIN bytes : bytes[i] < Payload}
            m == CHOOSE i \in last : \A j \in last : i <= j
            Solves(f) == f = [i \in 0 .. m |->
                                IF i = 0 THEN 0
                                ELSE f[i - 1] + (bytes[i] % Payload) * Pow2[PayloadBits * (i - 1)]]
            sum == CHOOSE f : Solves(f)
            values == IF PayloadBits * (m - 1) >= WordBits THEN Word ELSE {sum[m] % Pow2[WordBits]}
<1>1. ReadVar(bytes) = IF last = {} THEN {}
                       ELSE {[v |-> v, rest |-> SubSeq(bytes, m + 1, Len(bytes))] : v \in values}
  BY DEF ReadVar
<1>2. DOMAIN bytes = 1 .. Len(bytes) /\ Len(bytes) \in Nat
  OBVIOUS
<1>3. n \in last /\ n \in Nat /\ n >= 1
  BY <1>2 DEF EndsAt
<1>4. \A j \in last : n <= j
  <2>1. ASSUME NEW j \in last PROVE n <= j
    <3>1. j \in Nat /\ j >= 1 /\ bytes[j] < Payload
      BY <1>2
    <3>2. ~(n <= j) => j \in 1 .. n - 1
      BY <1>3, <3>1
    <3>3. QED  BY <3>1, <3>2 DEF EndsAt
  <2>2. QED  BY <2>1
<1>5. \A j \in last : j \in Nat
  BY <1>2
<1>6. m = n
  <2>. HIDE DEF last
  <2>1. m \in last /\ \A j \in last : m <= j
    BY <1>3, <1>4
  <2>2. m \in Nat /\ m <= n /\ n <= m
    BY <1>3, <1>4, <1>5, <2>1
  <2>. HIDE DEF m
  <2>3. QED  BY <1>3, <2>2
<1>7. last # {}
  BY <1>3
<1>. HIDE DEF last, m
<1>8. ReadVar(bytes) = {[v |-> v, rest |-> SubSeq(bytes, n + 1, Len(bytes))] : v \in values}
  BY <1>1, <1>6, <1>7
<1>9. PayloadBits * (n - 1) >= WordBits => values = Word
  BY <1>6
<1>10. ASSUME NEW s, SumsUp(s, bytes, n), ~(PayloadBits * (n - 1) >= WordBits)
       PROVE  values = {s[n] % Modulus}
  <2>1. values = {sum[n] % Modulus}
    BY <1>6, <1>10 DEF Modulus
  <2>. DEFINE f == [i \in 0 .. n |-> s[i]]
  <2>2. Solves(s)
    <3>1. s = [i \in 0 .. n |-> s[i]] /\ s[0] = 0
      BY <1>10 DEF SumsUp
    <3>2. ASSUME NEW i \in 0 .. n
          PROVE  s[i] = IF i = 0 THEN 0
                        ELSE s[i - 1] + (bytes[i] % Payload) * Pow2[PayloadBits * (i - 1)]
      <4>1. i = 0 \/ i \in 1 .. n
        BY <1>3
      <4>2. i \in 1 .. n => i # 0
        OBVIOUS
      <4>3. QED  BY <1>10, <3>1, <4>1, <4>2 DEF SumsUp, Place
    <3>3. QED  BY <1>6, <3>1, <3>2
  <2>3. Solves(sum)
    <3>. HIDE DEF Solves
    <3>1. QED  BY <2>2
  <2>4. sum[n] = s[n]
    <3>. HIDE DEF sum
    <3>1. sum = [i \in 0 .. n |->
                    IF i = 0 THEN 0
                    ELSE sum[i - 1] + (bytes[i] % Payload) * Pow2[PayloadBits * (i - 1)]]
      BY <1>6, <2>3
    <3>. HIDE DEF Solves
    <3>2. QED  BY <1>3, <1>10, <3>1, OneSum
  <2>. HIDE DEF sum
  <2>5. QED  BY <2>1, <2>4
<1>. HIDE DEF values
<1>11. QED  BY <1>8, <1>9, <1>10

\* Without an end there is nothing to return: a check stops the contract.
LEMMA ReadNothing ==
    ASSUME NEW bytes, \A i \in DOMAIN bytes : ~(bytes[i] < Payload)
    PROVE  ReadVar(bytes) = {}
BY DEF ReadVar

\* What operator<< writes of an unsigned_int, operator>> reads back, whatever follows it,
\* for every width of words and bytes (varint.hpp:206-237).
THEOREM UnsignedReadsBack ==
    \A n \in Word : \A tail \in Seq(Byte) :
        ReadVar(PackVar(n) \o tail) = {[v |-> n, rest |-> tail]}
<1>. SUFFICES ASSUME NEW n \in Word, NEW tail \in Seq(Byte)
              PROVE  ReadVar(PackVar(n) \o tail) = {[v |-> n, rest |-> tail]}
  OBVIOUS
<1>. DEFINE b == PackVar(n)
            all == b \o tail
<1>1. PICK l : /\ TakesBytes(n, l)
               /\ b = [i \in 1 .. l |-> (Left(n, i - 1) % Payload) + ContinueBit(Left(n, i))]
  BY PackedIs
<1>2. /\ l \in Nat /\ l >= 1 /\ l \in 1 .. WordBits /\ l - 1 \in 0 .. WordBits
      /\ l \in 0 .. WordBits /\ l \in 1 .. l
  BY <1>1, Shifts DEF TakesBytes
<1>3. /\ b \in Seq(Byte) /\ Len(b) = l
      /\ \A i \in 1 .. l : (b[i] < Payload <=> i = l) /\ b[i] % Payload = Left(n, i - 1) % Payload
  BY <1>1, PackedBytes
<1>. HIDE DEF b
<1>4. all \in Seq(Byte) /\ Len(all) = l + Len(tail) /\ Len(tail) \in Nat
      /\ \A i \in 1 .. l : all[i] = b[i]
  BY <1>2, <1>3
<1>5. SubSeq(all, l + 1, Len(all)) = tail
  BY <1>2, <1>3, <1>4
<1>. HIDE DEF all
<1>6. EndsAt(all, l)
  <2>1. l \in 1 .. Len(all)
    BY <1>2, <1>4
  <2>2. all[l] < Payload
    BY <1>2, <1>3, <1>4
  <2>3. ASSUME NEW j \in 1 .. l - 1 PROVE ~(all[j] < Payload)
    <3>1. j \in 1 .. l /\ j # l
      BY <1>2
    <3>2. QED  BY <1>3, <1>4, <3>1
  <2>4. QED  BY <2>1, <2>2, <2>3 DEF EndsAt
<1>. DEFINE s == [k \in 0 .. l |-> n % Place(k)]
<1>7. SumsUp(s, all, l)
  <2>1. ASSUME NEW k \in 0 .. l PROVE n % Place(k) \in Nat
    <3>1. k \in 0 .. WordBits
      BY <1>2, Shifts
    <3>2. QED  BY <3>1, Grouped
  <2>2. s \in [0 .. l -> Nat]
    BY <2>1
  <2>3. s[0] = 0
    <3>1. n \in Nat
      BY Grouped
    <3>2. n % 1 = 0
      BY <3>1
    <3>3. 0 \in 0 .. l
      BY <1>2
    <3>4. QED  BY <3>2, <3>3, Places
  <2>4. ASSUME NEW k \in 1 .. l
        PROVE  s[k] = s[k - 1] + (all[k] % Payload) * Place(k - 1)
    <3>. DEFINE q == Left(n, k)
                a == Place(k - 1)
                p == Payload
                g == Left(n, k - 1) % p
                r == n % a
    <3>1. k \in 1 .. WordBits /\ k \in 0 .. WordBits /\ k - 1 \in 0 .. WordBits
          /\ k \in 0 .. l /\ k - 1 \in 0 .. l
      BY <1>2, Shifts
    <3>2. /\ n = Left(n, k - 1) * a + r /\ r \in Nat /\ r < a /\ q \in Nat /\ n \in Nat
          /\ Left(n, k - 1) = q * p + g /\ g \in Nat /\ g < p
      BY <3>1, Grouped
    <3>3. a \in Nat /\ p \in Nat /\ Place(k) = a * p
      BY <3>1, Places
    <3>4. all[k] % p = g
      BY <1>3, <1>4
    <3>5. s[k] = n % Place(k) /\ s[k - 1] = r
      BY <3>1
    <3>. HIDE DEF q, a, p, g, r, s
    <3>6. n = (q * p + g) * a + r
      BY <3>2
    <3>7. (q * p + g) * a = q * (a * p) + g * a
      BY <3>2, <3>3
    <3>. DEFINE y == g * a + r
                m == a * p
    <3>8. g * a + a <= m
      <4>1. (g + 1) * a <= p * a
        BY <3>2, <3>3
      <4>2. (g + 1) * a = g * a + a /\ p * a = a * p
        BY <3>2, <3>3
      <4>3. QED  BY <4>1, <4>2
    <3>9. g * a \in Nat /\ m \in Nat
      BY <3>2, <3>3
    <3>10. y \in Nat /\ y < m
      <4>. DEFINE z == g * a
      <4>1. z \in Nat /\ z + a <= m
        BY <3>8, <3>9
      <4>. HIDE DEF z, m
      <4>2. z + r \in Nat /\ z + r < m
        BY <3>2, <3>3, <3>9, <4>1
      <4>3. QED  BY <4>2 DEF z
    <3>11. n = q * m + y
      <4>1. q * m \in Nat /\ g * a \in Nat
        BY <3>2, <3>9
      <4>2. n = (q * m + g * a) + r
        BY <3>6, <3>7
      <4>3. QED  BY <3>2, <4>1, <4>2
    <3>. HIDE DEF y, m
    <3>12. n % m = y
      BY <3>2, <3>9, <3>10, <3>11, Divided
    <3>13. s[k] = g * a + r
      BY <3>3, <3>5, <3>12 DEF m, y
    <3>14. s[k] = r + g * a
      BY <3>2, <3>9, <3>13
    <3>15. QED  BY <3>4, <3>5, <3>14 DEF p, a
  <2>. HIDE DEF s
  <2>5. QED  BY <2>2, <2>3, <2>4 DEF SumsUp
<1>8. s[l] = n /\ n % Modulus = n
  <2>1. n < Place(l) /\ n \in Nat /\ n < Modulus /\ Place(l) \in Nat /\ Modulus \in Nat
    BY <1>1, <1>2, Grouped, Places DEF TakesBytes
  <2>2. n % Place(l) = n /\ n % Modulus = n
    BY <2>1
  <2>3. s[l] = n % Place(l)
    BY <1>2
  <2>4. QED  BY <2>2, <2>3
<1>9. ~(PayloadBits * (l - 1) >= WordBits)
  <2>1. CASE l = 1
    <3>1. l - 1 = 0 /\ PayloadBits * 0 = 0
      BY <2>1, Shifts
    <3>2. QED  BY <3>1, Shifts
  <2>2. CASE l # 1
    <3>1. l - 1 \in 1 .. l - 1
      BY <1>2, <2>2
    <3>2. ~(n < Place(l - 1))
      BY <1>1, <1>2, <3>1, Grouped DEF TakesBytes
    <3>3. n \in Nat /\ n < Modulus /\ Place(l - 1) \in Nat /\ Modulus \in Nat
      BY <1>2, Grouped, Places
    <3>4. ~(Place(l - 1) >= Modulus)
      BY <3>2, <3>3
    <3>5. QED  BY <1>2, <3>4, Places
  <2>3. QED  BY <2>1, <2>2
<1>. HIDE DEF s
<1>10. ReadVar(all) = {[v |-> s[l] % Modulus, rest |-> SubSeq(all, l + 1, Len(all))]}
  BY <1>4, <1>6, <1>7, <1>9, ReadIs
<1>11. QED  BY <1>5, <1>8, <1>10 DEF all, b

\* An unsigned_int that has lost its tail is never taken for another one: reading it runs
\* out of bytes (varint.hpp:230-235).
THEOREM CutNoticed ==
    \A n \in Word : \A m \in 0 .. Len(PackVar(n)) - 1 : ReadVar(SubSeq(PackVar(n), 1, m)) = {}
<1>. SUFFICES ASSUME NEW n \in Word, NEW m \in 0 .. Len(PackVar(n)) - 1
              PROVE  ReadVar(SubSeq(PackVar(n), 1, m)) = {}
  OBVIOUS
<1>. DEFINE b == PackVar(n)
            cut == SubSeq(b, 1, m)
<1>1. PICK l : /\ TakesBytes(n, l)
               /\ b = [i \in 1 .. l |-> (Left(n, i - 1) % Payload) + ContinueBit(Left(n, i))]
  BY PackedIs
<1>2. b \in Seq(Byte) /\ Len(b) = l /\ \A i \in 1 .. l : (b[i] < Payload <=> i = l)
  BY <1>1, PackedBytes
<1>3. l \in Nat /\ m \in Nat /\ m <= l - 1
  BY <1>1, <1>2, Shifts DEF TakesBytes
<1>. HIDE DEF b
<1>4. DOMAIN cut = 1 .. m /\ \A i \in 1 .. m : cut[i] = b[i]
  BY <1>2, <1>3
<1>5. ASSUME NEW i \in DOMAIN cut PROVE ~(cut[i] < Payload)
  <2>1. i \in 1 .. m /\ i \in 1 .. l /\ i # l
    BY <1>3, <1>4
  <2>2. QED  BY <1>2, <1>4, <2>1
<1>. HIDE DEF cut
<1>6. ReadVar(cut) = {}
  BY <1>5, ReadNothing
<1>7. QED  BY <1>6 DEF cut, b

\* What was read of n bytes has a sum below what the next group would count.
LEMMA SumBelow ==
    ASSUME NEW bytes \in Seq(Byte), NEW n \in 1 .. Len(bytes), n <= WordBits
    PROVE  \E s : SumsUp(s, bytes, n) /\ s[n] < Place(n)
<1>. DEFINE g == [k \in 1 .. n |-> bytes[k] % Payload]
            G == [k \in 1 .. n |-> [x \in Nat |-> x + g[k] * Place(k - 1)]]
            zero == 0
<1>0. Len(bytes) \in Nat
  OBVIOUS
<1>1. n \in Nat /\ n >= 1 /\ n <= Len(bytes) /\ WordBits \in Nat
  BY <1>0, Shifts
<1>2. ASSUME NEW k \in 1 .. n
      PROVE  /\ g[k] \in Nat /\ g[k] < Payload
             /\ Place(k - 1) \in Nat /\ Place(k) \in Nat /\ Place(k) = Place(k - 1) * Payload
             /\ Payload \in Nat
             /\ g[k] * Place(k - 1) \in Nat
  <2>0. k \in Nat /\ k >= 1 /\ k <= WordBits /\ k <= Len(bytes)
    BY <1>0, <1>1
  <2>1. k \in 1 .. WordBits /\ k \in 0 .. WordBits /\ k - 1 \in 0 .. WordBits /\ k \in 1 .. Len(bytes)
    BY <1>0, <1>1, <2>0
  <2>2. bytes[k] \in Nat
    <3>1. bytes[k] \in Byte
      BY <2>1
    <3>2. \A x \in Byte : x \in Nat
      BY Places DEF Byte
    <3>3. QED  BY <3>1, <3>2
  <2>3. bytes[k] % Payload \in Nat /\ bytes[k] % Payload < Payload
    BY <2>2, Places
  <2>4. g[k] = bytes[k] % Payload
    OBVIOUS
  <2>5. Place(k - 1) \in Nat /\ Place(k) \in Nat /\ Place(k) = Place(k - 1) * Payload /\ Payload \in Nat
    BY <2>1, Places
  <2>. HIDE DEF g
  <2>6. g[k] * Place(k - 1) \in Nat
    BY <2>3, <2>4, <2>5
  <2>7. QED  BY <2>3, <2>4, <2>5, <2>6
<1>3. \A k \in 1 .. n : g[k] = bytes[k] % Payload
  OBVIOUS
<1>4. \A k \in 1 .. n : \A x \in Nat : G[k][x] = x + g[k] * Place(k - 1)
  OBVIOUS
<1>. HIDE DEF g
<1>5. Closed(n, Nat, G)
  <2>1. ASSUME NEW k \in 1 .. n, NEW x \in Nat PROVE G[k][x] \in Nat
    <3>. DEFINE y == g[k] * Place(k - 1)
    <3>1. y \in Nat
      BY <1>2
    <3>2. G[k][x] = x + y
      BY <1>4
    <3>. HIDE DEF y, G
    <3>3. QED  BY <3>1, <3>2
  <2>. HIDE DEF G
  <2>2. QED  BY <2>1 DEF Closed
<1>. HIDE DEF G
<1>6. PICK s : Takes(s, n, Nat, zero, G)
  <2>1. zero \in Nat
    OBVIOUS
  <2>. HIDE DEF zero
  <2>2. QED  BY <1>1, <1>5, <2>1, Recursion
<1>7. s \in [0 .. n -> Nat] /\ s[0] = 0 /\ \A k \in 1 .. n : s[k] = s[k - 1] + g[k] * Place(k - 1)
  <2>1. s \in [0 .. n -> Nat] /\ s[0] = 0 /\ \A k \in 1 .. n : s[k] = G[k][s[k - 1]]
    BY <1>6 DEF Takes
  <2>2. \A k \in 1 .. n : s[k - 1] \in Nat
    <3>1. \A k \in 1 .. n : k - 1 \in 0 .. n
      BY <1>1
    <3>2. QED  BY <2>1, <3>1
  <2>3. QED  BY <1>4, <2>1, <2>2
<1>8. SumsUp(s, bytes, n)
  BY <1>3, <1>7 DEF SumsUp
<1>. DEFINE S == {k \in Nat : k <= n => s[k] < Place(k)}
<1>9. S = Nat
  <2>1. 0 \in S
    BY <1>7, Places
  <2>2. ASSUME NEW k \in Nat, k \in S PROVE k + 1 \in S
    <3>1. SUFFICES ASSUME k + 1 <= n PROVE s[k + 1] < Place(k + 1)
      OBVIOUS
    <3>2. k + 1 \in 1 .. n /\ (k + 1) - 1 = k /\ k <= n /\ k \in 0 .. n
      BY <1>1, <3>1
    <3>. DEFINE a == Place(k)
                c == g[k + 1]
                x == s[k]
    <3>3. /\ c \in Nat /\ c < Payload /\ a \in Nat /\ Payload \in Nat
          /\ Place(k + 1) = a * Payload
      BY <1>2, <3>2
    <3>4. x \in Nat /\ x < a /\ s[k + 1] = x + c * a
      BY <1>7, <2>2, <3>2
    <3>. HIDE DEF a, c, x
    <3>5. (c + 1) * a <= Payload * a
      BY <3>3
    <3>6. (c + 1) * a = c * a + a /\ Payload * a = a * Payload /\ c * a \in Nat /\ a * Payload \in Nat
      BY <3>3
    <3>. DEFINE y == c * a
                z == a * Payload
    <3>7. y + a <= z /\ y \in Nat /\ z \in Nat
      BY <3>5, <3>6
    <3>8. s[k + 1] = x + y /\ Place(k + 1) = z
      BY <3>3, <3>4
    <3>. HIDE DEF y, z
    <3>9. x + y < z
      BY <3>3, <3>4, <3>7
    <3>10. QED  BY <3>8, <3>9
  <2>. HIDE DEF S
  <2>3. S \subseteq Nat
    BY DEF S
  <2>4. QED  BY <2>1, <2>2, <2>3, Induct
<1>10. s[n] < Place(n)
  <2>1. n \in S
    BY <1>1, <1>9
  <2>2. QED  BY <1>1, <2>1
<1>11. QED  BY <1>8, <1>10

\* TakesBytes that give an unsigned_int are no fewer than those it is written in, wherever they
\* are from: operator<< takes as few as possible, as its comment says (varint.hpp:198).
THEOREM PackedShortest ==
    \A bytes \in Seq(Byte) : \A r \in ReadVar(bytes) :
        /\ r.v \in Word
        /\ Len(PackVar(r.v)) <= Len(bytes) - Len(r.rest)
<1>. SUFFICES ASSUME NEW bytes \in Seq(Byte), NEW r \in ReadVar(bytes)
              PROVE  r.v \in Word /\ Len(PackVar(r.v)) <= Len(bytes) - Len(r.rest)
  OBVIOUS
<1>. DEFINE T == {i \in Nat : i \in DOMAIN bytes /\ bytes[i] < Payload}
<1>1. PICK n : EndsAt(bytes, n)
  <2>1. T # {}
    <3>1. T = {} => \A i \in DOMAIN bytes : ~(bytes[i] < Payload)
      OBVIOUS
    <3>. HIDE DEF T
    <3>2. QED  BY <3>1, ReadNothing
  <2>2. T \subseteq Nat
    OBVIOUS
  <2>3. \E x \in T : \A y \in T : x <= y
    <3>. HIDE DEF T
    <3>1. QED  BY <2>1, <2>2, LeastNat
  <2>4. PICK x \in T : \A y \in T : x <= y
    BY <2>3
  <2>5. x \in 1 .. Len(bytes) /\ bytes[x] < Payload
    OBVIOUS
  <2>6. ASSUME NEW j \in 1 .. x - 1, bytes[j] < Payload PROVE FALSE
    <3>1. j \in Nat /\ j \in DOMAIN bytes /\ ~(x <= j)
      BY <2>5
    <3>2. QED  BY <2>4, <2>6, <3>1
  <2>7. EndsAt(bytes, x)
    BY <2>5, <2>6 DEF EndsAt
  <2>8. QED  BY <2>7
<1>2. n \in Nat /\ n >= 1 /\ n \in 1 .. Len(bytes) /\ Len(bytes) \in Nat
  BY <1>1 DEF EndsAt
<1>3. Len(SubSeq(bytes, n + 1, Len(bytes))) = Len(bytes) - n
  BY <1>2
<1>4. ASSUME NEW v \in Word, NEW l, TakesBytes(v, l), n \in 0 .. WordBits => v < Place(n) PROVE l <= n
  <2>1. l \in Nat /\ l <= WordBits /\ WordBits \in Nat
    BY <1>4, Shifts DEF TakesBytes
  <2>2. ~(l <= n) => n \in 1 .. l - 1 /\ n \in 0 .. WordBits
    BY <1>2, <2>1
  <2>3. n \in 0 .. WordBits => Left(v, n) = 0
    BY <1>4, Grouped
  <2>4. QED  BY <1>4, <2>2, <2>3 DEF TakesBytes
<1>5. r.v \in Word /\ r.rest = SubSeq(bytes, n + 1, Len(bytes))
      /\ (n \in 0 .. WordBits => r.v < Place(n))
  <2>1. CASE PayloadBits * (n - 1) >= WordBits
    <3>1. ReadVar(bytes) = {[v |-> v, rest |-> SubSeq(bytes, n + 1, Len(bytes))] : v \in Word}
      BY <1>1, <2>1, ReadIs
    <3>2. r.v \in Word /\ r.rest = SubSeq(bytes, n + 1, Len(bytes))
      BY <3>1
    <3>3. ASSUME n \in 0 .. WordBits PROVE r.v < Place(n)
      <4>1. PayloadBits * n >= WordBits
        <5>. DEFINE x == PayloadBits * (n - 1)
        <5>1. n \in 1 .. WordBits
          BY <1>2, <3>3
        <5>2. PayloadBits * n = x + PayloadBits
          BY <5>1, Shifts
        <5>3. x \in Int /\ x >= WordBits
          BY <1>2, <2>1, Shifts
        <5>. HIDE DEF x
        <5>4. QED  BY <5>2, <5>3, Shifts
      <4>2. Place(n) >= Modulus /\ Place(n) \in Nat /\ Modulus \in Nat
        BY <3>3, <4>1, Places
      <4>3. r.v \in Nat /\ r.v < Modulus
        BY <3>2, Grouped
      <4>4. QED  BY <4>2, <4>3
    <3>4. QED  BY <3>2, <3>3
  <2>2. CASE ~(PayloadBits * (n - 1) >= WordBits)
    <3>1. n <= WordBits
      <4>1. PayloadBits * (n - 1) >= 1 * (n - 1)
        BY <1>2, Shifts
      <4>. DEFINE x == PayloadBits * (n - 1)
      <4>2. x \in Int /\ x >= n - 1 /\ ~(x >= WordBits)
        BY <1>2, <2>2, <4>1, Shifts
      <4>. HIDE DEF x
      <4>3. QED  BY <1>2, <4>2, Shifts
    <3>2. PICK s : SumsUp(s, bytes, n) /\ s[n] < Place(n)
      BY <1>2, <3>1, SumBelow
    <3>3. ReadVar(bytes) = {[v |-> s[n] % Modulus, rest |-> SubSeq(bytes, n + 1, Len(bytes))]}
      BY <1>1, <2>2, <3>2, ReadIs
    <3>4. s[n] \in Nat /\ Modulus \in Nat /\ Modulus >= 1 /\ Place(n) \in Nat
      <4>1. n \in 0 .. n /\ n \in 0 .. WordBits
        BY <1>2, <3>1, Shifts
      <4>2. QED  BY <3>2, <4>1, Places DEF SumsUp
    <3>5. s[n] % Modulus \in Nat /\ s[n] % Modulus < Modulus /\ s[n] % Modulus <= s[n]
      <4>. DEFINE x == s[n]
                  m == Modulus
      <4>1. x \in Nat /\ m \in Nat /\ m >= 1
        BY <3>4
      <4>. HIDE DEF x, m
      <4>2. x % m \in Nat /\ x % m < m /\ x % m <= x
        BY <4>1
      <4>3. QED  BY <4>2 DEF x, m
    <3>6. r.v = s[n] % Modulus /\ r.rest = SubSeq(bytes, n + 1, Len(bytes))
      BY <3>3
    <3>7. r.v \in Word
      BY <3>4, <3>5, <3>6 DEF Word, Modulus
    <3>8. r.v < Place(n)
      BY <3>2, <3>4, <3>5, <3>6
    <3>9. QED  BY <3>6, <3>7, <3>8
  <2>3. QED  BY <2>1, <2>2
<1>6. PICK l : /\ TakesBytes(r.v, l)
               /\ PackVar(r.v) =
                     [i \in 1 .. l |-> (Left(r.v, i - 1) % Payload) + ContinueBit(Left(r.v, i))]
  BY <1>5, PackedIs
<1>7. Len(PackVar(r.v)) = l
  BY <1>5, <1>6, PackedBytes
<1>8. l <= n
  BY <1>4, <1>5, <1>6
<1>9. l \in Nat
  BY <1>6, Shifts DEF TakesBytes
<1>10. QED  BY <1>2, <1>3, <1>5, <1>7, <1>8, <1>9

\* A signed_int is written as a word, and the word read is turned back into it: the sign
\* goes to the lowest bit and returns (varint.hpp:441-472).
THEOREM SignedReadsBack ==
    /\ \A v \in Integer : ZigZag(v) \in Word /\ UnZigZag(ZigZag(v)) = v
    /\ \A w \in Word : UnZigZag(w) \in Integer /\ ZigZag(UnZigZag(w)) = w
<1>. DEFINE h == Pow2[WordBits - 1]
<1>1. h \in Nat /\ h >= 1 /\ Pow2[WordBits] = 2 * h
  <2>1. WordBits \in 1 .. MaxShift /\ WordBits - 1 \in 0 .. MaxShift
    BY Shifts
  <2>2. QED  BY <2>1, Powers
<1>2. Word = 0 .. 2 * h - 1 /\ Integer = -h .. h - 1
  BY <1>1 DEF Word, Integer
<1>. HIDE DEF h
<1>3. ASSUME NEW v \in Integer PROVE ZigZag(v) \in Word /\ UnZigZag(ZigZag(v)) = v
  <2>1. CASE v >= 0
    BY <1>1, <1>2, <2>1 DEF ZigZag, UnZigZag
  <2>2. CASE ~(v >= 0)
    <3>1. ZigZag(v) = 2 * (-v - 1) + 1 /\ v \in Int /\ v >= -h /\ v < 0
      BY <1>1, <1>2, <2>2 DEF ZigZag
    <3>2. ZigZag(v) % 2 = 1 /\ ZigZag(v) \div 2 = -v - 1
      BY <3>1
    <3>3. ZigZag(v) \in Word
      BY <1>1, <1>2, <3>1
    <3>4. QED  BY <3>1, <3>2, <3>3 DEF UnZigZag
  <2>3. QED  BY <2>1, <2>2
<1>4. ASSUME NEW w \in Word PROVE UnZigZag(w) \in Integer /\ ZigZag(UnZigZag(w)) = w
  <2>. DEFINE q == w \div 2
  <2>1. w \in Nat /\ w < 2 * h /\ q \in Nat /\ w = 2 * q + (w % 2) /\ w % 2 \in {0, 1} /\ q < h
    BY <1>1, <1>2
  <2>. HIDE DEF q
  <2>2. CASE w % 2 = 0
    <3>1. UnZigZag(w) = q
      BY <2>2 DEF UnZigZag, q
    <3>2. QED  BY <1>1, <1>2, <2>1, <2>2, <3>1 DEF ZigZag
  <2>3. CASE w % 2 = 1
    <3>1. UnZigZag(w) = -q - 1
      BY <2>3 DEF UnZigZag, q
    <3>2. ZigZag(-q - 1) = 2 * q + 1
      BY <2>1 DEF ZigZag
    <3>3. -q - 1 \in Integer
      BY <1>1, <1>2, <2>1
    <3>4. QED  BY <2>1, <2>3, <3>1, <3>2, <3>3
  <2>4. QED  BY <2>1, <2>2, <2>3
<1>5. QED  BY <1>3, <1>4
=============================================================================
