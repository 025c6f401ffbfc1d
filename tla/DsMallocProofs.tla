--------------------------- MODULE DsMallocProofs ---------------------------
(***************************************************************************)
(* The allocator is safe for every page size, address space and engine     *)
(* limit: the safety invariants of DsMalloc, the monotone cursor, and the  *)
(* refinement of HeapSpec.  The heart of the argument is RequestFits: a    *)
(* request that would wrap last_ptr asks for more pages than there are.    *)
(***************************************************************************)
EXTENDS DsMalloc, TLAPS

-----------------------------------------------------------------------------
(* Arithmetic *)

\* Multiplication by a natural number is monotone.
LEMMA TimesMonotone ==
    ASSUME NEW a \in Nat, NEW b \in Nat, NEW k \in Nat, a <= b
    PROVE  a * k <= b * k
OBVIOUS

\* Distinct multiples of k are at least k apart.
LEMMA NextMultiple ==
    ASSUME NEW a \in Int, NEW b \in Int, NEW k \in Nat, a * k < b * k
    PROVE  a * k + k <= b * k
OBVIOUS

\* A number lies within one divisor above its truncated quotient.
LEMMA QuotientBounds ==
    ASSUME NEW a \in Nat, NEW k \in Nat \ {0}
    PROVE  /\ a \div k \in Nat
           /\ (a \div k) * k <= a
           /\ a < (a \div k) * k + k
OBVIOUS

\* A number less its remainder is the multiple of the divisor just below it.
LEMMA RemainderBounds ==
    ASSUME NEW a \in Nat, NEW k \in Nat \ {0}
    PROVE  /\ a % k \in Nat
           /\ a % k < k
           /\ a % k <= a
           /\ a - (a % k) = (a \div k) * k
OBVIOUS

LEMMA RemainderSmall ==
    ASSUME NEW a \in Nat, NEW k \in Nat \ {0}, a < k
    PROVE  a % k = a
OBVIOUS

LEMMA RemainderOnce ==
    ASSUME NEW a \in Nat, NEW k \in Nat \ {0}, k <= a, a < k + k
    PROVE  a % k = a - k
OBVIOUS

\* What the assumptions say of the constants, with products made visible.
LEMMA Constants ==
    /\ PageSize \in Nat \ {0}
    /\ PageLimit \in Nat \ {0}
    /\ Alignment \in Nat \ {0}
    /\ HostMaxPages \in Nat
    /\ HostMaxPages <= PageLimit
    /\ AddressSpace \in Nat \ {0}
    /\ AddressSpace = PageLimit * PageSize
    /\ PageSize <= AddressSpace
    /\ PageSize = (PageSize \div Alignment) * Alignment
    /\ PageSize \div Alignment \in Nat
    /\ Alignment <= PageSize
<1>1. /\ PageSize \in Nat \ {0}
      /\ PageLimit \in Nat \ {0}
      /\ Alignment \in Nat \ {0}
      /\ HostMaxPages \in Nat
      /\ HostMaxPages <= PageLimit
      /\ PageSize % Alignment = 0
  BY DsMallocAssumption
<1>2. /\ AddressSpace \in Nat \ {0}
      /\ AddressSpace = PageLimit * PageSize
      /\ PageSize <= AddressSpace
  BY <1>1 DEF AddressSpace
<1>3. /\ PageSize = (PageSize \div Alignment) * Alignment
      /\ PageSize \div Alignment \in Nat
  BY <1>1, RemainderBounds, QuotientBounds
<1>4. Alignment <= PageSize
  BY <1>1, RemainderSmall
<1> QED
  BY <1>1, <1>2, <1>3, <1>4

\* Every page boundary is aligned.
LEMMA BoundaryAligned ==
    ASSUME NEW n \in Nat
    PROVE  /\ Bytes(n) \in Nat
           /\ \E m \in Nat : Bytes(n) = m * Alignment
<1> DEFINE m == n * (PageSize \div Alignment)
<1>1. m \in Nat
  BY Constants
<1>2. Bytes(n) = m * Alignment
  BY Constants DEF Bytes
<1> HIDE DEF m
<1>3. \E k \in Nat : Bytes(n) = k * Alignment
  BY <1>1, <1>2
<1>4. Bytes(n) \in Nat
  BY Constants DEF Bytes
<1> QED
  BY <1>3, <1>4

-----------------------------------------------------------------------------
(* AlignUp *)

\* Whatever it is given, AlignUp yields an aligned size_t.
LEMMA AlignUpInRange ==
    ASSUME NEW x \in Nat
    PROVE  /\ AlignUp(x) \in SizeT
           /\ \E m \in Nat : AlignUp(x) = m * Alignment
<1> DEFINE up == (x + Alignment - 1) % AddressSpace
<1>1. /\ x + Alignment - 1 \in Nat
      /\ AddressSpace \in Nat \ {0}
      /\ Alignment \in Nat \ {0}
  BY Constants
<1>2. up \in Nat /\ up < AddressSpace
  BY <1>1, RemainderBounds
<1> HIDE DEF up
<1>3. /\ up % Alignment \in Nat
      /\ up % Alignment <= up
      /\ up - (up % Alignment) = (up \div Alignment) * Alignment
      /\ up \div Alignment \in Nat
  BY <1>1, <1>2, RemainderBounds, QuotientBounds
<1>4. AlignUp(x) = up - (up % Alignment)
  BY DEF AlignUp, up
<1>5. \E m \in Nat : AlignUp(x) = m * Alignment
  BY <1>3, <1>4
<1>6. AlignUp(x) \in SizeT
  BY <1>1, <1>2, <1>3, <1>4 DEF SizeT
<1> QED
  BY <1>5, <1>6

\* Below the end of the address space AlignUp rounds up to the next multiple.
LEMMA AlignUpRounds ==
    ASSUME NEW x \in Nat, x + Alignment <= AddressSpace
    PROVE  x <= AlignUp(x) /\ AlignUp(x) < x + Alignment
<1> DEFINE up == x + Alignment - 1
<1>1. /\ up \in Nat
      /\ AddressSpace \in Nat \ {0}
      /\ Alignment \in Nat \ {0}
      /\ up < AddressSpace
  BY Constants
<1>2. up % AddressSpace = up
  BY <1>1, RemainderSmall
<1>3. up % Alignment \in Nat /\ up % Alignment < Alignment
  BY <1>1, RemainderBounds
<1>4. AlignUp(x) = up - (up % Alignment)
  BY <1>2 DEF AlignUp
<1> QED
  BY <1>1, <1>3, <1>4

\* At the very end of the address space AlignUp wraps to 0.
LEMMA AlignUpWraps ==
    ASSUME NEW x \in Nat, x < AddressSpace, x + Alignment > AddressSpace
    PROVE  AlignUp(x) = 0
<1> DEFINE y == x + Alignment - 1
           up == y % AddressSpace
<1>1. /\ y \in Nat /\ AddressSpace \in Nat \ {0} /\ Alignment \in Nat \ {0}
      /\ AddressSpace <= y /\ y < AddressSpace + AddressSpace
  BY Constants
<1>2. up = y - AddressSpace
  BY <1>1, RemainderOnce
<1>3. up \in Nat /\ up < Alignment
  BY <1>1, <1>2
<1>4. up % Alignment = up
  BY <1>1, <1>3, RemainderSmall
<1> QED
  BY <1>3, <1>4 DEF AlignUp

\* Two aligned addresses, one strictly below the other.
LEMMA AlignedApart ==
    ASSUME NEW a \in Nat, NEW b \in Nat, a < b,
           \E m \in Nat : a = m * Alignment,
           \E m \in Nat : b = m * Alignment
    PROVE  a + Alignment <= b
<1>1. PICK m \in Nat : a = m * Alignment
  OBVIOUS
<1>2. PICK n \in Nat : b = n * Alignment
  OBVIOUS
<1>3. m * Alignment + Alignment <= n * Alignment
  <2>1. /\ m \in Int /\ n \in Int /\ Alignment \in Nat
        /\ m * Alignment < n * Alignment
    BY <1>1, <1>2, Constants
  <2> QED
    BY <2>1, NextMultiple
<1> QED
  BY <1>1, <1>2, <1>3

\* Rounding the start of the heap up does not leave the address space.
LEMMA HeapBaseBelowEnd ==
    ASSUME NEW base \in HeapBases
    PROVE  base + Alignment <= AddressSpace
<1> DEFINE n == LinkedPages(base)
<1>1. /\ base \in Nat \ {0}
      /\ n <= HostMaxPages
      /\ base + Alignment <= Bytes(n) \/ HostMaxPages + 1 < PageLimit
  BY HeapBaseAssumption
<1>2. n \in Nat /\ base <= n * PageSize
  <2>1. base + PageSize - 1 \in Nat
    BY <1>1, Constants
  <2> QED
    BY <2>1, <1>1, Constants, QuotientBounds DEF LinkedPages
<1>3. n * PageSize <= PageLimit * PageSize
  BY <1>1, <1>2, Constants, TimesMonotone
<1>4. CASE base + Alignment <= Bytes(n)
  BY <1>3, <1>4, <1>1, <1>2, Constants DEF Bytes
<1>5. CASE HostMaxPages + 1 < PageLimit
  <2>1. (n + 1) * PageSize <= PageLimit * PageSize
    BY <1>5, <1>1, <1>2, Constants, TimesMonotone
  <2> QED
    BY <2>1, <1>1, <1>2, Constants
<1> QED
  BY <1>4, <1>5, <1>1

\* The heap starts at or above __heap_base, and rounding its start once more
\* does not move it.
LEMMA HeapBaseRounds ==
    ASSUME NEW base \in HeapBases
    PROVE  /\ base <= AlignUp(base)
           /\ AlignUp(AlignUp(base)) = AlignUp(base)
<1> DEFINE a == AlignUp(base)
           b == AlignUp(a)
<1>1. base \in Nat
  BY HeapBaseAssumption
<1>2. base <= a /\ a < base + Alignment
  BY <1>1, HeapBaseBelowEnd, AlignUpRounds
<1>0. SizeT \subseteq Nat
  BY Constants DEF SizeT
<1>3. /\ a \in Nat
      /\ \E m \in Nat : a = m * Alignment
  <2>1. a \in SizeT /\ \E m \in Nat : a = m * Alignment
    BY <1>1, AlignUpInRange
  <2> QED
    BY <1>0, <2>1
<1> HIDE DEF a
<1>4. /\ b \in Nat
      /\ \E m \in Nat : b = m * Alignment
  <2>1. b \in SizeT /\ \E m \in Nat : b = m * Alignment
    BY <1>3, AlignUpInRange
  <2> QED
    BY <1>0, <2>1
<1>5. /\ AddressSpace \in Nat
      /\ \E m \in Nat : AddressSpace = m * Alignment
  BY BoundaryAligned, Constants DEF Bytes
<1>6. a + Alignment <= AddressSpace
  <2>1. a < AddressSpace
    BY <1>1, <1>2, <1>3, <1>5, HeapBaseBelowEnd, Constants
  <2> QED
    BY <2>1, <1>3, <1>5, AlignedApart
<1>7. a <= b /\ b < a + Alignment
  BY <1>3, <1>6, AlignUpRounds
<1> HIDE DEF b
<1>8. a = b
  <2>1. SUFFICES ASSUME a < b PROVE FALSE
    BY <1>3, <1>4, <1>7
  <2>2. a + Alignment <= b
    BY <2>1, <1>3, <1>4, AlignedApart
  <2> QED
    BY <2>2, <1>3, <1>4, <1>7, Constants
<1> QED
  BY <1>2, <1>8 DEF a, b

-----------------------------------------------------------------------------
(* The request *)

\* Room for the heap to end: strictly below the memory when the engine may
\* give the whole address space.
Headroom(ptr, pages) ==
    /\ \E m \in Nat : ptr = m * Alignment
    /\ ptr <= Bytes(pages)
    /\ \/ ptr + Alignment <= Bytes(pages)
       \/ HostMaxPages + 1 < PageLimit

\* A request the engine grants did not wrap: the cursor is past the block,
\* the grown memory covers it, and less than a page more was asked for.
LEMMA RequestFits ==
    ASSUME NEW sz \in SizeT, sz # 0,
           last_ptr \in SizeT, memory \in Nat, next_page = memory,
           Headroom(last_ptr, memory),
           CanGrow(PagesToAlloc(sz))
    PROVE  /\ last_ptr + sz <= Cursor(sz)
           /\ Cursor(sz) \in SizeT
           /\ PagesToAlloc(sz) \in Nat
           /\ Headroom(Cursor(sz), memory + PagesToAlloc(sz))
           /\ Bytes(memory) - last_ptr <= PageSize
              => Bytes(memory + PagesToAlloc(sz)) - Cursor(sz) <= PageSize
<1> DEFINE P == PageSize
           A == Alignment
           W == AddressSpace
           q == sz \div P
           t == memory + q
           x == last_ptr + sz
           c == Cursor(sz)
<1>1. /\ P \in Nat \ {0} /\ A \in Nat \ {0} /\ W \in Nat \ {0}
      /\ PageLimit \in Nat \ {0} /\ HostMaxPages \in Nat
      /\ HostMaxPages <= PageLimit
      /\ W = PageLimit * P /\ A <= P /\ P <= W
  BY Constants
<1>2. /\ sz \in Nat /\ last_ptr \in Nat /\ memory \in Nat /\ x \in Nat
      /\ last_ptr < W
  BY <1>1 DEF SizeT
<1>3. q \in Nat /\ q * P <= sz /\ sz < q * P + P
  BY <1>1, <1>2, QuotientBounds
<1>4. t \in Nat /\ Bytes(t) = memory * P + q * P /\ Bytes(t) \in Nat
  BY <1>1, <1>2, <1>3 DEF Bytes
<1>5. x < Bytes(t) + P
  BY <1>1, <1>2, <1>3, <1>4 DEF Headroom, Bytes
<1>6. /\ c \in SizeT /\ c \in Nat
      /\ \E m \in Nat : c = m * A
  <2>1. x % W \in Nat
    BY <1>1, <1>2, RemainderBounds
  <2>2. c = AlignUp(x % W)
    BY DEF Cursor
  <2>3. c \in SizeT /\ \E m \in Nat : c = m * A
    BY <2>1, <2>2, AlignUpInRange
  <2> QED
    BY <2>3, <1>1 DEF SizeT
<1>7. PageShort(sz) <=> (Bytes(t) % W) <= c
  BY DEF PageShort
<1>8. PagesToAlloc(sz) = q + (IF PageShort(sz) THEN 1 ELSE 0)
  BY DEF PagesToAlloc
<1>9. t + (IF PageShort(sz) THEN 1 ELSE 0) <= HostMaxPages
  BY <1>1, <1>2, <1>3, <1>8 DEF CanGrow
\* the growth is within the address space, so nothing wraps
<1>10. t + 1 <= PageLimit
  <2>1. CASE t < PageLimit
    BY <2>1, <1>1, <1>4
  <2>2. CASE t = PageLimit
    <3>1. Bytes(t) = W
      BY <2>2, <1>1 DEF Bytes
    <3>2. Bytes(t) % W = 0
      BY <3>1, <1>1, RemainderOnce
    <3>3. PageShort(sz)
      BY <3>2, <1>6, <1>7
    <3> QED
      BY <3>3, <2>2, <1>1, <1>9
  <2>3. t <= PageLimit
    BY <1>1, <1>4, <1>9
  <2> QED
    BY <2>1, <2>2, <2>3, <1>1, <1>4
<1>11. Bytes(t) + P <= W
  <2>1. (t + 1) * P <= PageLimit * P
    BY <1>1, <1>4, <1>10, TimesMonotone
  <2> QED
    BY <2>1, <1>1, <1>4 DEF Bytes
<1>12. Bytes(t) % W = Bytes(t)
  BY <1>1, <1>4, <1>11, RemainderSmall
<1>13. x % W = x
  <2>1. x < W
    BY <1>1, <1>2, <1>4, <1>5, <1>11
  <2> QED
    BY <2>1, <1>1, <1>2, RemainderSmall
<1>14. x + A <= W
  <2>1. CASE last_ptr + A <= Bytes(memory)
    BY <2>1, <1>1, <1>2, <1>3, <1>4, <1>11 DEF Bytes
  <2>2. CASE HostMaxPages + 1 < PageLimit
    <3>1. t + 2 <= PageLimit
      BY <2>2, <1>1, <1>4, <1>9
    <3>2. (t + 2) * P <= PageLimit * P
      BY <3>1, <1>1, <1>4, TimesMonotone
    <3>3. Bytes(t) + P + P <= W
      BY <3>2, <1>1, <1>4 DEF Bytes
    <3> QED
      BY <3>3, <1>1, <1>2, <1>4, <1>5
  <2> QED
    BY <2>1, <2>2 DEF Headroom
<1>15. x <= c /\ c < x + A
  BY <1>2, <1>13, <1>14, AlignUpRounds DEF Cursor
<1>16. CASE PageShort(sz)
  <2>1. /\ Bytes(t) <= c
        /\ PagesToAlloc(sz) = q + 1
        /\ memory + PagesToAlloc(sz) = t + 1
        /\ Bytes(t + 1) = Bytes(t) + P
    BY <1>16, <1>1, <1>2, <1>3, <1>4, <1>7, <1>8, <1>12 DEF Bytes
  <2>2. /\ Bytes(t + 1) \in Nat
        /\ \E m \in Nat : Bytes(t + 1) = m * A
    BY <1>4, BoundaryAligned
  <2>3. c <= Bytes(t + 1)
    <3>1. SUFFICES ASSUME Bytes(t + 1) < c PROVE FALSE
      BY <1>1, <1>4, <1>6, <2>1
    <3>2. Bytes(t + 1) + A <= c
      BY <3>1, <2>2, <1>6, AlignedApart
    <3> QED
      BY <3>2, <2>1, <1>1, <1>2, <1>4, <1>5, <1>6, <1>15
  <2>4. c + A <= Bytes(t + 1) \/ HostMaxPages + 1 < PageLimit
    <3>1. CASE last_ptr + A <= Bytes(memory)
      <4>1. x + A < Bytes(t) + P
        BY <3>1, <1>1, <1>2, <1>3, <1>4 DEF Bytes
      <4>2. c < Bytes(t + 1)
        BY <4>1, <2>1, <1>1, <1>2, <1>4, <1>6, <1>15
      <4> QED
        BY <4>2, <2>2, <1>6, AlignedApart
    <3> QED
      BY <3>1 DEF Headroom
  <2>5. Bytes(t + 1) - c <= P
    BY <2>1, <1>1, <1>4, <1>6
  <2> QED
    BY <2>1, <2>3, <2>4, <2>5, <1>3, <1>6, <1>15 DEF Headroom
<1>17. CASE ~PageShort(sz)
  <2>1. /\ c < Bytes(t)
        /\ PagesToAlloc(sz) = q
        /\ memory + PagesToAlloc(sz) = t
    BY <1>17, <1>1, <1>2, <1>3, <1>4, <1>6, <1>7, <1>8, <1>12
  <2>2. c + A <= Bytes(t)
    BY <2>1, <1>4, <1>6, BoundaryAligned, AlignedApart
  <2>3. Bytes(memory) - last_ptr <= P => Bytes(t) - c <= P
    BY <1>1, <1>2, <1>3, <1>4, <1>6, <1>15 DEF Bytes
  <2> QED
    BY <2>1, <2>2, <2>3, <1>1, <1>3, <1>4, <1>6, <1>15 DEF Headroom
<1> QED
  BY <1>16, <1>17

-----------------------------------------------------------------------------
(* The inductive invariant *)

\* Blocks lie below the cursor, the cursor below the end of memory, and the
\* count of pages is exact: what a request needs to know of the past.
Room ==
    /\ next_page = memory
    /\ heap <= last_ptr
    /\ Headroom(last_ptr, memory)
    /\ \A b \in blocks : b.base + b.size <= last_ptr

IInv ==
    /\ TypeOK
    /\ BlocksInMemory
    /\ BlocksDisjoint
    /\ NoPageWasted
    /\ status = "running" => Room

\* The linker and the constructor of _dsmalloc establish the invariant.
LEMMA InitIInv == Init => IInv
<1> SUFFICES ASSUME Init PROVE IInv
  OBVIOUS
<1>1. PICK base \in HeapBases :
         /\ heap = AlignUp(base)
         /\ last_ptr = heap
         /\ memory = LinkedPages(base)
         /\ next_page = memory
         /\ blocks = {}
         /\ freed = {}
         /\ status = "running"
  BY DEF Init
<1> DEFINE n == LinkedPages(base)
<1>2. /\ base \in Nat \ {0}
      /\ n <= HostMaxPages
      /\ base + Alignment <= Bytes(n) \/ HostMaxPages + 1 < PageLimit
  BY HeapBaseAssumption
<1>3. /\ n \in Nat
      /\ base <= n * PageSize
      /\ n * PageSize < base + PageSize
  <2>1. base + PageSize - 1 \in Nat
    BY <1>2, Constants
  <2> QED
    BY <2>1, <1>2, Constants, QuotientBounds DEF LinkedPages
<1>4. /\ Bytes(n) \in Nat
      /\ \E m \in Nat : Bytes(n) = m * Alignment
      /\ base <= Bytes(n)
      /\ Bytes(n) < base + PageSize
  BY <1>3, BoundaryAligned DEF Bytes
<1>5. base + Alignment <= AddressSpace
  BY HeapBaseBelowEnd
<1>6. /\ base <= heap /\ heap < base + Alignment
      /\ heap \in SizeT /\ heap \in Nat
      /\ \E m \in Nat : heap = m * Alignment
  <2>1. /\ heap \in SizeT
        /\ \E m \in Nat : heap = m * Alignment
    BY <1>1, <1>2, AlignUpInRange
  <2> QED
    BY <2>1, <1>1, <1>2, <1>5, AlignUpRounds, Constants DEF SizeT
<1>7. heap <= Bytes(n)
  <2>1. SUFFICES ASSUME Bytes(n) < heap PROVE FALSE
    BY <1>4, <1>6
  <2>2. Bytes(n) + Alignment <= heap
    BY <2>1, <1>4, <1>6, AlignedApart
  <2> QED
    BY <2>2, <1>2, <1>4, <1>6, Constants
<1>8. heap + Alignment <= Bytes(n) \/ HostMaxPages + 1 < PageLimit
  <2>1. CASE base + Alignment <= Bytes(n)
    <3>1. heap < Bytes(n)
      BY <2>1, <1>2, <1>4, <1>6, Constants
    <3> QED
      BY <3>1, <1>4, <1>6, AlignedApart
  <2> QED
    BY <2>1, <1>2
<1>9. TypeOK
  BY <1>1, <1>2, <1>3, <1>6, Constants DEF TypeOK
<1>10. NoPageWasted
  BY <1>1, <1>2, <1>4, <1>6, Constants DEF NoPageWasted
<1>11. Room
  BY <1>1, <1>6, <1>7, <1>8 DEF Room, Headroom
<1> QED
  BY <1>1, <1>9, <1>10, <1>11 DEF IInv, BlocksInMemory, BlocksDisjoint

\* A request of one of the three entry points, granted or not.
LEMMA RequestIInv ==
    ASSUME IInv, status = "running",
           NEW sz \in SizeT, NEW gone \in SUBSET blocks,
           Allocate(sz, gone) \/ AllocateNothing(sz, gone)
    PROVE  /\ IInv'
           /\ status' = "running" => last_ptr' >= last_ptr
<1>1. /\ TypeOK /\ BlocksInMemory /\ BlocksDisjoint /\ NoPageWasted /\ Room
  BY DEF IInv
<1>2. /\ last_ptr \in Nat /\ sz \in Nat /\ memory \in Nat /\ heap \in Nat
      /\ AddressSpace \in Nat \ {0} /\ HostMaxPages \in Nat
      /\ PageSize \in Nat
  BY <1>1, Constants DEF TypeOK, SizeT
<1>3. CASE AllocateNothing(sz, gone)
  BY <1>1, <1>2, <1>3
  DEF AllocateNothing, IInv, TypeOK, BlocksInMemory, BlocksDisjoint,
      NoPageWasted, Room, Headroom, Apart
<1>4. CASE Allocate(sz, gone) /\ CanGrow(PagesToAlloc(sz))
  <2> DEFINE b == [base |-> last_ptr, size |-> sz]
  <2>1. /\ sz # 0
        /\ last_ptr' = Cursor(sz)
        /\ memory' = memory + PagesToAlloc(sz)
        /\ next_page' = NextPage(sz)
        /\ blocks' = blocks \cup {b}
        /\ freed' = freed \cup gone
        /\ status' = "running"
        /\ heap' = heap
    BY <1>4 DEF Allocate
  <2>2. /\ last_ptr + sz <= last_ptr'
        /\ last_ptr' \in SizeT
        /\ PagesToAlloc(sz) \in Nat
        /\ Headroom(last_ptr', memory')
        /\ Bytes(memory) - last_ptr <= PageSize
           => Bytes(memory') - last_ptr' <= PageSize
    BY <2>1, <1>1, <1>4, RequestFits DEF TypeOK, Room
  <2>3. next_page' = memory' /\ memory' \in 0 .. HostMaxPages
    <3>1. next_page' = memory'
      <4>1. sz \div PageSize \in Nat
        BY <1>2, Constants, QuotientBounds
      <4> QED
        BY <4>1, <2>1, <1>1, <1>2 DEF NextPage, PagesToAlloc, Room
    <3> QED
      BY <3>1, <2>1, <2>2, <1>2, <1>4 DEF CanGrow
  <2>4. /\ last_ptr' \in Nat /\ Bytes(memory) \in Nat /\ Bytes(memory') \in Nat
        /\ Bytes(memory) <= Bytes(memory')
        /\ last_ptr' <= Bytes(memory')
    BY <2>1, <2>2, <1>2, TimesMonotone DEF Bytes, SizeT, Headroom
  <2>5. \A a \in blocks : /\ a.base \in Nat /\ a.size \in Nat
                          /\ heap <= a.base
                          /\ a.base + a.size <= last_ptr
    BY <1>1 DEF TypeOK, BlocksInMemory, Room, SizeT
  <2>6. TypeOK'
    BY <2>1, <2>2, <2>3, <1>1 DEF TypeOK
  <2>7. BlocksInMemory'
    <3> SUFFICES ASSUME NEW a \in blocks'
                 PROVE  heap <= a.base /\ a.base + a.size <= Bytes(memory')
      BY <2>1 DEF BlocksInMemory, Bytes
    <3>1. CASE a \in blocks
      BY <3>1, <2>1, <2>2, <2>4, <2>5, <1>2
    <3>2. CASE a = b
      BY <3>2, <2>2, <2>4, <1>1, <1>2 DEF Room
    <3> QED
      BY <3>1, <3>2, <2>1
  <2>8. BlocksDisjoint'
    BY <2>1, <2>5, <1>1 DEF BlocksDisjoint, Apart
  <2>9. NoPageWasted'
    BY <2>1, <2>2, <1>1, <1>4 DEF NoPageWasted, Room, Bytes
  <2>10. Room'
    <3>1. ASSUME NEW a \in blocks' PROVE a.base + a.size <= last_ptr'
      <4>1. CASE a \in blocks
        BY <4>1, <2>2, <2>4, <2>5, <1>2
      <4>2. CASE a = b
        BY <4>2, <2>2
      <4> QED
        BY <4>1, <4>2, <2>1
    <3>2. heap' <= last_ptr'
      BY <2>1, <2>2, <2>4, <1>1, <1>2 DEF Room
    <3> QED
      BY <3>1, <3>2, <2>2, <2>3 DEF Room, Headroom, Bytes
  <2> QED
    BY <2>1, <2>2, <2>4, <2>6, <2>7, <2>8, <2>9, <2>10, <1>2 DEF IInv
<1>5. CASE Allocate(sz, gone) /\ ~CanGrow(PagesToAlloc(sz))
  <2>1. /\ last_ptr' = Cursor(sz)
        /\ next_page' = NextPage(sz)
        /\ status' = "aborted"
        /\ UNCHANGED <<memory, blocks, freed, heap>>
    BY <1>5 DEF Allocate
  <2>2. last_ptr' \in SizeT
    <3>1. (last_ptr + sz) % AddressSpace \in Nat
      BY <1>2, RemainderBounds
    <3> QED
      BY <3>1, <2>1, AlignUpInRange DEF Cursor
  <2>3. next_page' \in Nat
    <3>1. sz \div PageSize \in Nat
      BY <1>2, Constants, QuotientBounds
    <3> QED
      BY <3>1, <2>1, <1>1 DEF NextPage, TypeOK
  <2> QED
    BY <2>1, <2>2, <2>3, <1>1
    DEF IInv, TypeOK, BlocksInMemory, BlocksDisjoint, NoPageWasted, Apart, Bytes
<1> QED
  BY <1>3, <1>4, <1>5

\* calloc passes operator() a size_t whatever count and size it is given.
LEMMA ProductInRange ==
    ASSUME NEW count \in SizeT, NEW sz \in SizeT
    PROVE  (count * sz) % AddressSpace \in SizeT
<1>1. count \in Nat /\ sz \in Nat /\ AddressSpace \in Nat \ {0}
  BY Constants DEF SizeT
<1>2. count * sz \in Nat
  BY <1>1
<1>3. /\ (count * sz) % AddressSpace \in Nat
      /\ (count * sz) % AddressSpace < AddressSpace
  BY <1>1, <1>2, RemainderBounds
<1> QED
  BY <1>1, <1>3 DEF SizeT

\* Every step is a request of one of the entry points, or free.
LEMMA StepCases ==
    ASSUME Next
    PROVE  \/ \E sz \in SizeT, gone \in SUBSET Owned :
                 /\ status = "running"
                 /\ Allocate(sz, gone) \/ AllocateNothing(sz, gone)
           \/ \E b \in Owned : Free(b)
<1>1. Sizes \subseteq SizeT
  BY DsMallocAssumption
<1>2. CASE \E sz \in Sizes : Malloc(sz)
  BY <1>1, <1>2 DEF Malloc
<1>3. CASE \E count, sz \in Sizes : Calloc(count, sz)
  BY <1>1, <1>3, ProductInRange DEF Calloc
<1>4. CASE \E b \in Owned, sz \in Sizes : Realloc(b, sz)
  BY <1>1, <1>4 DEF Realloc
<1>5. CASE \E b \in Owned : Free(b)
  BY <1>5
<1> QED
  BY <1>2, <1>3, <1>4, <1>5 DEF Next

LEMMA NextIInv == IInv /\ [Next]_vars => IInv'
<1> SUFFICES ASSUME IInv, [Next]_vars PROVE IInv'
  OBVIOUS
<1>1. Owned \subseteq blocks
  BY DEF Owned
<1>2. CASE \E sz \in SizeT, gone \in SUBSET Owned :
              /\ status = "running"
              /\ Allocate(sz, gone) \/ AllocateNothing(sz, gone)
  BY <1>1, <1>2, RequestIInv
<1>3. CASE \E b \in Owned : Free(b)
  BY <1>1, <1>3
  DEF Free, IInv, TypeOK, BlocksInMemory, BlocksDisjoint, NoPageWasted, Room,
      Headroom, Apart, Bytes
<1>4. CASE UNCHANGED vars
  BY <1>4
  DEF vars, IInv, TypeOK, BlocksInMemory, BlocksDisjoint, NoPageWasted, Room,
      Headroom, Apart, Bytes
<1> QED
  BY <1>2, <1>3, <1>4, StepCases

-----------------------------------------------------------------------------
(* Steps *)

\* The cursor of a contract that keeps running has not moved down.
LEMMA StepMonotone ==
    IInv /\ [Next]_vars => [status' = "running" => last_ptr' >= last_ptr]_vars
<1> SUFFICES ASSUME IInv, Next
             PROVE  status' = "running" => last_ptr' >= last_ptr
  OBVIOUS
<1>1. Owned \subseteq blocks /\ last_ptr \in Nat
  BY Constants DEF IInv, TypeOK, Owned, SizeT
<1>2. CASE \E sz \in SizeT, gone \in SUBSET Owned :
              /\ status = "running"
              /\ Allocate(sz, gone) \/ AllocateNothing(sz, gone)
  BY <1>1, <1>2, RequestIInv
<1>3. CASE \E b \in Owned : Free(b)
  BY <1>1, <1>3 DEF Free
<1> QED
  BY <1>2, <1>3, StepCases

\* A request refused while a page is out of reach fills the engine's limit.
LEMMA RefusalMeansFull ==
    ASSUME IInv, status = "running", HostMaxPages < PageLimit,
           NEW sz \in SizeT, sz # 0,
           ~CanGrow(PagesToAlloc(sz))
    PROVE  Cursor(sz) >= Bytes(HostMaxPages) \/ Cursor(sz) <= last_ptr
<1> DEFINE P == PageSize
           A == Alignment
           W == AddressSpace
           H == HostMaxPages
           q == sz \div P
           t == memory + q
           x == last_ptr + sz
           c == Cursor(sz)
<1>1. /\ P \in Nat \ {0} /\ A \in Nat \ {0} /\ W \in Nat \ {0}
      /\ H \in Nat /\ PageLimit \in Nat /\ W = PageLimit * P /\ A <= P
  BY Constants
<1>2. /\ sz \in Nat /\ last_ptr \in Nat /\ memory \in Nat
      /\ sz < W /\ last_ptr < W /\ memory <= H
  BY <1>1 DEF SizeT, IInv, TypeOK
<1>3. q \in Nat /\ q * P <= sz
  BY <1>1, <1>2, QuotientBounds
<1>4. /\ t \in Nat /\ Bytes(t) \in Nat /\ Bytes(t) = memory * P + q * P
      /\ Bytes(H) \in Nat /\ Bytes(memory) \in Nat
      /\ Bytes(memory) = memory * P
  BY <1>1, <1>2, <1>3 DEF Bytes
<1>5. /\ Bytes(memory) - last_ptr <= P
      /\ last_ptr <= Bytes(memory)
      /\ \E m \in Nat : last_ptr = m * A
  BY DEF IInv, Room, Headroom, NoPageWasted
<1>6. Bytes(H) + P <= W
  <2>1. (H + 1) * P <= PageLimit * P
    <3>1. H + 1 \in Nat /\ H + 1 <= PageLimit
      BY <1>1
    <3> QED
      BY <3>1, <1>1, TimesMonotone
  <2> QED
    BY <2>1, <1>1 DEF Bytes
<1>7. Bytes(memory) <= Bytes(H)
  <2>1. memory * P <= H * P
    BY <1>1, <1>2, TimesMonotone
  <2> QED
    BY <2>1 DEF Bytes
<1>8. c = AlignUp(x % W) /\ x \in Nat /\ x % W \in Nat
  BY <1>1, <1>2, RemainderBounds DEF Cursor
<1>9. c \in Nat /\ \E m \in Nat : c = m * A
  <2>1. c \in SizeT /\ \E m \in Nat : c = m * A
    BY <1>8, AlignUpInRange
  <2> QED
    BY <2>1, <1>1 DEF SizeT
\* the sum wraps: the cursor comes back no further than it was
<1>10. CASE x >= W
  <2>1. x % W = x - W
    <3>1. W <= x /\ x < W + W
      BY <1>10, <1>1, <1>2
    <3> QED
      BY <3>1, <1>1, <1>8, RemainderOnce
  <2>2. x - W < last_ptr /\ x - W \in Nat
    BY <1>10, <1>2, <1>8, <1>1
  <2>3. (x - W) + A <= W
    BY <2>2, <1>1, <1>2, <1>4, <1>5, <1>6, <1>7
  <2>4. c < (x - W) + A
    BY <2>1, <2>2, <2>3, <1>8, AlignUpRounds
  <2>5. SUFFICES ASSUME last_ptr < c PROVE FALSE
    BY <1>2, <1>9
  <2>6. last_ptr + A <= c
    BY <2>5, <1>2, <1>5, <1>9, AlignedApart
  <2> QED
    BY <2>2, <2>4, <2>6, <1>1, <1>2, <1>9
\* only the rounding wraps: the cursor is 0
<1>11. CASE x < W /\ x + A > W
  BY <1>11, <1>1, <1>2, <1>8, <1>9, RemainderSmall, AlignUpWraps
<1>12. CASE x + A <= W
  <2>1. x % W = x
    <3>1. x < W
      BY <1>12, <1>1, <1>8
    <3> QED
      BY <3>1, <1>1, <1>8, RemainderSmall
  <2>2. x <= c
    BY <2>1, <1>8, <1>12, AlignUpRounds
  <2>3. SUFFICES ASSUME c < Bytes(H) PROVE FALSE
    BY <1>4, <1>9
  <2>4. Bytes(t) <= x + P
    BY <1>1, <1>2, <1>3, <1>4, <1>5
  <2>5. Bytes(t) < Bytes(H) + P
    BY <2>2, <2>3, <2>4, <1>1, <1>2, <1>4, <1>8, <1>9
  <2>6. Bytes(t) % W = Bytes(t)
    BY <2>5, <1>1, <1>4, <1>6, RemainderSmall
  <2>7. t * P < (H + 1) * P
    BY <2>5, <1>1, <1>4 DEF Bytes
  <2>8. t <= H
    <3>1. SUFFICES ASSUME H + 1 <= t PROVE FALSE
      BY <1>1, <1>4
    <3>2. (H + 1) * P <= t * P
      BY <3>1, <1>1, <1>4, TimesMonotone
    <3> QED
      BY <3>2, <2>7, <1>1, <1>4
  <2>9. PageShort(sz) /\ t = H
    <3>1. /\ PageShort(sz) => t + 1 > H
          /\ ~PageShort(sz) => t > H
      BY <1>1, <1>2, <1>3 DEF CanGrow, PagesToAlloc
    <3> QED
      BY <3>1, <2>8, <1>1, <1>4
  <2>10. Bytes(t) <= c
    BY <2>9, <2>6 DEF PageShort, IInv, Room
  <2> QED
    BY <2>3, <2>9, <2>10, <1>4, <1>9
<1> QED
  BY <1>10, <1>11, <1>12, <1>1, <1>8

-----------------------------------------------------------------------------
(* Theorems *)

LEMMA Invariance == Spec => []IInv
BY InitIInv, NextIInv, PTL DEF Spec

\* The cursor of malloc.cpp never comes back over what it has passed.
THEOREM CursorIsMonotone == Spec => CursorMonotone
BY Invariance, StepMonotone, PTL DEF CursorMonotone, Spec

\* malloc.cpp stops a contract only at the limit of the engine.
THEOREM AbortsOnlyWhenFull == Spec => AbortOnlyWhenFull
<1> DEFINE A == status # "aborted" /\ status' = "aborted"
                /\ HostMaxPages < PageLimit
                => last_ptr' >= Bytes(HostMaxPages) \/ last_ptr' <= last_ptr
<1>1. IInv /\ [Next]_vars => [A]_vars
  <2> SUFFICES ASSUME IInv, Next, status # "aborted", status' = "aborted",
                      HostMaxPages < PageLimit
               PROVE  \/ last_ptr' >= Bytes(HostMaxPages)
                      \/ last_ptr' <= last_ptr
    OBVIOUS
  <2>1. PICK sz \in SizeT, gone \in SUBSET Owned :
           /\ status = "running"
           /\ Allocate(sz, gone) \/ AllocateNothing(sz, gone)
    BY StepCases DEF Free
  <2>2. /\ sz # 0
        /\ last_ptr' = Cursor(sz)
        /\ ~CanGrow(PagesToAlloc(sz))
    BY <2>1 DEF Allocate, AllocateNothing
  <2> QED
    BY <2>1, <2>2, RefusalMeansFull
<1> QED
  BY <1>1, Invariance, PTL DEF AbortOnlyWhenFull, Spec

\* The variables of the allocator keep their types and the freed blocks are
\* among those handed out, in every behaviour of malloc.cpp.
THEOREM TypeCorrect == Spec => []TypeOK
<1>1. IInv => TypeOK
  BY DEF IInv
<1> QED
  BY <1>1, Invariance, PTL

\* malloc.cpp never hands out an address outside the heap or beyond the
\* memory the engine has given, for any sequence of requests of any sizes.
THEOREM HeapInMemory == Spec => []BlocksInMemory
<1>1. IInv => BlocksInMemory
  BY DEF IInv
<1> QED
  BY <1>1, Invariance, PTL

\* malloc.cpp never hands out a byte twice, not even after a wrap of last_ptr.
THEOREM HeapDisjoint == Spec => []BlocksDisjoint
<1>1. IInv => BlocksDisjoint
  BY DEF IInv
<1> QED
  BY <1>1, Invariance, PTL

\* The pages dsmalloc believes it has are those the engine has given it.
THEOREM PagesCounted == Spec => []PageCountExact
<1>1. IInv => PageCountExact
  BY DEF IInv, Room, PageCountExact
<1> QED
  BY <1>1, Invariance, PTL

\* dsmalloc asks the engine for at most a page more than the heap has reached.
THEOREM GrowthIsTight == Spec => []NoPageWasted
<1>1. IInv => NoPageWasted
  BY DEF IInv
<1> QED
  BY <1>1, Invariance, PTL

\* malloc.cpp implements the abstract allocator: every step of it is a request
\* that keeps the owned blocks apart and in memory, or a stop.
THEOREM Implements == Spec => ImplementsHeapSpec
<1>1. Init => Heap!Init
  <2> SUFFICES ASSUME Init PROVE Heap!Init
    OBVIOUS
  <2>1. memory \in Nat
    BY InitIInv, Constants DEF IInv, TypeOK
  <2>2. Bytes(memory) \in Nat
    BY <2>1, BoundaryAligned
  <2> QED
    BY <2>2 DEF Init, Heap!Init, Owned
<1>2. IInv /\ IInv' /\ [Next]_vars => [Heap!Next]_Heap!heapVars
  <2> SUFFICES ASSUME IInv, IInv', [Next]_vars
               PROVE  [Heap!Next]_Heap!heapVars
    OBVIOUS
  <2>1. /\ memory \in Nat /\ memory' \in Nat
        /\ Bytes(memory) \in Nat /\ Bytes(memory') \in Nat
    <3>1. memory \in Nat /\ memory' \in Nat
      BY Constants DEF IInv, TypeOK
    <3> QED
      BY <3>1, BoundaryAligned
  <2>2. ASSUME NEW sz \in SizeT, NEW gone \in SUBSET Owned, status = "running",
               Allocate(sz, gone), CanGrow(PagesToAlloc(sz))
        PROVE  Heap!Request
    <3> DEFINE b == [base |-> last_ptr, size |-> sz]
    <3>1. /\ sz # 0
          /\ memory' = memory + PagesToAlloc(sz)
          /\ blocks' = blocks \cup {b}
          /\ freed' = freed \cup gone
          /\ status' = "running"
      BY <2>2 DEF Allocate
    <3>2. Bytes(memory') >= Bytes(memory)
      <4>1. PagesToAlloc(sz) \in Nat
        BY <2>2, <3>1, RequestFits DEF IInv, TypeOK, Room
      <4>2. memory * PageSize <= memory' * PageSize
        BY <4>1, <3>1, <2>1, Constants, TimesMonotone
      <4> QED
        BY <4>2, <2>1 DEF Bytes
    <3>3. b \notin blocks
      BY <2>2, <3>1 DEF IInv, TypeOK, Room, SizeT
    <3>4. b \in Owned' /\ Owned' = (Owned \ gone) \cup {b}
      BY <3>1, <3>3 DEF Owned, IInv, TypeOK
    <3>5. \A c \in Owned : Apart(b, c)
      BY <3>1, <3>3 DEF Owned, IInv, BlocksDisjoint
    <3>6. Heap!Fresh(b, Owned \ gone)
      <4>1. heap' <= b.base /\ b.base + b.size <= Bytes(memory')
        BY <3>1 DEF IInv, BlocksInMemory
      <4>2. b.base >= 0 /\ b.size > 0
        BY <3>1, Constants DEF IInv, TypeOK, SizeT
      <4> QED
        BY <4>1, <4>2, <3>5 DEF Heap!Fresh, Heap!Inside, Heap!Apart, Apart
    <3> QED
      BY <2>1, <2>2, <3>1, <3>2, <3>4, <3>6 DEF Heap!Request
  <2>3. ASSUME NEW sz \in SizeT, NEW gone \in SUBSET Owned, status = "running",
               Allocate(sz, gone), ~CanGrow(PagesToAlloc(sz))
        PROVE  Heap!Stop
    BY <2>3 DEF Allocate, Heap!Stop, Owned
  <2>4. ASSUME NEW sz \in SizeT, NEW gone \in SUBSET Owned, status = "running",
               AllocateNothing(sz, gone)
        PROVE  Heap!Request
    BY <2>1, <2>4 DEF AllocateNothing, Heap!Request, Owned
  <2>5. ASSUME NEW b \in Owned, Free(b)
        PROVE  Heap!Request
    <3>1. Owned' = Owned \ {b}
      BY <2>5 DEF Free, Owned
    <3> QED
      BY <2>1, <2>5, <3>1 DEF Free, Heap!Request
  <2>6. CASE UNCHANGED vars
    BY <2>6 DEF vars, Heap!heapVars, Owned
  <2>7. CASE Next
    BY <2>2, <2>3, <2>4, <2>5, <2>7, StepCases DEF Heap!Next
  <2> QED
    BY <2>6, <2>7
<1> QED
  BY <1>1, <1>2, Invariance, PTL DEF Spec, ImplementsHeapSpec, Heap!Spec
=============================================================================
