------------------------------ MODULE DsMalloc ------------------------------
(***************************************************************************)
(* The allocator of a contract (libraries/ftllib/src/malloc.cpp): a bump   *)
(* allocator over WebAssembly linear memory.  Pointers and sizes are       *)
(* size_t, 32 bits wide in wasm32, so every sum and product is taken       *)
(* modulo the address space.  The bytes of the blocks are not modelled.    *)
(***************************************************************************)
EXTENDS Integers

CONSTANTS
    PageSize,       \* bytes of a WebAssembly page (wasm_page_size, 2^16)
    PageLimit,      \* pages of the address space (2^16 in wasm32)
    Alignment,      \* align_amt, 8 for every caller
    HostMaxPages,   \* pages the engine lets a contract have
    HeapBases,      \* values the linker may give __heap_base
    Sizes           \* sizes and counts the contract passes

AddressSpace == PageSize * PageLimit

SizeT == 0 .. AddressSpace - 1

ASSUME DsMallocAssumption ==
    /\ PageSize \in Nat \ {0}
    /\ PageLimit \in Nat \ {0}
    /\ Alignment \in Nat \ {0}
    /\ PageSize % Alignment = 0
    /\ HostMaxPages \in Nat
    /\ HostMaxPages <= PageLimit
    /\ Sizes \subseteq SizeT

VARIABLES
    heap,           \* dsmalloc::heap, where the heap starts
    last_ptr,       \* dsmalloc::last_ptr, the next address to hand out
    next_page,      \* dsmalloc::next_page, the pages dsmalloc believes exist
    memory,         \* the pages the engine has given the instance
    blocks,         \* every block handed out, records [base, size]
    freed,          \* those of them the contract has given back
    status          \* "running", or "aborted" by ftl::check

vars == <<heap, last_ptr, next_page, memory, blocks, freed, status>>

Owned == blocks \ freed

Bytes(pages) == pages * PageSize

-----------------------------------------------------------------------------
\* Operators named ..._Bug are the next definition with a plausible slip in it;
\* no action uses them.

AlignUp_BugDown(ptr) == LET p == ptr % AddressSpace IN p - (p % Alignment)

\* align: (ptr + align_amt - 1) & ~(align_amt - 1), in size_t.
AlignUp(ptr) ==
    LET up == (ptr + Alignment - 1) % AddressSpace
    IN  up - (up % Alignment)

\* wasm-ld: the pages that hold everything below __heap_base.
LinkedPages(base) == (base + PageSize - 1) \div PageSize

\* The assumption under which the heap is safe up to the end of the address
\* space: it starts inside the last page of the image, or the engine keeps
\* the last two pages out of reach.
ASSUME HeapBaseAssumption ==
    \A base \in HeapBases :
        /\ base \in Nat \ {0}
        /\ LinkedPages(base) <= HostMaxPages
        /\ \/ base + Alignment <= Bytes(LinkedPages(base))
           \/ HostMaxPages + 1 < PageLimit

(***************************************************************************)
(* A fresh instance after the constructor of _dsmalloc has run: the word   *)
(* at address 0 holds __heap_base, and next_page is what the engine        *)
(* reports.                                                                *)
(***************************************************************************)
Init ==
    \E base \in HeapBases :
        /\ heap = AlignUp(base)
        /\ last_ptr = heap
        /\ memory = LinkedPages(base)
        /\ next_page = memory
        /\ blocks = {}
        /\ freed = {}
        /\ status = "running"

-----------------------------------------------------------------------------
Cursor_BugWide(sz) == last_ptr + sz

\* last_ptr once sz bytes are handed out.
Cursor(sz) == AlignUp((last_ptr + sz) % AddressSpace)

\* (next_page << 16) <= last_ptr, after next_page += sz >> 16.
PageShort(sz) ==
    (Bytes(next_page + (sz \div PageSize)) % AddressSpace) <= Cursor(sz)

PagesToAlloc_BugWholePages(sz) == sz \div PageSize

PagesToAlloc_BugAlwaysOneMore(sz) == (sz \div PageSize) + 1

\* pages_to_alloc, as passed to memory.grow.
PagesToAlloc(sz) == (sz \div PageSize) + (IF PageShort(sz) THEN 1 ELSE 0)

NextPage_BugForgotten(sz) == next_page + (sz \div PageSize)

\* next_page, moved along with it.
NextPage(sz) ==
    next_page + (sz \div PageSize) + (IF PageShort(sz) THEN 1 ELSE 0)

CanGrow_BugUnchecked(pages) == TRUE

\* memory.grow, which answers -1 beyond the limit of the engine.
CanGrow(pages) == memory + pages <= HostMaxPages

(***************************************************************************)
(* dsmalloc::operator(): last_ptr and next_page move before the growth is  *)
(* checked, so they have moved in an aborted contract too.  The caller     *)
(* gives `gone` back.                                                      *)
(***************************************************************************)
Allocate(sz, gone) ==
    /\ sz # 0
    /\ last_ptr' = Cursor(sz)
    /\ next_page' = NextPage(sz)
    /\ \/ /\ CanGrow(PagesToAlloc(sz))
          /\ memory' = memory + PagesToAlloc(sz)
          /\ blocks' = blocks \cup {[base |-> last_ptr, size |-> sz]}
          /\ freed' = freed \cup gone
          /\ status' = status
       \/ /\ ~CanGrow(PagesToAlloc(sz))
          /\ status' = "aborted"
          /\ UNCHANGED <<memory, blocks, freed>>
    /\ heap' = heap

\* dsmalloc::operator() answers NULL to a request of no bytes.
AllocateNothing(sz, gone) ==
    /\ sz = 0
    /\ freed' = freed \cup gone
    /\ UNCHANGED <<heap, last_ptr, next_page, memory, blocks, status>>

Malloc(sz) ==
    /\ status = "running"
    /\ Allocate(sz, {}) \/ AllocateNothing(sz, {})

\* count * size wraps as size_t does.
Calloc(count, sz) ==
    LET n == (count * sz) % AddressSpace
    IN  /\ status = "running"
        /\ Allocate(n, {}) \/ AllocateNothing(n, {})

Realloc_BugInPlace(b, sz) ==
    /\ status = "running"
    /\ sz # 0
    /\ blocks' = (blocks \ {b}) \cup {[base |-> b.base, size |-> sz]}
    /\ UNCHANGED <<heap, last_ptr, next_page, memory, freed, status>>

\* The old block is neither moved nor reused: realloc is another malloc.
Realloc(b, sz) ==
    /\ status = "running"
    /\ Allocate(sz, {b}) \/ AllocateNothing(sz, {b})

\* free does nothing; `freed` is the contract's own account.
Free(b) ==
    /\ status = "running"
    /\ freed' = freed \cup {b}
    /\ UNCHANGED <<heap, last_ptr, next_page, memory, blocks, status>>

Next ==
    \/ \E sz \in Sizes : Malloc(sz)
    \/ \E count, sz \in Sizes : Calloc(count, sz)
    \/ \E b \in Owned, sz \in Sizes : Realloc(b, sz)
    \/ \E b \in Owned : Free(b)

Spec == Init /\ [][Next]_vars

-----------------------------------------------------------------------------
(* Properties *)

Apart(b, c) == b.base + b.size <= c.base \/ c.base + c.size <= b.base

\* The state of the allocator and of the engine is well formed.
TypeOK ==
    /\ heap \in SizeT
    /\ last_ptr \in SizeT
    /\ next_page \in Nat
    /\ memory \in 0 .. HostMaxPages
    /\ blocks \subseteq [base : SizeT, size : SizeT \ {0}]
    /\ freed \subseteq blocks
    /\ status \in {"running", "aborted"}

\* A block handed out lies in the heap and in memory the engine has really
\* given, also when the request reaches the end of the 32-bit address space.
BlocksInMemory ==
    \A b \in blocks : heap <= b.base /\ b.base + b.size <= Bytes(memory)

\* No two blocks ever handed out share a byte: neither rounding nor a wrap of
\* last_ptr brings the allocator back over a block.
BlocksDisjoint == \A b, c \in blocks : b # c => Apart(b, c)

\* dsmalloc keeps its own count of pages and never asks the engine again:
\* while the contract runs the count is exact.
PageCountExact == status = "running" => next_page = memory

\* memory.grow is never asked for a page more than the heap has come to need:
\* less than two pages are ever unused.
NoPageWasted ==
    status = "running" => Bytes(memory) - last_ptr <= PageSize

\* last_ptr never moves down in a contract that keeps running.
CursorMonotone ==
    [][status' = "running" => last_ptr' >= last_ptr]_vars

\* With a page out of the engine's reach, a request stops the contract only
\* when it fills or exceeds the memory the engine may give.
AbortOnlyWhenFull ==
    [][ status # "aborted" /\ status' = "aborted" /\ HostMaxPages < PageLimit
        => last_ptr' >= Bytes(HostMaxPages) \/ last_ptr' <= last_ptr ]_vars

\* The bump allocator implements what a contract may rely on.
Heap == INSTANCE HeapSpec
            WITH owned  <- Owned,
                 extent <- Bytes(memory),
                 ok     <- status = "running"

ImplementsHeapSpec == Heap!Spec
=============================================================================
