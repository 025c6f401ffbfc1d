---------------------------- MODULE ContractStart ----------------------------
(***************************************************************************)
(* From object files to a contract that serves an action.  fractal-ld runs *)
(* wasm-ld, which resolves the archives, orders the constructors and lays  *)
(* out memory, then fractal-pp, which stores the start of the heap at      *)
(* address 0.  When the host calls apply, the call FtlFixup inserted runs  *)
(* the constructors; that of the allocator reads the word at address 0,    *)
(* and the others may already need the allocator.                          *)
(***************************************************************************)
EXTENDS Integers, Sequences, FiniteSets, SequencesExt

CONSTANTS
    PageSize, PageLimit, Alignment, HostMaxPages, HeapBases, Sizes,
    Objects,        \* the objects fractal-ld is given, in order
    Members,        \* the members of all archives
    Late,           \* those of the libraries -l adds to libc++, libc and libftl_malloc
    Allocator,      \* the member that defines malloc and _dsmalloc
    StackSize,      \* -zstack-size
    DataSizes,      \* bytes of static data a program may have
    PostPassFails,  \* whether fractal-pp may fail
    MaxBlocks       \* bound: blocks a contract allocates

ASSUME StartAssumption ==
    /\ Objects \in Seq(ToSet(Objects)) /\ IsInjective(Objects)
    /\ IsFiniteSet(Members) /\ Members \cap ToSet(Objects) = {}
    /\ Late \in Seq(ToSet(Late)) /\ IsInjective(Late)
    /\ ToSet(Late) \subseteq Members \ {Allocator}
    /\ Allocator \in Members
    /\ \A d \in DataSizes : StackSize + d \in HeapBases

VARIABLES
    \* the program
    needs,          \* the members each file has undefined references to
    constructed,    \* the files with objects to construct dynamically
    early,          \* those of them with an init_priority below the default
    \* wasm-ld
    queue,          \* objects not yet added, and members not yet lazy
    parsing,        \* files being parsed, innermost last: [file, refs]
    seen,           \* ArchiveFile::Seen
    objectFiles,    \* SymbolTable::ObjectFiles
    heapBase,       \* __heap_base
    \* the contract
    stage,          \* "link", "postpass", "linked", "ctors", "body", "done"
    cell0,          \* the word at address 0
    initFunctions,  \* calls left in __wasm_call_ctors
    \* the allocator
    heap, last_ptr, next_page, memory, blocks, freed, status

program == <<needs, constructed, early>>
linker == <<queue, parsing, seen, objectFiles, heapBase>>
mallocVars == <<heap, last_ptr, next_page, memory, blocks, freed, status>>
vars == <<program, linker, stage, cell0, initFunctions, mallocVars>>

Dsm == INSTANCE DsMalloc

\* What DsMalloc assumes of its constants.
ASSUME MemoryAssumption ==
    /\ PageSize \in Nat \ {0} /\ PageLimit \in Nat \ {0} /\ Alignment \in Nat \ {0}
    /\ PageSize % Alignment = 0
    /\ HostMaxPages \in Nat /\ HostMaxPages <= PageLimit
    /\ Sizes \subseteq Dsm!SizeT
    /\ \A base \in HeapBases :
          /\ base \in Nat \ {0}
          /\ Dsm!LinkedPages(base) <= HostMaxPages
          /\ \/ base + Alignment <= Dsm!Bytes(Dsm!LinkedPages(base))
             \/ HostMaxPages + 1 < PageLimit

Files == ToSet(Objects) \cup Members

\* The archives fractal-ld names before the objects: -lc++ -lc -lftl_malloc.
Defaults == Members \ ToSet(Late)

\* The files of M that a file needs by way of files of M: those in every set that
\* holds what the file needs and what its own members need.
ClosureIn(M, f) ==
    {m \in M :
        \A S \in SUBSET M :
            needs[f] \cap M \subseteq S /\ (\A x \in S : needs[x] \cap M \subseteq S) => m \in S}

Closure(f) == ClosureIn(Members, f)

Allocates(f) == Allocator \in Closure(f)

\* The file reaches malloc through the archives that come before it.
AllocatesInTime(f) == Allocator \in ClosureIn(Defaults, f)

(***************************************************************************)
(* The programs: _dsmalloc has a dynamic constructor, the files malloc.cpp *)
(* itself needs have none (memset and ftl::check), and no library file     *)
(* with a constructor is in a circle of dependencies.  A constructor with  *)
(* an early priority does not allocate, and that of _dsmalloc has none.    *)
(***************************************************************************)
Init ==
    /\ needs \in [Files -> SUBSET Members]
    /\ \A m \in Members : m \notin needs[m]
    /\ constructed \in {c \in SUBSET Files : Allocator \in c}
    /\ Closure(Allocator) \cap constructed \subseteq {Allocator}
    /\ \A f \in constructed \ {Allocator} : f \notin Closure(f)
    /\ early \in SUBSET {f \in constructed \ {Allocator} : ~Allocates(f)}
    /\ queue = Objects \o Late
    /\ parsing = <<>>
    /\ seen = {}
    /\ objectFiles = <<>>
    /\ heapBase = 0
    /\ stage = "link"
    /\ cell0 = 0
    /\ initFunctions = <<>>
    /\ heap = 0 /\ last_ptr = 0 /\ next_page = 0    \* .bss
    /\ memory = 0
    /\ blocks = {} /\ freed = {}
    /\ status = "running"

-----------------------------------------------------------------------------
(* wasm-ld *)

\* SymbolTable::addFile: the next object of the command line is parsed.
AddFile ==
    /\ stage = "link" /\ parsing = <<>> /\ queue # <<>>
    /\ Head(queue) \in ToSet(Objects)
    /\ parsing' = <<[file |-> Head(queue), refs |-> needs[Head(queue)]]>>
    /\ queue' = Tail(queue)
    /\ UNCHANGED <<program, seen, objectFiles, heapBase, stage, cell0,
                   initFunctions, mallocVars>>

\* The symbol of the member is there already, and undefined.
Undefined(m) == \E f \in ToSet(objectFiles) : m \in needs[f]

\* ArchiveFile::parse and SymbolTable::addLazy: behind the objects come the
\* libraries of -l, and a member that is referred to by now is parsed at once.
AddLazy ==
    /\ stage = "link" /\ parsing = <<>> /\ queue # <<>>
    /\ LET m == Head(queue)
       IN  /\ m \in Members
           /\ \/ /\ Undefined(m)
                 /\ seen' = seen \cup {m}
                 /\ parsing' = <<[file |-> m, refs |-> needs[m]]>>
              \/ ~Undefined(m) /\ UNCHANGED <<seen, parsing>>
    /\ queue' = Tail(queue)
    /\ UNCHANGED <<program, objectFiles, heapBase, stage, cell0, initFunctions, mallocVars>>

\* What the archives parsed so far hold.
Lazy == Members \ ToSet(queue)

Fetches_BugAgain(m) == m \in Lazy

\* ArchiveFile::addMember parses a member the first time only.
Fetches(m) == m \in Lazy \ seen

\* An undefined reference to a lazy symbol fetches its member at once, in the
\* middle of parsing the file that refers to it; one to a symbol that no archive
\* has defined yet waits.
Resolve(m) ==
    /\ stage = "link" /\ parsing # <<>>
    /\ LET top == Last(parsing)
           rest == Append(Front(parsing), [top EXCEPT !.refs = @ \ {m}])
       IN  /\ m \in top.refs
           /\ parsing' = IF Fetches(m)
                         THEN Append(rest, [file |-> m, refs |-> needs[m]])
                         ELSE rest
    /\ seen' = IF m \in Lazy THEN seen \cup {m} ELSE seen
    /\ UNCHANGED <<program, queue, objectFiles, heapBase, stage, cell0,
                   initFunctions, mallocVars>>

ObjectFilesWith_BugOnEntry(file) == <<file>> \o objectFiles

\* A parsed file joins ObjectFiles after the members it fetched.
ObjectFilesWith(file) == Append(objectFiles, file)

Parsed ==
    /\ stage = "link" /\ parsing # <<>>
    /\ Last(parsing).refs = {}
    /\ objectFiles' = ObjectFilesWith(Last(parsing).file)
    /\ parsing' = Front(parsing)
    /\ UNCHANGED <<program, queue, seen, heapBase, stage, cell0,
                   initFunctions, mallocVars>>

\* layoutMemory with -stack-first: stack, static data, heap; the heap begins
\* where they end.
HeapBaseFor(data) == StackSize + data

Layout(data) ==
    /\ stage = "link" /\ parsing = <<>> /\ queue = <<>>
    /\ heapBase' = HeapBaseFor(data)
    /\ stage' = "postpass"
    /\ UNCHANGED <<program, queue, parsing, seen, objectFiles, cell0,
                   initFunctions, mallocVars>>

HeapPointer_BugRoundDown == heapBase - (heapBase % Alignment)

\* AddHeapPointerData.
HeapPointer == Dsm!AlignUp(heapBase)

\* fractal-pp adds a data segment for address 0.  fractal-ld ignores its exit
\* status: when it fails, the module stays as wasm-ld wrote it.
PostPass ==
    /\ stage = "postpass"
    /\ \/ cell0' = HeapPointer
       \/ PostPassFails /\ cell0' = 0
    /\ stage' = "linked"
    /\ UNCHANGED <<program, linker, initFunctions, mallocVars>>

-----------------------------------------------------------------------------
(* The host calls apply *)

NumMemoryPages_BugTruncated == heapBase \div PageSize

\* The memory section wasm-ld writes.
NumMemoryPages == Dsm!LinkedPages(heapBase)

\* A constructor may be called before another: the early ones come first, in the
\* order of their priorities, and the rest in the order of ObjectFiles.
Precedes(f, g) ==
    \/ f \in early
    \/ /\ g \notin early
       /\ \E i, j \in DOMAIN objectFiles : i < j /\ objectFiles[i] = f /\ objectFiles[j] = g

\* calculateInitFunctions: the constructors of ObjectFiles, stably sorted.
CtorCalls ==
    {calls \in SetToSeqs(constructed \cap ToSet(objectFiles)) :
        \A i, j \in DOMAIN calls : i < j => Precedes(calls[i], calls[j])}

\* Memory is instantiated, and the call at the entry of apply enters
\* __wasm_call_ctors: one call per constructor.
EnterApply ==
    /\ stage = "linked"
    /\ memory' = NumMemoryPages
    /\ initFunctions' \in CtorCalls
    /\ stage' = "ctors"
    /\ UNCHANGED <<program, linker, cell0, heap, last_ptr, next_page, blocks,
                   freed, status>>

\* dsmalloc::dsmalloc().
Construct ==
    /\ stage = "ctors" /\ initFunctions # <<>>
    /\ status = "running"
    /\ Head(initFunctions) = Allocator
    /\ heap' = Dsm!AlignUp(cell0)
    /\ last_ptr' = heap'
    /\ next_page' = memory
    /\ initFunctions' = Tail(initFunctions)
    /\ UNCHANGED <<program, linker, stage, cell0, memory, blocks, freed,
                   status>>

\* Any other constructor, which may allocate when its file can reach malloc.
UserConstruct ==
    /\ stage = "ctors" /\ initFunctions # <<>>
    /\ status = "running"
    /\ Head(initFunctions) # Allocator
    /\ \/ UNCHANGED mallocVars
       \/ /\ Allocates(Head(initFunctions))
          /\ Cardinality(blocks) < MaxBlocks
          /\ \E sz \in Sizes : Dsm!Malloc(sz)
    /\ initFunctions' = Tail(initFunctions)
    /\ UNCHANGED <<program, linker, stage, cell0>>

EnterBody ==
    /\ stage = "ctors" /\ initFunctions = <<>> /\ status = "running"
    /\ stage' = "body"
    /\ UNCHANGED <<program, linker, cell0, initFunctions, mallocVars>>

\* The handler of the action, as far as memory is concerned.  It can only
\* reach malloc when the allocator is linked in.
Body ==
    /\ stage = "body"
    /\ Allocator \in seen
    /\ Cardinality(blocks) < MaxBlocks
    /\ \E sz \in Sizes : Dsm!Malloc(sz)
    /\ UNCHANGED <<program, linker, stage, cell0, initFunctions>>

\* apply returns; __cxa_finalize(0) runs the destructors before it does.
Return ==
    /\ stage = "body" /\ status = "running"
    /\ stage' = "done"
    /\ UNCHANGED <<program, linker, cell0, initFunctions, mallocVars>>

Next ==
    \/ AddFile
    \/ AddLazy
    \/ \E m \in Members : Resolve(m)
    \/ Parsed
    \/ \E data \in DataSizes : Layout(data)
    \/ PostPass
    \/ EnterApply
    \/ Construct
    \/ UserConstruct
    \/ EnterBody
    \/ Body
    \/ Return

Spec == Init /\ [][Next]_vars

-----------------------------------------------------------------------------
(* Properties *)

\* Archive members are parsed and linked once, though they may need each
\* other in a circle.
LinkedOnce ==
    /\ IsInjective(objectFiles)
    /\ \A i, j \in DOMAIN parsing :
          parsing[i].file = parsing[j].file => i = j
    /\ stage # "link" => \A f \in ToSet(objectFiles) : needs[f] \subseteq seen

\* malloc.cpp: no constructor that reaches malloc through the archives before its
\* file runs before that of _dsmalloc.  Nothing says so in the code; the order of the
\* default archives and the objects on the command line, and depth-first fetching,
\* bring it about.  One that reaches malloc only through a library of -l may.
AllocatorFirst ==
    stage = "ctors" =>
        \A i, j \in DOMAIN initFunctions :
            /\ initFunctions[j] = Allocator
            /\ i < j
            => ~AllocatesInTime(initFunctions[i])

\* No block of the contract, constructors included, touches the stack, the
\* static data or the word at address 0, or lies outside memory, unless there is a
\* constructor that reaches malloc only through a library of -l.
HeapAboveImage ==
    (\A f \in constructed \cap ToSet(objectFiles) : Allocates(f) => AllocatesInTime(f)) =>
        \A b \in blocks : /\ b.base >= heapBase
                          /\ b.base + b.size <= memory * PageSize

\* malloc.cpp says of the word at address 0 that the linker places the start
\* of the heap there: so it is in every module fractal-ld reports as built.
LinkerPlacesHeapBase ==
    stage \in {"linked", "ctors", "body", "done"} =>
        cell0 = Dsm!AlignUp(heapBase)

\* What runs in an instance from the constructor on is the allocator of
\* DsMalloc: until the first block is asked for it is where Init of that module
\* starts it.
StartsAsDsMalloc ==
    stage = "body" /\ Allocator \in seen /\ blocks = {} /\ status = "running" => Dsm!Init
=============================================================================
