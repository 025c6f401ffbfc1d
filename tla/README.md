# A verification development for Fractal.CDT

Fractal.CDT turns C++ contracts into WebAssembly modules for the Fractal
platform. It has two halves. The *tools* (`fractal-cpp`, `fractal-ld`,
`fractal-pp`, a patched clang and wasm-ld) compile, link and describe a
contract; the *library* (`libraries/ftllib`, a small libc and libc++) is linked
into it and runs on the host. This directory holds TLA+ models of both, TLC
configurations that check them on small instances, and proofs that TLAPS
checks.

Paths below are relative to the repository; `ftllib/` stands for
`libraries/ftllib/include/ftllib/`.

## 1. The system

| Component | State | Operations | Talks to |
|---|---|---|---|
| Allocator, `libraries/ftllib/src/malloc.cpp` | `heap`, `last_ptr`, `next_page` | constructor, `malloc`, `calloc`, `realloc`, `free` | the engine's memory; everything that allocates |
| Start-up: wasm-ld (`tools/llvm/tools/lld/wasm`), `fractal-pp` (`postpass.cc`), `FtlFixup` | lazy symbols, `ObjectFiles`, constructors, memory layout, the word at address 0 | resolving archives, laying out memory, storing the heap pointer, calling constructors from `apply` | the allocator, whose first state it produces |
| Datastream, `ftllib/datastream.hpp` | start, cursor, end; or a size | `read`, `write`, `get`, `put`, `skip`, `seekp`, `tellp`, `remaining` | serialisation |
| Serialisation, `ftllib/datastream.hpp`, `varint.hpp` | none of its own | `operator<<` and `operator>>` per type, `pack`, `pack_size`, `unpack` | datastream, allocator |
| Tables, `ftllib/map.hpp` | the host's key-value store | `put`, `get`, `has_key`, `erase` | serialisation, host |
| Cross-contract calls, `ftllib/action.hpp` | call frames and results, at the host | `call` with and without a result | serialisation, dispatcher, host |
| Dispatcher, `ftllib/dispatcher.hpp` | none | `apply`, `execute_action` | calls, serialisation |
| Names, `ftllib/name.hpp`, `tools/fractal-tools/include/ftl/utils.hpp` | none | encode, decode, validate | tables, dispatcher, ABI generator |
| Addresses, `ftllib/address.hpp` | 20 bytes | from a string, comparison | calls |
| Logs, `ftllib/log.hpp`, `crypto.hpp` | none | `log`, `log_hash` | serialisation, allocator, host |
| Memory functions, `libraries/ftllib/src/memory.cpp` | none | `memset`, `memcpy`, `memmove`, `memcmp` | allocator |
| Printing, assertions, crypto, system calls (`ftllib/*.hpp`) | none | wrappers of host functions | host |
| ABI generator, `tools/fractal-tools/include/ftl/{abigen,gen,abi}.hpp` | the sets of an `abi` | `add_struct`, `add_type`, `add_action`, `add_table`, `to_json` | the driver; must agree with the dispatcher |
| Driver, `tools/fractal-tools/{cc,ld,include}` | files: temporaries and outputs | generate, compile, link, post-process | every other tool |

What makes this code hard is not threads: a contract is single-threaded and
each action gets an instance of its own. It is 32-bit arithmetic at the edge of
the address space, state that is read once and cached, an initialisation order
that no line of code states, two traversals that must agree on every type,
calls between contracts that nest and re-enter, and a pipeline of processes
that judge each other by the files they leave. `PROJECT.json` lists each such
hazard at its line, with the properties that cover it or the reason why none
does.

### What makes each component correct

* Allocator: blocks never overlap, lie in memory the engine has given, and an
  allocation fails only when memory is used up.
* Start-up: the allocator is constructed before anything uses it, and starts
  above the stack and static data.
* Datastream and serialisation: no access outside the buffer; `pack` fills
  exactly what `pack_size` reserves; `unpack` gives back what was packed.
* Tables: a table behaves as a map from keys to values, whatever else is in the
  store, and a rejected operation changes nothing.
* Calls and dispatcher: a caller sees the result of the call it made and no
  other; a nested call never disturbs the frame below it.
* Names: the two codecs agree, so that a name in the ABI is the one the
  dispatcher compares with.
* Logs: what the node gets is what was logged, in order, and no block is lost.
* Memory functions: overlapping areas are copied right, and nothing else is
  written.
* Addresses: the parser stays inside the address.
* ABI generator: every action the dispatcher serves is described, and every
  type a description mentions is described or built in.
* Driver: when it reports success, the output is the contract of its inputs.

## 2. Plan

Modules, in order of importance; all of them are written.

1. `HeapSpec`, `DsMalloc`, `DsMallocProofs` - the allocator, its abstract
   specification and the proofs.
2. `ContractStart`, `ContractStartProofs` - linking and start-up, composed with
   `DsMalloc` and with the proofs about it.
3. `Datastream`, `DatastreamProofs` - the cursor and its bounds; `VarInt` and
   `Codec` - serialisation as operators, checked against what must survive it, and
   the proofs about the integers in it.
4. `TableSpec`, `Table`, `TableProofs` - tables over the host's store implement
   an abstract map each, and the proof of it.
5. `Driver`, `DriverProofs` - the pipeline of processes over the file system,
   with tools that fail, outputs left by earlier runs and two invocations at
   once.
6. `AbiGen`, `AbiGenProofs` - traversal, pruning, agreement with the dispatcher,
   and whether the traversal ends; `Name`.
7. `Calls`, `CallsProofs` - cross-contract calls and the dispatcher over the
   host's frames.
8. `Memory`, `Address`, `Log`, `LibraryProofs`.

Aligned allocation (`memalign.c`) was planned and dropped: it edits the headers
of musl's own allocator, which the SDK replaces by one that has none, so nothing
it does to the words below a block could be called right or wrong.

Left to TLC alone: the serialisation of types other than integers in `Codec` (4 says
why), and liveness.

## 3. What is modelled

An operator whose name ends in `_Bug...` stands before the definition it
varies: it is that definition with a plausible slip in it. No action uses one;
putting it in the place of the original makes the property it is listed with in
`PROJECT.json` fail, which shows that the property depends on that line of code.

### 3.1 The allocator: `HeapSpec`, `DsMalloc`

`DsMalloc` is `malloc.cpp`. `heap`, `last_ptr` and `next_page` are the fields of
`dsmalloc`; `memory` is the engine's page count. `Malloc`, `Calloc`, `Realloc`
and `Free` are the four entry points; the first three share `Allocate`, which is
`operator()`: align the cursor, count the pages, grow, stop if the engine
refuses. Everything of type `size_t` is taken modulo the address space,
including the product in `calloc`. `blocks` and `freed` record what was handed
out; the code keeps no such record. The bytes in the blocks are not modelled.

`HeapSpec` is what a caller may rely on: owned blocks lie in memory and apart.
`ImplementsHeapSpec` maps the owned blocks, the size of memory and "still
running" to it.

* `heap_wrap`: 16 addresses, four pages, every size, so that cursor, page count
  and product all wrap. Checks the type invariant, `BlocksInMemory`,
  `BlocksDisjoint`, `PageCountExact`, `CursorMonotone` and the refinement.
* `heap_limit`: an engine that stops short of the address space. Checks that a
  contract is stopped only when memory is full (`AbortOnlyWhenFull`) and that
  growth is no more than needed (`NoPageWasted`).

`HeapBaseAssumption` is the condition under which the end of the address space
is safe: the heap starts within the last page of the image, or the engine keeps
the last two pages back (`HostMaxPages + 1 < PageLimit`). With the heap starting
exactly at a page boundary and an engine that gives all 65536 pages,
`next_page << 16` is 0 when the last page is reached, and the comparison that
decides about growth is wrong. How much memory a contract gets is the engine's
choice and not this repository's, which is why this is an assumption and not a
finding.

### 3.2 From object files to a running contract: `ContractStart`

`malloc.cpp` needs its constructor to have run before anything allocates, and the
word at address 0 to hold the start of the heap. No line of code says either; they
follow from how wasm-ld, `fractal-pp` and the `FtlFixup` pass work together. The
command line names the SDK's archives, then the objects, then the libraries of `-l`.
`AddFile`, `Resolve` and `Parsed` are wasm-ld's depth-first fetching of archive
members, which fixes the order of `ObjectFiles`; `AddLazy` is the parsing of a
library behind the objects, one member a step, which fetches a member at once when
an object has left a reference to it (`Undefined`). `Layout` is `layoutMemory`;
`PostPass` is `fractal-pp`; `EnterApply` to `Return` are the instance, in which the
constructors run in the order of `ObjectFiles` and priority. The heap variables are
those of `DsMalloc`, whose operators the module uses through `INSTANCE`.

* `contract_start`: two objects and three members - the allocator, another of the
  SDK's archives, and one of a library of `-l` - with every dependency between
  them that a program can have, every choice of constructors and priorities, two
  sizes of static data, requests of which one is more than the engine gives.
  Checks `AllocatorFirst`, `LinkedOnce` (circular archives), `HeapAboveImage` (no
  block in the stack, the static data or the word at 0) and `StartsAsDsMalloc`
  (while the action has asked for nothing, the allocator's state is one that
  `DsMalloc` starts in).
* `post_pass_failure`: see Findings.

The archives before the objects are what brings the allocator's constructor
forward. A constructor that reaches `malloc` only through a library of `-l` may run
before it: its file has joined `ObjectFiles` when that library is parsed, and the
block it gets lies in the stack, at addresses from 0 on, before the allocator
starts its heap anew. `AllocatorFirst` speaks of the constructors that reach
`malloc` by way of the SDK's archives (`AllocatesInTime`), and `HeapAboveImage` of
programs in which every one that allocates does. `HeapAboveImage` without this
condition is false of the code.

Init excludes programs whose own constructors ask to run before the default
priority *and* allocate, and those in which the allocator, or a file with a
constructor, needs itself in a circle. One apply is run in an instance.

### 3.3 Streams: `Datastream`

Both specialisations of `datastream`. A traversal is first counted, on
`datastream<size_t>`, then repeated on a buffer of the counted size, then a
stream over the buffer is used in any sequence of `read`, `get`, `write`, `put`,
`skip` and `seekp` (`WriteOwn` and `PutOwn`: the length of a contract's own `write`
is whatever the contract says). The
cursor wraps as a pointer does; `write` compares signed numbers and `read`
unsigned ones (`Signed`).

* `datastream`: eight addresses and three calls, so that lengths of half the
  address space and more occur. `PackFills`: the second traversal ends at the
  end of the buffer. `PackAbortsOnlyWhenHuge`: its checks stop a contract only
  for half the address space or more. `CheckedAccess`: from a valid stream every
  `read`, `get` and `put`, and every `write` of less than half the address space,
  touches only the buffer and leaves the stream valid. A `write` of more, where less
  than half the address space remains (`TakenForNegative`), passes the check, whose
  cast makes the length negative, and goes past the end of the buffer: the property
  says so, and says that there is no other case.
* `seekp_out_of_range`: see Findings.

After `skip` or `seekp` has passed the end, `remaining()` is the wrapped
difference, close to 2^32, and not a number of bytes that can be read; the checks
of `read` and `write` use it, which is why `CheckedAccess` speaks of valid streams.

### 3.4 Serialisation: `VarInt`, `Codec`

`VarInt` is `varint.hpp`: `PackVar` and `ReadVar` for `unsigned_int`, with a word of
`WordBits` bits in groups of `PayloadBits`, one to a byte; `ZigZag` and `UnZigZag`
between a `signed_int` and the word it is written as. `Left` is what the loop of
`operator<<` has not written yet; the sum in `ReadVar` is the loop of `operator>>`.

`Pack(type, value)` and `Read(type, old, bytes)` are `operator<<` and
`operator>>` for each kind of type. `Read` gives the set of possible outcomes:
empty when a check stops the contract, several when the code has no defined
value (a varint whose groups are shifted by the width of a word or more, which
may give any word). `old` is what the destination held, since `vector`, arrays,
structs and optionals are read in place. A primitive is one byte. The state
machine packs a value, and lets more bytes follow it, cuts it short, or
receives bytes nobody packed, before it reads.

* `codec`: 28 types, bytes of three bits and words of five, so that a varint has
  up to three bytes with bits in the last that do not count. `RoundTrip`: what
  `pack` writes `unpack` reads back, whatever follows. `TruncationNoticed`: a
  packed value that has lost its tail never reads as a value. `TargetDoesNotShow`:
  nothing of what an object held before shows in what is read into it.
  `RepackNeverLonger`: packing what was read takes no more room than it took.

`RoundTrip` and `TargetDoesNotShow` except optionals that are read in place into
an object that has a value: `operator>>` leaves the object as it was when the
stream says the optional is empty. `unpack` reads into a new object, where this
does not show.

### 3.5 Tables: `TableSpec`, `Table`

`TableSpec` is a map for each table: an operation takes effect at once, or stops
the contract with one of four reasons (key too long, no such key, value too
large for the stack buffer when it is put or got) and changes nothing. `Table`
is `map.hpp`: `put` packs the value, makes the `MapKey`, stores; `get` makes the
`MapKey`, asks the store for the size, checks it, loads, unpacks. `MapKeys` are
the objects the constructor may leave, with arbitrary bytes behind the key.
`HostEntry` is what the host gets of one. Packings are constants; the module
assumes of them what `codec` checks: keys pack differently (`KeysDiffer`) and no
packed value begins another (`ValuesPrefixFree`, from `RoundTrip` and
`TruncationNoticed`). Names of tables differ because `DEF_TABLE` declares a
struct for each. The host (external) keeps entries by table and key, says a
negative size for an entry it does not have, and ends the run at a failed check.

* `table`: two tables; keys of no byte, one, two that just fit and three that do
  not, one the beginning of another; values on either side of the stack buffer.
  `EntriesBelong`: every entry in the store has the name of a table's key and
  holds a packed value of that table. `LoadedIsValue`: what `get` loads in two
  calls reads as exactly one value. `ImplementsTableSpec`.
  A key of exactly `MAX_KEY_LENGTH` bytes is accepted, though the message of the
  check says that keys must be smaller.

### 3.6 The drivers: `Driver`

Processes of `fractal-cpp` and `fractal-cc` over one file system, `files`. For
each input `Generate` (the ABI generator), `Choose` (a file of the input's name in
the temporary directory takes the input's place), `Compile`, `RemoveTmp`; then
`Link` and `PostPass`, which are `fractal-ld`, `Clean` and `Check`. A path is a
sequence of parts, a file is what it is and the sources whose text is in it; an
object holds one. Every tool may fail at every call, and clang may leave its old
output or none; a driver notices only a tool it does not find. The ABI's stream is
asked for nothing: `Generate` goes on also when the file could not be opened, which
leaves it as it was, or not be written to its end (`Torn`). Two processes
interleave at each of these steps.

`driver`: two drivers, every pair of nine command lines of which the second has one
input (a bound of `MCDriver`), with an earlier contract and an earlier object both
left over or neither (`Leftovers`).

* `FaithfulBuild`: a driver that nothing interferes with (`Apart`), that found no
  old file of a name it uses (`Fresh`) and whose output is not one of the files it
  makes on its way to it (`OutputApart`) reports success only for an output made
  of its inputs' texts, each once; the ABI beside its last input is complete and of
  the same texts, or torn, or not there: success says nothing of it. Without `-o` it never
  does: `CreateOptions` puts an output name of its own among wasm-ld's inputs, and
  the link fails or the driver looks for another file.
* `TempsGone`: after a link no object and no temporary is left, old ones of the
  same names included.
* `SourcesKept`: no step of any process changes a source outside the temporary
  directory.
* `Ends`: every driver ends, whichever tools fail.

The conditions of `FaithfulBuild`, `TempsGone` and `SourcesKept` are needed. With
`-o` naming the object of an input, the driver removes what it has just linked or
finds the compiler's file in the place of a module. A build whose compiler or
linker fails reports success when the output of an earlier build is still there,
since the exit status is dropped and only the file is asked for. A source that
lies in the temporary directory is compiled in place of another of its name, and
deleted.

A source declares an action or a table: `fractal-cpp` writes no ABI when there
is nothing in it. An output is not also a source (`SourcesAssumption`).

### 3.7 The ABI generator: `AbiGen`

`work` is what the pending calls of `add_type`, `add_struct` and the others have
left to do, the innermost first: the recursion of `abigen.hpp`, one call or one
insertion a step, over the types of a program in which they may mention each
other in a circle. `abi` is the generator's `_abi`, whose sets keep the first
entry of a name (`Inserted`); it stays from one input to the next. `Match` takes
the next declaration, `WriteAbi` is `to_json` with its pruning (`ValidStruct`,
`ValidTypedef`). `Name`, `Spelled` and `TemplateName` are the three ways in which
the code names one type. The native stack holds `StackLimit` calls.

`abigen`: six types - two structs, an alias, a container, a composed type and a
builtin - that mention each other in every way C++ allows, and five choices of
declarations in one or two inputs.

* `AbiClosed`: when the declarations of an input are worked off, every type that
  the entries speak of has an entry or is built in; and so it is in each file, except
  for what only a table speaks of (`LookedFor`): a key or value with a suffix, since
  `validate_struct` and `validate_types` compare these as they stand, and an alias as
  a key, since `validate_types` does not compare keys. Each exception is needed:
  without it the run finds a file that names a type and does not describe it.
* `ActionsDescribed`: every action of any input so far is there with its own
  parameters.
* `TraversalEnds`: the traversal marks no type as visited; it ends for every
  program in which no type contains itself. For others
  (`struct A { vector<A> v; }`) the stack runs out.

An action is listed under the name in its attribute, if it has one, while
`FTL_DISPATCH` makes its cases from the names of methods that it is given: a call
of a renamed action by the name in the ABI returns normally and does nothing.

The names that the code makes do not tell all types apart. `Expressible` is what
they can express: a `vector` or `optional` is not the last part of a pair or map, a
template is spelled as it is translated, bases are plain structs. `NoClash`:
different types and actions have different names, and no action is named like a
builtin. Outside of both the code drops entries or lists names nothing describes.
`ProgramsAssumption` is what C++ makes sure of: how many arguments a type has, that
none contains it, and that no name has a `[]` or `?` in it.

### 3.8 Calls and the dispatcher: `Calls`

A frame is an instance that serves one action. `Enter` and `Finish` are the two
halves of `execute_action` with the switch of `FTL_DISPATCH` (without default);
`Call` and `Collect` are the two halves of `action::call`, before and after the
host's `call_action`. `slot` is the result the host keeps for the caller, `var`
what the pointer for results points to, `live` the buffers from `malloc`. What
the caller believes of the callee's signature (`passes`, `expects`) and what the
callee has (`arity`, `returns`) are unrelated, as in the code: too few bytes stop
the reader, too many are dropped. `ProgramsAssumption` and
`TransactionsAssumption` say no more than what kind of thing a handler and a
transaction are.

The host is external: it starts each call with no result, bounds the depth, and
after a trap it either ends the transaction or lets `call_action` return without
a result; `Trap` allows both.

`calls`: two contracts that call each other and themselves, three frames deep,
every relation between the two signatures, missing actions, and results on either
side of the stack buffer.

* `ResultsAsDirect`: each frame returns what it would if calls were calls of
  functions. `Direct[n]` is what every call gives when `n` more frames fit: a
  function defined from `Direct[n - 1]`, without frames, buffers or slots;
  `Direct[0]` traps.
* `OnlyResultLeaks`: every buffer is freed but that of a frame's own result, which
  `execute_action` leaves: that of the action's data, and of each call the one it was
  sent from and the one its answer was read into (`sent` and `answer` in `Collect`).

That every transaction ends says nothing about this code: handlers are finite here and
the host bounds the depth.

Delegate flags and amounts are passed on and left out, as is a call that expects
a result and passes a null pointer for it.

### 3.9 Functions without state: `Name`, `Memory`, `Log`, `Address`

The next four modules are about functions of the library that keep no state from
one call to the next. One run, `library`, checks them: `MCLibrary` calls one of
them on every small input, while the variables of the others rest.

#### Names: `Name`

`NameOf`, `Length`, `Suffix` and `WriteAsString` are `name.hpp`, `StringToName`,
`ValidateName` and `NameToString` the tools' copy in `utils.hpp`. A name has
`FullChars` characters of `CharBits` bits and a last one of a bit less; in the
code 12, 5 and 64 bits. `NameAssumption` asks for no more than two bits and one
such character. The loops of `name.hpp` are recursive functions over the characters:
`packed` in `NameOf`, `dots` in `BitsAtDots`, which has the bits that are left at
the last dot and at the last dot that a character follows.

Inputs are all strings of up to six characters of two bits and all names of nine
bits. `NamesAgree` consists of `ReadsBack`, `SidesAgree` (the tools accept what a
contract accepts without trailing dots, and make the same name of it) and
`ShortLeavesLastBits` (what `validate_table_name` relies on). `SuffixIsLastPart` says
of every name that what `Suffix` returns reads as what follows the name's last dot,
also where that is the whole name, and that it is its own suffix.

The two sides print the name 0 differently, as nothing and as thirteen dots;
`ReadsBack` says so by its condition.

#### Memory functions: `Memory`

The loops of `memory.cpp`, a byte at a step: `CopyByte`, `SetByte`,
`CompareByte`, `EndLoop`. `memmove` is two copies through a block from `new`,
which is apart from the caller's areas because blocks are (`BlocksDisjoint`);
`CallsAssumption` says so.

Inputs are every content of seven bytes of one bit and every placement of two
areas of up to three, overlapping or not. `Results` consists of `Moved` (for
`memcpy` if the target does not begin inside the source), `WasSet` and `Compared`;
`NothingElseWritten` holds at every step.

#### Logs: `Log`

`Pack` serialises the data, `LogHash` is `log_hash` of the name and of each
argument with the life of its two blocks, `Emit` calls the host's `log_0`,
`log_1` or `log_2`, `Free` ends. With three arguments or more there is no host
function to call and nothing is logged; the comment at `log.hpp:37` can be read
either way, so this is stated here and not listed as a finding. The buffer is
freed also when it is on the stack, which is harmless while `free` does nothing.

Inputs are values on either side of the stack buffer in every position, up to
three arguments, and memory that runs out at any allocation. `LogsCleanly` consists
of `Logged` (the node gets the data and the hashes in order, none of them after it
was freed) and `FreedOnce` (no block of the heap is left or freed twice).

#### Addresses: `Address`

The constructor takes any string. It skips two characters without looking at them
(`Skipped`): of a shorter string it then reads what memory holds behind it, any of
`Behind`. `ReadPair` is one round of its loop, which does not compare its index with
the length of the address; `StorePast` is the round that stores the first byte outside,
where the behaviour is no longer defined and the model stops.

Inputs are strings of up to four characters behind the two, from both ends of each
range of digits and their neighbours, for addresses of two bytes, longer ones by a pair
of two of these characters, and strings that end before there is anything to skip.
`ReadsNumber`: the bytes are those of the number the string is in base 16. `StaysInside`
consists of `WritesInside`, for a string of two characters or more whose pairs are no
more than the address has bytes (`Fits`), and `EndsInside`: the loop comes to its end for no longer
string, and fills the rest of the address with 0.

## 4. What is proved

`DsMallocProofs`, `ContractStartProofs`, `DatastreamProofs`, `TableProofs`,
`DriverProofs`, `AbiGenProofs`, `CallsProofs` and `LibraryProofs` hold the
theorems; each extends the modules it is about and assumes only the `ASSUME`s
stated there, which TLC evaluates for the constants of the runs.

* **Allocator**, for every page size, address space, alignment, engine limit and
  set of sizes: the type invariant, `BlocksInMemory`, `BlocksDisjoint`,
  `PageCountExact`, `NoPageWasted`, `CursorMonotone`, `AbortOnlyWhenFull` and
  the refinement of `HeapSpec`. `IInv` adds `Room` to the invariants: the page
  count is exact and there is headroom above the cursor. Without it nothing says
  that a request that wraps the cursor also asks for more pages than there are
  (`RequestFits`, the heart of the argument).
* **Start-up**, for every program, command line, archive and layout: `LinkedOnce`
  and `AllocatorFirst`; and where `fractal-pp` does not fail (`~PostPassFails`),
  `HeapAboveImage` and `StartsAsDsMalloc`. Where it fails the heap starts at 0
  and neither holds, which is the finding of 5. `LinkInv` is the property of
  depth-first fetching that orders the constructors: each open file depends on
  those opened after it (`Nested`), so that a finished file has only finished
  dependencies but for circles, and none with a constructor lies in one. From it
  follows that the allocator is finished before any file with a constructor that
  reaches it in time (`AllocatorDoneFirst`), since the SDK's archives are there before the
  first object (`DefaultsFirst`); `CtorsOK` carries that through the sort by priority.
  Where every constructor that allocates is such a one (`InTime`), nothing is allocated
  before the allocator is constructed; where one is not, the invariant goes on only for
  runs in which nothing was (`Sound`). From the allocator's constructor on, the invariant of
  `DsMallocProofs` takes over (`Started`); `StartsAsDsMalloc` is what makes the
  theorems there apply to a linked contract.
* **Streams**, for every even address space and traversals of any length: the
  type invariant, `PackFills`, `PackAbortsOnlyWhenHuge`, `CheckedAccess`.
  `IInv` adds that each counted call starts where the one before it ended
  (`CallsChained`) and that the second traversal is exactly at the offset of the
  next call (`InStep`); without them the remaining room is not known to be what
  the remaining calls need.
* **Variable-length integers**, for every width of words and bytes, in the same
  module: what is written reads back whatever follows it (`UnsignedReadsBack`,
  `SignedReadsBack`), a cut is noticed (`CutNoticed`), and no bytes that read as an
  integer are fewer than those it is written in (`PackedShortest`). Before each
  byte, what was read and what is left make the word: the sum is the word modulo the
  next group's place (`Grouped`, `SumsUp`). The shift past a word's width is never
  reached by what was written, and where it is reached the bytes are enough for any
  word (`Places`).
* **Tables**, for all tables, keys, values, packings and limits that meet the
  assumptions: the type invariant, `EntriesBelong`, `LoadedIsValue`, and the
  refinement of `TableSpec`. `IInv` adds what each step of an operation knows:
  that the `MapKey` names the request's entry (`KeyMade`), that the entry whose
  size was loaded is still there, and that the buffer holds the value to be
  stored or read (`Locals`). `EntryOfOne` - two keys never share an entry - and
  `ReadBack` carry the argument.
* **Drivers**, for any number of processes, all command lines and any files left
  from before: the type invariant and `SourcesKept`. `IInv` says what the entries
  of the file system and of the processes are. The argument is about names:
  whatever a driver writes or removes is in the temporary directory, or longer
  than a source's path, or follows `-o` (`SourcesAssumption` keeps these apart
  from sources). `FaithfulBuild` and `TempsGone` follow from `BuildInv`, which
  says of a process that is left alone how far it has come: which temporaries are
  gone (`Gone`), that each object there is of an input with that object's name
  (`InputsMade`), that the output, if there is one, is of all inputs
  (`OutputMade`), and what the ABI holds (`AbiMade`). `Apart` makes it survive the
  steps of the others.
* **ABI generator**, for every program, any number of types, declarations and
  inputs, and any stack: `AbiClosed` and `ActionsDescribed`. The argument is about
  `Things`, all calls that are pending together with all entries made. They are
  `Closed`: whatever an entry, made or pending, speaks of comes from another of
  the `Things`. A call may be taken away because what it leaves to do adds all
  that it stood for (`Stands`, `Replace`; one lemma for each of `StructWork`,
  `Composite`, `Alias` and `TypeWork`), an insertion because the entry that has
  its name stands for it. When nothing is pending, the entries alone are closed
  (`AbiCloses`), and `to_json` leaves out none that it looks for (`JsonCloses`). For the actions
  `Listed` says that those not yet matched are all that may be missing, and
  `StillProvided` that no insertion with a name already taken was theirs. `Stems`
  is what all of it needs of names: less its last marks, the name of a type is
  the one its entry gets.
* **Calls**, for all contracts, transactions, sizes and depths: `ResultsAsDirect`
  and `OnlyResultLeaks` (the two buffers of a call go together, whatever their
  sizes). `IInv` says of each frame, by the depth it is at, that its variable is
  what `Direct` makes of the calls behind it and its slot what `Direct` gives for
  the call it is at (`FrameOK`), and that the frame above it is of that call
  (`Waits`). `VariableStep` and `DirectStep` are the equations of the recursive
  functions, `TrapsStay` that a call that traps its caller is never made good by a
  later one.
* **Memory functions**, for every memory, width of a byte, length and overlap:
  `Moved`, `WasSet` and `Compared` (together `Results`), and
  `NothingElseWritten`. `IInv` is a loop invariant
  for each function: how far the loop has come and what lies behind it. For
  `memcpy` over an overlap, that what is still to be read has not been written;
  for `memmove`, that after its first loop the block holds the source as it was.
* **Names**, for every number and width of characters and every string:
  `NamesAgree` and `SuffixIsLastPart`. The characters of a value are its digits, the
  last of them in a smaller base: what is left of a value after a character is that
  character and what is left after it (`Chain`), so that a value is the sum of its
  characters (`Composed`) and two of the same characters are one (`SpelledOnce`). The
  constructor's shifts (`NameComposed`) and the tools' sum (`Summed`) both make the
  value whose characters are the string's and dots behind it, hence the same. What
  `write_as_string` leaves off is what its shift has emptied, all dots (`Written`).
  `SuffixIs` adds that no shift of `suffix` loses a bit (`SuffixDrops`).
* **Addresses**, for every length, every string and everything that may lie behind one:
  `ReadsNumber`, `WritesInside` and `EndsInside` (the last two together
  `StaysInside`). `AddressInv` ties the index to the characters read, two for one,
  and says that the bytes before it are the number that was read and those from it
  on 0; `NumberMore` is the step of that number by a digit.
* **Logs**, for every call, whatever its values are and wherever memory runs out:
  `LogsCleanly`. `LogInv` says where each block lies and what was done to it.

Each is proved as usual: the initial states satisfy `IInv`, each action keeps it
(one lemma per action), it implies the property, and the temporal step combines
the three. For refinements, each action maps to an abstract step or a stutter.

The provers here cannot take the library's rules of induction, which have an
operator as a parameter. What the proofs need of them is derived from the
well-foundedness of `<` on the naturals: a set with 0 and the successors of its
elements holds all naturals (`Induct`). A recursive function over numbers is a
`CHOOSE`, and its equations are proved by constructing it (`VariableStep`,
`DirectStep`, `NumberSteps`). The names of types are a recursive function over the
types; it is constructed on sets of types that hold the arguments of each of their
own. Any two such constructions agree, and since no type contains itself, a type
left out by all of them could be chosen with none of its arguments left out
(`NamingExists`, `NameStep`). For the loops over names and over the bytes of an
integer one lemma constructs any function over an interval that is given by its
first value and a step (`Recursion`); powers of two are such a function, and their
laws are proved (`Powers`, `PowerSum`).

What stays with TLC: the operators of `Codec`, which are `RECURSIVE` over the types of
values. What they do for every value is an induction over data, which is out of the
provers' reach; of the integers in them `VarInt` is proved.

Liveness under fairness and `ENABLED` are out of the prover's reach as well and
stay with TLC. Fairness is assumed in two specifications:

* `AbiGen`: `WF_vars(Next)`. It is sequential code that runs on as long as it has
  something to do.
* `Driver`: `WF_vars(Step(p))` for each process. The operating system runs every
  process, and each tool it waits for ends - well or badly.

The other specifications assume none: a contract may stop anywhere.

## 5. Findings

* A failing `fractal-pp` goes unnoticed (`post_pass_failure`): `exec_subprogram`
  drops the exit status, `fractal-ld` only checks that the output exists, which
  wasm-ld has already written, and the contract's heap starts at address 0. The
  comment in `malloc.cpp` says the linker places the heap base there.
* `seekp` returns true for offsets that wrap to before the buffer
  (`seekp_out_of_range`), though its documentation says false.

Other disagreements that the models show, without a run of their own: `remaining()`
past the end (3.3), keys of exactly the maximal length (3.5), builds that succeed
over an earlier output, sources in the temporary directory and an ABI that was not
written (3.6), actions renamed by their attribute and types of tables that the ABI
leaves out (3.7), constructors that reach `malloc` only through a library of `-l` (3.2),
a `write` of half the address space or more (3.3), addresses from strings too long or too
short (3.9).

## 6. Bounds

| Run | Bounds | Why they are enough |
|---|---|---|
| `heap_wrap`, `heap_limit` | 16 or 20 addresses, all sizes | every relation of cursor, page boundary and end of the address space occurs; the proofs lift the bound |
| `contract_start` | 2 objects, 3 members of which one is behind the objects, 2 blocks | a member can precede, follow or be nested in the allocator, in a circle or not, or be fetched when the objects are linked; the second block tests the first; the proofs lift the bound |
| `datastream` | 8 addresses, 3 calls | lengths on both sides of the sign bit, for `write` of a contract too; the proofs lift the bound |
| `codec` | nesting of 3, containers of 2, 3 foreign bytes | each kind occurs in and around the others; a varint may be too long for a word; for the integers the proofs lift the bound |
| `table` | 2 tables, 4 keys, 2 values each | every length around the limits and two tables with the same packed keys; the proofs lift the bound |
| `driver` | 2 processes, 3 sources in 2 directories, 2 inputs of the one and 1 of the other | two processes interfere in pairs; inputs share a name, a temporary or an output, or nothing; the proofs lift the bound but for `Ends` |
| `abigen` | 6 types, 2 inputs, 12 stack frames | one type of each kind, each mentioned by and mentioning the others; the stack is deeper than any chain of six types that do not contain themselves; the proofs lift the bound but for `TraversalEnds` |
| `calls` | 2 contracts, 2 calls a handler, 3 frames | a call before and after a nested one, a frame in the middle, re-entrance into the first; the proofs lift the bound |
| `library`, names | 4 characters and a short one, 2 bits each | dots, characters and the short last one in every order; one string length too many; the proofs lift the bound |
| `library`, memory | 7 bytes, areas of 3, bytes of 1 bit | every overlap of two areas; the proofs lift the bound |
| `library`, logs | 3 arguments | one more than can be logged; the proofs lift the bound |
| `library`, addresses | 2 bytes, 4 characters | the string is shorter than, as long as, longer than and odd against the address, or without its first two characters; the proofs lift the bound |

`MaxCalls`, `MaxBlocks`, `MaxJunk`, `MaxForeign`, `MaxDepth` (frames the host
allows), `StackLimit` (calls on the native stack), `MaxLen` (characters of an
address) and `MaxTopics` (arguments the host can log) are the bounds that appear in
guards, each named in its module.

## 7. What is not modelled

`PROJECT.json` lists every component with its status.

* Of wasm-ld: relocations, writing of sections, symbols other than undefined and
  archived ones, COMDATs, LTO. Of clang and LLVM: the attributes and imports,
  which pass a string through the compiler. The rest of vendored LLVM, lld,
  wabt, libc, libc++, Boost and jsoncons is third-party code; it is more than
  99% of the lines of the repository, so that the share of all its lines that
  the modules stand for stays small whatever is modelled.
* Aligned allocation: see section 2.
* Of the ABI generator: the filter for contracts, ignored and extension fields,
  transaction extensions, the names of fields, the text of the JSON.
* Of the drivers: options that are only passed on to clang and wasm-ld.
* The host and the wrappers of its functions, except where section 3 says what
  is assumed of it; printing; the node's cryptography (`sha256` is a constructor
  in `Log`).
* What a block of the allocator contains, and with it that `calloc` clears and
  that `realloc` does not copy.
* The alignment of `checksum256`: WebAssembly loads and stores at any.
* Build scripts and examples.
