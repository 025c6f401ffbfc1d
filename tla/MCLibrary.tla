------------------------------- MODULE MCLibrary -------------------------------
(***************************************************************************)
(* The functions of the library that keep no state between calls - those   *)
(* on memory, addresses, names and logs - each on every small input.  One  *)
(* is called in a run; the variables of the others rest as they would be   *)
(* for an input of nothing.                                                *)
(***************************************************************************)
EXTENDS Memory, Address, Log, Name

CONSTANT MaxLen     \* characters behind "0x", and twice the bytes of an address

VARIABLE
    called          \* what is called

memoryVars == <<mem, call, loops, i, result, before>>

-----------------------------------------------------------------------------
(* Inputs *)

MCAddrs == 0 .. 6

\* Two areas that may overlap in four bytes, and a block for memmove above them.
MCCalls ==
    {k \in [f : {"memset", "memcpy", "memmove", "memcmp"}, p1 : 0 .. 3, p2 : 0 .. 3,
            n : 0 .. 3, c : {-1, 0, 4}, p3 : {4}] :
        k.p1 + k.n <= 4 /\ k.p2 + k.n <= 4 /\ (k.f # "memset" => k.c = 0)}

\* Characters from both sides of the ends of the digits' ranges.
Ends == {47, 48, 57, 58, 64, 65, 70, 71, 96, 97, 102, 103}

\* Strings that fit, of all of them, behind "0x"; longer ones by one pair of two of
\* them; and strings that end before there is anything to skip.
MCStrings ==
    {<<>>, <<48>>} \cup
    {<<48, 120>> \o x : x \in UNION {[1 .. n -> Ends] : n \in 0 .. MaxLen}
                              \cup UNION {[1 .. n -> {49, 71}] : n \in MaxLen + 1 .. MaxLen + 2}}

MCBehind == UNION {[1 .. n -> {49, 71}] : n \in 0 .. MaxLen + 2}

\* Names of four characters of two bits and a last one of one bit; all strings
\* over the alphabet and a foreign character, up to one character too many.
MCNameStrings == UNION {[1 .. n -> {Foreign} \cup Alphabet] : n \in 0 .. FullChars + 2}

\* Values of both sizes as data, as name and in every argument.
MCLogCalls ==
    [name : {"n", "N"}, data : {"d", "D"}, args : UNION {[1 .. k -> {"a", "A"}] : k \in 0 .. 3}]

-----------------------------------------------------------------------------

MemoryRests ==
    /\ mem = [a \in Addrs |-> 0] /\ before = mem
    /\ call = [f |-> "memcpy", p1 |-> 0, p2 |-> 0, n |-> 0, c |-> 0, p3 |-> 4]
    /\ loops = <<>> /\ i = 0 /\ result = 0

AddressRests ==
    /\ given = <<48, 120>> /\ s = <<>> /\ p = 0 /\ idx = 0
    /\ addr = [k \in 0 .. AddrLen - 1 |-> 0] /\ past = FALSE

NameRests == str = <<>> /\ name = 0

LogRests ==
    /\ toLog = [name |-> "n", data |-> "d", args |-> <<>>]
    /\ blocks = <<>> /\ buffer = 0 /\ hashes = <<>> /\ pc = "data" /\ entry = NoEntry

LibraryInit ==
    \/ called = "memory" /\ Init /\ AddressRests /\ NameRests /\ LogRests
    \/ called = "address" /\ MemoryRests /\ AddressInit /\ NameRests /\ LogRests
    \/ called = "name" /\ MemoryRests /\ AddressRests /\ NameInit /\ LogRests
    \/ called = "log" /\ MemoryRests /\ AddressRests /\ NameRests /\ LogInit

LibraryNext ==
    /\ UNCHANGED called
    /\ \/ called = "memory" /\ Next /\ UNCHANGED <<addressVars, nameVars, logVars>>
       \/ called = "address" /\ AddressNext /\ UNCHANGED <<memoryVars, nameVars, logVars>>
       \/ called = "name" /\ TakeSuffix /\ UNCHANGED <<memoryVars, addressVars, logVars>>
       \/ called = "log" /\ LogNext /\ UNCHANGED <<memoryVars, addressVars, nameVars>>

LibrarySpec ==
    LibraryInit /\ [][LibraryNext]_<<called, memoryVars, addressVars, nameVars, logVars>>
===============================================================================
