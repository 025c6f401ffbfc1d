-------------------------------- MODULE Driver --------------------------------
(***************************************************************************)
(* fractal-cpp, fractal-cc and fractal-ld as processes over one file       *)
(* system: the ABI generator and clang for each input, through fixed names *)
(* in the system's temporary directory, then wasm-ld and fractal-pp.  A    *)
(* driver knows of a tool only whether it was found: exec_subprogram drops *)
(* the exit status.                                                        *)
(*                                                                         *)
(* A source is <<directory, file name>>; names derived from it are longer  *)
(* sequences.  What matters of a file is what it is and which sources'     *)
(* text is in it.                                                          *)
(***************************************************************************)
EXTENDS Sequences, SequencesExt, FiniteSets, Functions, Naturals

CONSTANTS
    Procs,          \* invocations of the drivers
    Commands,       \* command lines: [tool, inputs, link, out]
    Sources,        \* paths of source files
    Outputs,        \* paths that follow -o
    NoOut,          \* no -o
    Leftovers       \* what other runs may have left: sets of files with their content

VARIABLES
    files,          \* the content of every path
    cmd,            \* the command line of every process
    proc,           \* where every process is
    start           \* history: the files before the processes run

vars == <<files, cmd, proc, start>>

Absent == [is |-> "absent", of |-> <<>>]
Torn == [is |-> "torn", of |-> <<>>]        \* the beginning of an ABI
Content(is, of) == [is |-> is, of |-> of]

-----------------------------------------------------------------------------
(* Names *)

TempDir == "tmp"
AOut == <<".", "a.out">>

ASSUME SourcesAssumption ==
    Sources \subseteq STRING \X STRING /\ AOut \notin Sources /\ Outputs \cap Sources = {}

ASSUME CommandsAssumption ==
    \A c \in Commands :
        /\ c.tool \in {"cpp", "cc"} /\ c.link \in BOOLEAN /\ c.out \in Outputs \cup {NoOut}
        /\ c.inputs \in Seq(Sources) /\ c.inputs # <<>>

\* An object is compiled from one text.
ASSUME LeftoversAssumption ==
    \A x \in UNION Leftovers :
        /\ x[2].is \in {"object", "module", "contract", "abi"}
        /\ x[2] = Content(x[2].is, x[2].of)
        /\ x[2].is = "object" => Len(x[2].of) = 1

TmpFile_BugInput(c, s) == s

TmpFile(c, s) ==
    IF c.tool = "cpp" THEN <<TempDir, s[2]>> ELSE <<TempDir>> \o s \o <<"tmp.c">>

\* CreateOptions: output_fn.
Output(c) ==
    CASE c.out # NoOut -> c.out
      [] c.out = NoOut /\ Len(c.inputs) = 1 -> <<".", c.inputs[1][2], "wasm">>
      [] OTHER -> AOut

Object(c, s) == IF c.link THEN Append(TmpFile(c, s), "o") ELSE Output(c)

Objects(c) == {Object(c, c.inputs[k]) : k \in DOMAIN c.inputs}

LinkInputs_BugNoExtra(c) == [k \in DOMAIN c.inputs |-> Object(c, c.inputs[k])]

\* The inputs of wasm-ld.  Without -o, CreateOptions has named one already.
LinkInputs(c) ==
    Reverse([k \in DOMAIN c.inputs |-> Object(c, c.inputs[k])])
    \o CASE c.out # NoOut -> <<>>
         [] c.out = NoOut /\ Len(c.inputs) = 1 -> <<<<TempDir, c.inputs[1][2], "o">>>>
         [] OTHER -> <<AOut>>

Abi(s) == Append(s, "abi")

Paths ==
    Sources \cup Outputs \cup {AOut} \cup {Abi(s) : s \in Sources}
    \cup (UNION {Objects(c) \cup ToSet(LinkInputs(c)) \cup {Output(c)} : c \in Commands})
    \cup (UNION {{TmpFile(c, c.inputs[k]) : k \in DOMAIN c.inputs} : c \in Commands})

-----------------------------------------------------------------------------
(* Processes *)

\* fractal-cc has no ABI generator.
First(c) == IF c.tool = "cpp" THEN "generate" ELSE "choose"

Init ==
    /\ \E old \in Leftovers :
          files = [f \in Paths |->
                     IF f \in Sources THEN Content("text", <<f>>)
                     ELSE IF \E x \in old : x[1] = f
                     THEN (CHOOSE x \in old : x[1] = f)[2] ELSE Absent]
    /\ cmd \in [Procs -> Commands]
    /\ proc = [p \in Procs |->
                 [pc |-> First(cmd[p]), i |-> 1, in |-> NoOut, abi |-> <<>>, status |-> "none"]]
    /\ start = files

In(p) == cmd[p].inputs[proc[p].i]

Goto(p, pc) == proc' = [proc EXCEPT ![p].pc = pc]

Fail(p, pc) == proc' = [proc EXCEPT ![p].pc = pc, ![p].status = "failed"]

Exists(f) == files[f] # Absent

\* generate: a failure of clang is the runtime_error that ends the loop over the
\* inputs.  abi_stream is not looked at: when the file cannot be opened, or not be
\* written to its end, the driver goes on as if it had been.  Every source declares
\* an action or a table; an ABI of nothing is not written.
Generate(p) ==
    /\ proc[p].pc = "generate"
    /\ LET abi == Append(proc[p].abi, In(p))
       IN  \/ /\ files[In(p)].is = "text"
              /\ \/ \E x \in {Content("abi", abi), Torn} : files' = [files EXCEPT ![Abi(In(p))] = x]
                 \/ UNCHANGED files
              /\ proc' = [proc EXCEPT ![p].pc = "choose", ![p].abi = abi]
           \/ Fail(p, "exit") /\ UNCHANGED files
    /\ UNCHANGED <<cmd, start>>

\* A file of the input's name in the temporary directory takes its place.
Choose(p) ==
    /\ proc[p].pc = "choose"
    /\ LET tmp == TmpFile(cmd[p], In(p))
           in == IF cmd[p].tool = "cpp" /\ Exists(tmp) THEN tmp ELSE In(p)
       IN  proc' = [proc EXCEPT ![p].pc = "compile", ![p].in = in]
    /\ UNCHANGED <<files, cmd, start>>

\* clang removes the output of a compilation that failed, but leaves it when it
\* did not get so far.
Compile(p) ==
    LET in == files[proc[p].in]
        object == Object(cmd[p], In(p))
    IN  /\ proc[p].pc = "compile"
        /\ \/ /\ in.is = "text"
              /\ files' = [files EXCEPT ![object] = Content("object", in.of)]
              /\ Goto(p, "remove")
           \/ files' \in {files, [files EXCEPT ![object] = Absent]} /\ Goto(p, "remove")
           \/ UNCHANGED files /\ Fail(p, "remove")     \* clang is not found
        /\ UNCHANGED <<cmd, start>>

RemoveTmp_BugSameInput(p) ==
    /\ proc[p].pc = "remove"
    /\ files' = [files EXCEPT ![TmpFile(cmd[p], In(p))] = Absent]
    /\ Goto(p, First(cmd[p]))
    /\ UNCHANGED <<cmd, start>>

RemoveTmp(p) ==
    LET more == proc[p].i < Len(cmd[p].inputs)
    IN  /\ proc[p].pc = "remove"
        /\ files' = [files EXCEPT ![TmpFile(cmd[p], In(p))] = Absent]
        /\ proc' = [proc EXCEPT
              ![p].pc = IF proc[p].status = "failed" THEN "exit"
                        ELSE IF more THEN First(cmd[p])
                        ELSE IF cmd[p].link THEN "link" ELSE "exit",
              ![p].i = IF more THEN @ + 1 ELSE @,
              ![p].status = IF @ = "none" /\ ~more /\ ~cmd[p].link THEN "ok" ELSE @]
        /\ UNCHANGED <<cmd, start>>

\* wasm-ld defines no symbol twice, and leaves the output alone when it fails.
Link(p) ==
    LET c == cmd[p]
        ins == LinkInputs(c)
        texts == [k \in DOMAIN ins |-> files[ins[k]].of[1]]
    IN  /\ proc[p].pc = "link"
        /\ \/ /\ \A k \in DOMAIN ins : files[ins[k]].is = "object"
              /\ IsInjective(texts)
              /\ files' = [files EXCEPT ![Output(c)] = Content("module", texts)]
              /\ Goto(p, "postpass")
           \/ UNCHANGED files /\ Goto(p, "postpass")
           \/ UNCHANGED files /\ Fail(p, "clean")      \* fractal-ld is not found
        /\ UNCHANGED <<cmd, start>>

\* fractal-pp rewrites the output of fractal-ld, when both are there.
PostPass(p) ==
    LET out == Output(cmd[p])
    IN  /\ proc[p].pc = "postpass"
        /\ \/ files[out].is = "module" /\ files' = [files EXCEPT ![out].is = "contract"]
           \/ UNCHANGED files
        /\ Goto(p, "clean")
        /\ UNCHANGED <<cmd, start>>

Clean_BugFirstOnly(p) ==
    /\ proc[p].pc = "clean"
    /\ files' = [files EXCEPT ![Object(cmd[p], cmd[p].inputs[1])] = Absent]
    /\ Goto(p, IF proc[p].status = "failed" THEN "exit" ELSE "check")
    /\ UNCHANGED <<cmd, start>>

Clean(p) ==
    /\ proc[p].pc = "clean"
    /\ files' = [f \in Paths |-> IF f \in Objects(cmd[p]) THEN Absent ELSE files[f]]
    /\ Goto(p, IF proc[p].status = "failed" THEN "exit" ELSE "check")
    /\ UNCHANGED <<cmd, start>>

\* The one thing the status of the driver depends on after linking.
Check(p) ==
    /\ proc[p].pc = "check"
    /\ proc' = [proc EXCEPT ![p].pc = "exit",
                            ![p].status = IF Exists(Output(cmd[p])) THEN "ok" ELSE "failed"]
    /\ UNCHANGED <<files, cmd, start>>

Step(p) ==
    \/ Generate(p) \/ Choose(p) \/ Compile(p) \/ RemoveTmp(p)
    \/ Link(p) \/ PostPass(p) \/ Clean(p) \/ Check(p)

Next == \E p \in Procs : Step(p)

Spec == Init /\ [][Next]_vars

\* The operating system runs every process, and every tool ends.
FairSpec == Spec /\ \A p \in Procs : WF_vars(Step(p))

-----------------------------------------------------------------------------
(* Properties *)

Kinds == {"absent", "text", "object", "module", "contract", "abi", "torn"}

\* A driver is at one of its inputs, has chosen the file that clang is called on,
\* and reports success only when it ends.
TypeOK ==
    /\ \A f \in Paths : files[f].is \in Kinds
    /\ \A p \in Procs :
          /\ proc[p].i \in DOMAIN cmd[p].inputs
          /\ proc[p].status = "ok" => proc[p].pc = "exit"
          /\ proc[p].pc \in {"compile", "remove"} => proc[p].in \in Paths

\* What a command writes, removes or links.
Touched(c) ==
    Objects(c) \cup ToSet(LinkInputs(c)) \cup {Output(c)}
    \cup {TmpFile(c, s) : s \in ToSet(c.inputs)}
    \cup {Abi(s) : s \in {x \in ToSet(c.inputs) : c.tool = "cpp"}}

\* No other process touches what the process does, nor its inputs.
Apart(p) ==
    \A q \in Procs \ {p} :
        Touched(cmd[q]) \cap (Touched(cmd[p]) \cup ToSet(cmd[p].inputs)) = {}

\* The output is none of the files that the driver makes on its way to it.
OutputApart(c) ==
    \A s \in ToSet(c.inputs) : Output(c) \notin {Object(c, s), TmpFile(c, s), Abi(s)}

\* Before the process there was nothing there.
Fresh(p) == \A f \in Touched(cmd[p]) : start[f] = Absent

Succeeded(p) == proc[p].pc = "exit" /\ proc[p].status = "ok"

\* A driver that reports success after linking has an output that is made of the
\* texts of its inputs, each once, the last first, and a complete ABI beside its
\* last input is of the same texts; but there may be none, or the beginning of one.
\* Without -o none succeeds: the object is linked with itself, with one that is not
\* there, or with the output.
FaithfulBuild ==
    \A p \in Procs :
        Succeeded(p) /\ cmd[p].link /\ OutputApart(cmd[p]) /\ Apart(p) /\ Fresh(p) =>
            /\ cmd[p].out # NoOut
            /\ files[Output(cmd[p])].is \in {"module", "contract"}
            /\ files[Output(cmd[p])].of = Reverse(cmd[p].inputs)
            /\ cmd[p].tool = "cpp" =>
                  files[Abi(Last(cmd[p].inputs))] \in {Absent, Torn, Content("abi", cmd[p].inputs)}

\* A driver that got as far as linking leaves no file in the temporary directory.
TempsGone ==
    \A p \in Procs :
        Succeeded(p) /\ cmd[p].link /\ OutputApart(cmd[p]) /\ Apart(p) =>
            \A s \in ToSet(cmd[p].inputs) :
                ~Exists(Object(cmd[p], s)) /\ ~Exists(TmpFile(cmd[p], s))

\* No process changes or removes a source outside the temporary directory.
SourcesKept ==
    [][\A s \in Sources : s[1] # TempDir => files'[s] = files[s]]_vars

\* Every process ends, whatever fails.
Ends == \A p \in Procs : <>(proc[p].pc = "exit")
===============================================================================
