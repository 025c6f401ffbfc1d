------------------------------ MODULE DriverProofs ------------------------------
(***************************************************************************)
(* For every set of command lines, however many processes run and whatever *)
(* lies about in the file system: the state of the drivers is typed, no    *)
(* process changes or removes a source outside the temporary directory,    *)
(* and a driver that reports success has cleaned up behind it and built    *)
(* what it was asked for.                                                  *)
(***************************************************************************)
EXTENDS Driver, TLAPS

Pcs ==
    {"generate", "choose", "compile", "remove", "link", "postpass", "clean", "check", "exit"}

Record ==
    [pc : Pcs, i : Nat, in : Paths \cup {NoOut}, abi : Seq(Sources), status : {"none", "ok", "failed"}]

FilesOK ==
    /\ files = [f \in Paths |-> files[f]]
    /\ \A f \in Paths : files[f].is \in Kinds /\ files[f] = Content(files[f].is, files[f].of)

ProcOK ==
    /\ cmd \in [Procs -> Commands]
    /\ proc \in [Procs -> Record]
    /\ \A p \in Procs :
          /\ proc[p].i \in 1 .. Len(cmd[p].inputs)
          /\ proc[p].status = "ok" => proc[p].pc = "exit"
          /\ proc[p].pc \in {"compile", "remove"} => proc[p].in \in Paths

IInv == FilesOK /\ ProcOK

-----------------------------------------------------------------------------
(* Names *)

\* What CommandsAssumption says of the inputs, element by element.
LEMMA CommandTyped ==
    ASSUME NEW c \in Commands
    PROVE  /\ c.tool \in {"cpp", "cc"} /\ c.out \in Outputs \cup {NoOut}
           /\ c.inputs \in Seq(Sources) /\ Len(c.inputs) \in Nat \ {0}
           /\ DOMAIN c.inputs = 1 .. Len(c.inputs)
           /\ \A k \in 1 .. Len(c.inputs) : c.inputs[k] \in Sources
<1>1. /\ c.tool \in {"cpp", "cc"} /\ c.out \in Outputs \cup {NoOut}
      /\ c.inputs \in Seq(Sources) /\ c.inputs # <<>>
  BY CommandsAssumption
<1>2. QED  BY <1>1

\* What names of files are put together from.
Part == STRING \cup {TempDir, "tmp.c", "o", "abi"}

\* Sequences of one and two parts.
LEMMA Sequences12 ==
    ASSUME NEW T, NEW a \in T, NEW b \in T
    PROVE  /\ <<a>> \in Seq(T) /\ Len(<<a>>) = 1
           /\ <<a, b>> \in Seq(T) /\ Len(<<a, b>>) = 2 /\ <<a, b>>[1] = a
<1>1. <<a, b>> \in Seq(T) /\ Len(<<a, b>>) = 2 /\ <<a, b>>[1] = a
  OBVIOUS
<1>2. Len(<<a>>) = 1
  OBVIOUS
<1>3. <<a>> = Append(<<>>, a) /\ <<>> \in Seq(T)
  OBVIOUS
<1>4. <<a>> \in Seq(T)
  BY <1>3
<1>5. QED  BY <1>1, <1>2, <1>4

\* Appending a part of a name makes it longer by one.
LEMMA Appended ==
    ASSUME NEW T, NEW s \in Seq(T), NEW e \in T
    PROVE  Append(s, e) \in Seq(T) /\ Len(Append(s, e)) = Len(s) + 1
OBVIOUS

\* The length of a name put together from two.
LEMMA Joined ==
    ASSUME NEW T, NEW s \in Seq(T), NEW t \in Seq(T)
    PROVE  s \o t \in Seq(T) /\ Len(s \o t) = Len(s) + Len(t)
OBVIOUS

\* Names of different lengths differ.
LEMMA Different ==
    ASSUME NEW s, NEW t, Len(s) # Len(t)
    PROVE  s # t
OBVIOUS

\* A source's path has two parts.
LEMMA SourceTyped ==
    ASSUME NEW s \in Sources
    PROVE  s \in Seq(Part) /\ Len(s) = 2 /\ s[1] \in Part /\ s[2] \in Part
<1>1. s \in STRING \X STRING
  BY SourcesAssumption
<1>2. s = <<s[1], s[2]>> /\ s[1] \in Part /\ s[2] \in Part
  BY <1>1 DEF Part
<1>3. QED  BY <1>2, Sequences12

\* A name derived from a source's is longer than a source's, so that no derived
\* file is a source; the one of the same length is in the temporary directory.
LEMMA DerivedNames ==
    ASSUME NEW c, NEW s \in Sources
    PROVE  /\ Len(TmpFile(c, s)) = 4 \/ (Len(TmpFile(c, s)) = 2 /\ TmpFile(c, s)[1] = TempDir)
           /\ Len(Append(TmpFile(c, s), "o")) \in {3, 5}
           /\ c.tool # "cpp" => Len(Append(TmpFile(c, s), "o")) = 5
           /\ Len(Abi(s)) = 3
           /\ TmpFile(c, s) \in Seq(Part)
<1>0. TempDir \in Part /\ "tmp.c" \in Part /\ "o" \in Part /\ "abi" \in Part
  BY DEF Part
<1>1. s \in Seq(Part) /\ Len(s) = 2 /\ s[2] \in Part
  BY SourceTyped
<1>2. Len(Abi(s)) = 3
  <2>1. Len(Append(s, "abi")) = Len(s) + 1
    BY <1>0, <1>1, Appended
  <2>2. QED  BY <1>1, <2>1 DEF Abi
<1>3. CASE c.tool = "cpp"
  <2>1. TmpFile(c, s) = <<TempDir, s[2]>>
    BY <1>3 DEF TmpFile
  <2>2. TmpFile(c, s) \in Seq(Part) /\ Len(TmpFile(c, s)) = 2 /\ TmpFile(c, s)[1] = TempDir
    BY <1>0, <1>1, <2>1, Sequences12
  <2>3. Len(Append(TmpFile(c, s), "o")) = 3
    <3>1. Len(Append(TmpFile(c, s), "o")) = Len(TmpFile(c, s)) + 1
      BY <1>0, <2>2, Appended
    <3>2. QED  BY <2>2, <3>1
  <2>4. QED  BY <1>2, <1>3, <2>2, <2>3
<1>4. CASE c.tool # "cpp"
  <2>1. TmpFile(c, s) = <<TempDir>> \o s \o <<"tmp.c">>
    BY <1>4 DEF TmpFile
  <2>2. <<TempDir>> \in Seq(Part) /\ <<"tmp.c">> \in Seq(Part)
        /\ Len(<<TempDir>>) = 1 /\ Len(<<"tmp.c">>) = 1
    BY <1>0, Sequences12
  <2>3. <<TempDir>> \o s \in Seq(Part) /\ Len(<<TempDir>> \o s) = 1 + 2
    <3>1. Len(<<TempDir>> \o s) = Len(<<TempDir>>) + Len(s)
      BY <1>1, <2>2, Joined
    <3>2. <<TempDir>> \o s \in Seq(Part)
      BY <1>1, <2>2, Joined
    <3>3. QED  BY <1>1, <2>2, <3>1, <3>2
  <2>4. TmpFile(c, s) \in Seq(Part) /\ Len(TmpFile(c, s)) = 3 + 1
    <3>1. (<<TempDir>> \o s) \o <<"tmp.c">> \in Seq(Part)
      BY <2>2, <2>3, Joined
    <3>2. Len((<<TempDir>> \o s) \o <<"tmp.c">>) = Len(<<TempDir>> \o s) + Len(<<"tmp.c">>)
      BY <2>2, <2>3, Joined
    <3>3. QED  BY <2>1, <2>2, <2>3, <3>1, <3>2
  <2>5. Len(Append(TmpFile(c, s), "o")) = 4 + 1
    <3>1. Len(Append(TmpFile(c, s), "o")) = Len(TmpFile(c, s)) + 1
      BY <1>0, <2>4, Appended
    <3>2. QED  BY <2>4, <3>1
  <2>6. QED  BY <1>2, <2>4, <2>5
<1>5. QED  BY <1>3, <1>4

\* The three ways to name the output (compiler_options.hpp:248-274).
LEMMA OutputName ==
    ASSUME NEW c \in Commands
    PROVE  \/ Output(c) \in Outputs
           \/ Output(c) = AOut
           \/ Len(Output(c)) = 3
<1>0. c.out \in Outputs \cup {NoOut}
  BY CommandTyped
<1>1. CASE c.out # NoOut
  BY <1>0, <1>1 DEF Output
<1>2. CASE c.out = NoOut /\ Len(c.inputs) = 1
  <2>1. Output(c) = <<".", c.inputs[1][2], "wasm">>
    BY <1>2 DEF Output
  <2>2. QED  BY <2>1
<1>3. CASE c.out = NoOut /\ Len(c.inputs) # 1
  BY <1>3 DEF Output
<1>4. QED  BY <1>1, <1>2, <1>3

\* None of the paths that a driver writes or removes is a source outside the
\* temporary directory.
LEMMA NotASource ==
    ASSUME NEW c \in Commands, NEW s \in Sources, NEW t \in Sources, t[1] # TempDir
    PROVE  t # Abi(s) /\ t # TmpFile(c, s) /\ t # Object(c, s) /\ t # Output(c)
<1>1. Len(t) = 2
  BY SourceTyped
<1>2. t # Output(c)
  BY <1>1, OutputName, SourcesAssumption
<1>3. t # Abi(s) /\ t # TmpFile(c, s) /\ t # Append(TmpFile(c, s), "o")
  <2>1. Len(Abi(s)) = 3 /\ Len(Append(TmpFile(c, s), "o")) \in {3, 5}
    BY DerivedNames
  <2>0. t # Abi(s) /\ t # Append(TmpFile(c, s), "o")
    <3>1. Len(t) # Len(Abi(s)) /\ Len(t) # Len(Append(TmpFile(c, s), "o"))
      BY <1>1, <2>1
    <3>2. QED  BY <3>1, Different
  <2>2. t # TmpFile(c, s)
    <3>1. \/ Len(TmpFile(c, s)) = 4
          \/ Len(TmpFile(c, s)) = 2 /\ TmpFile(c, s)[1] = TempDir
      BY DerivedNames
    <3>2. QED  BY <1>1, <3>1
  <2>3. QED  BY <2>0, <2>2
<1>4. QED  BY <1>2, <1>3 DEF Object

\* The files a driver asks for are paths of the model.
LEMMA PathsWritten ==
    ASSUME NEW c \in Commands, NEW k \in 1 .. Len(c.inputs)
    PROVE  TmpFile(c, c.inputs[k]) \in Paths /\ c.inputs[k] \in Paths
<1>1. k \in DOMAIN c.inputs /\ c.inputs[k] \in Sources
  BY CommandTyped
<1>2. TmpFile(c, c.inputs[k]) \in {TmpFile(c, c.inputs[l]) : l \in DOMAIN c.inputs}
  BY <1>1
<1>3. \A f \in Sources : f \in Paths
  BY DEF Paths
<1>4. {TmpFile(c, c.inputs[l]) : l \in DOMAIN c.inputs}
        \subseteq UNION {{TmpFile(d, d.inputs[l]) : l \in DOMAIN d.inputs} : d \in Commands}
  OBVIOUS
<1>5. (UNION {{TmpFile(d, d.inputs[l]) : l \in DOMAIN d.inputs} : d \in Commands}) \subseteq Paths
  BY DEF Paths
<1>6. QED  BY <1>1, <1>2, <1>3, <1>4, <1>5

-----------------------------------------------------------------------------
(* Steps *)

\* A step that writes one path keeps the others.
LEMMA WriteContent ==
    ASSUME FilesOK, NEW path, NEW is \in Kinds, NEW of,
           files' = [f \in Paths |-> IF f = path THEN Content(is, of) ELSE files[f]]
    PROVE  FilesOK' /\ \A f \in Paths : f # path => files'[f] = files[f]
BY DEF FilesOK, Content

\* A process moves and the others stay where they are.
LEMMA Move ==
    ASSUME ProcOK, NEW p \in Procs, cmd' = cmd, proc' \in [Procs -> Record],
           \A q \in Procs : q # p => proc'[q] = proc[q],
           proc'[p].i \in 1 .. Len(cmd[p].inputs),
           proc'[p].status = "ok" => proc'[p].pc = "exit",
           proc'[p].pc \in {"compile", "remove"} => proc'[p].in \in Paths
    PROVE  ProcOK'
BY DEF ProcOK

\* Before the first step the files and processes are typed.
LEMMA InitInv == Init => IInv
<1>. SUFFICES ASSUME Init PROVE IInv
  OBVIOUS
<1>1. PICK old \in Leftovers :
         files = [f \in Paths |->
                    IF f \in Sources THEN Content("text", <<f>>)
                    ELSE IF \E x \in old : x[1] = f
                    THEN (CHOOSE x \in old : x[1] = f)[2] ELSE Absent]
  BY DEF Init
<1>2. ASSUME NEW f \in Paths
      PROVE  files[f].is \in Kinds /\ files[f] = Content(files[f].is, files[f].of)
  <2>1. CASE f \in Sources
    BY <1>1, <2>1 DEF Content, Kinds
  <2>2. CASE f \notin Sources /\ \E x \in old : x[1] = f
    <3>. DEFINE y == CHOOSE x \in old : x[1] = f
    <3>1. y \in UNION Leftovers
      BY <2>2
    <3>2. files[f] = y[2]
      BY <1>1, <2>2
    <3>. HIDE DEF y
    <3>3. QED  BY <3>1, <3>2, LeftoversAssumption DEF Kinds
  <2>3. CASE f \notin Sources /\ ~ \E x \in old : x[1] = f
    <3>1. files[f] = Content("absent", <<>>)
      BY <1>1, <2>3 DEF Absent, Content
    <3>2. QED  BY <3>1 DEF Content, Kinds
  <2>4. QED  BY <2>1, <2>2, <2>3
<1>3. FilesOK
  BY <1>1, <1>2 DEF FilesOK
<1>4. ProcOK
  <2>1. ASSUME NEW p \in Procs
        PROVE  /\ proc[p] \in Record /\ proc[p].i \in 1 .. Len(cmd[p].inputs)
               /\ proc[p].status = "none" /\ proc[p].pc \in {"generate", "choose"}
    <3>1. cmd[p] \in Commands
      BY DEF Init
    <3>2. Len(cmd[p].inputs) \in Nat \ {0}
      BY <3>1, CommandTyped
    <3>3. proc[p] = [pc |-> First(cmd[p]), i |-> 1, in |-> NoOut, abi |-> <<>>, status |-> "none"]
      BY DEF Init
    <3>4. First(cmd[p]) \in {"generate", "choose"}
      BY DEF First
    <3>5. QED  BY <3>2, <3>3, <3>4 DEF Record, Pcs
  <2>2. QED  BY <2>1 DEF Init, ProcOK
<1>5. QED  BY <1>3, <1>4 DEF IInv


-----------------------------------------------------------------------------
(* One lemma for each step of a driver *)

Kept == \A s \in Sources : s[1] # TempDir => files'[s] = files[s]

\* What every step may use of the process that takes it.
LEMMA Facts ==
    ASSUME IInv, NEW p \in Procs
    PROVE  /\ cmd[p] \in Commands /\ proc \in [Procs -> Record] /\ FilesOK /\ ProcOK
           /\ proc[p].i \in 1 .. Len(cmd[p].inputs) /\ proc[p].in \in Paths \cup {NoOut}
           /\ proc[p].abi \in Seq(Sources) /\ proc[p].status \in {"none", "ok", "failed"}
           /\ proc[p].pc # "exit" => proc[p].status \in {"none", "failed"}
           /\ In(p) \in Sources /\ In(p) \in Paths /\ TmpFile(cmd[p], In(p)) \in Paths
           /\ First(cmd[p]) \in {"generate", "choose"}
           /\ \A s \in Sources :
                 /\ s \in Paths
                 /\ s[1] # TempDir =>
                       /\ s # Abi(In(p)) /\ s # TmpFile(cmd[p], In(p))
                       /\ s # Object(cmd[p], In(p)) /\ s # Output(cmd[p])
                       /\ s \notin Objects(cmd[p])
<1>1. /\ cmd[p] \in Commands /\ proc \in [Procs -> Record] /\ FilesOK /\ ProcOK
      /\ proc[p].i \in 1 .. Len(cmd[p].inputs)
  BY DEF IInv, ProcOK
<1>2. /\ proc[p].in \in Paths \cup {NoOut} /\ proc[p].abi \in Seq(Sources)
      /\ proc[p].status \in {"none", "ok", "failed"}
  BY <1>1 DEF Record
<1>3. proc[p].pc # "exit" => proc[p].status \in {"none", "failed"}
  BY <1>1, <1>2 DEF ProcOK
<1>4. In(p) \in Sources /\ In(p) \in Paths /\ TmpFile(cmd[p], In(p)) \in Paths
  BY <1>1, CommandTyped, PathsWritten DEF In
<1>5. First(cmd[p]) \in {"generate", "choose"}
  BY DEF First
<1>6. ASSUME NEW s \in Sources
      PROVE  /\ s \in Paths
             /\ s[1] # TempDir =>
                   /\ s # Abi(In(p)) /\ s # TmpFile(cmd[p], In(p))
                   /\ s # Object(cmd[p], In(p)) /\ s # Output(cmd[p])
                   /\ s \notin Objects(cmd[p])
  <2>1. s \in Paths
    BY DEF Paths
  <2>2. ASSUME s[1] # TempDir
        PROVE  /\ s # Abi(In(p)) /\ s # TmpFile(cmd[p], In(p))
               /\ s # Object(cmd[p], In(p)) /\ s # Output(cmd[p])
    BY <1>1, <1>4, <2>2, NotASource
  <2>3. ASSUME s[1] # TempDir, s \in Objects(cmd[p])
        PROVE  FALSE
    <3>1. PICK k \in DOMAIN cmd[p].inputs : s = Object(cmd[p], cmd[p].inputs[k])
      BY <2>3 DEF Objects
    <3>2. cmd[p].inputs[k] \in Sources
      BY <1>1, CommandTyped
    <3>3. QED  BY <1>1, <2>3, <3>1, <3>2, NotASource
  <2>4. QED  BY <2>1, <2>2, <2>3
<1>7. QED  BY <1>1, <1>2, <1>3, <1>4, <1>5, <1>6

\* generate writes the ABI beside the source (fractal-cpp.cpp.in:137-142).
LEMMA GenerateKeeps ==
    ASSUME IInv, NEW p \in Procs, Generate(p)
    PROVE  IInv' /\ Kept
<1>. DEFINE abi == Append(proc[p].abi, In(p))
<1>1. abi \in Seq(Sources) /\ cmd' = cmd /\ proc[p].status # "ok"
      /\ proc \in [Procs -> Record]
  BY Facts DEF Generate
<1>2. CASE /\ \/ \E x \in {Content("abi", abi), Torn} : files' = [files EXCEPT ![Abi(In(p))] = x]
              \/ files' = files
           /\ proc' = [proc EXCEPT ![p].pc = "choose", ![p].abi = abi]
  <2>. HIDE DEF abi
  <2>1. FilesOK' /\ \A f \in Paths : f # Abi(In(p)) => files'[f] = files[f]
    <3>1. FilesOK /\ "abi" \in Kinds /\ "torn" \in Kinds /\ Torn = Content("torn", <<>>)
      BY Facts DEF Kinds, Torn, Content
    <3>2. ASSUME NEW is \in Kinds, NEW of,
                 files' = [files EXCEPT ![Abi(In(p))] = Content(is, of)]
          PROVE  FilesOK' /\ \A f \in Paths : f # Abi(In(p)) => files'[f] = files[f]
      <4>1. files' = [f \in Paths |-> IF f = Abi(In(p)) THEN Content(is, of) ELSE files[f]]
        BY <3>1, <3>2 DEF FilesOK
      <4>2. QED  BY <3>1, <4>1, WriteContent
    <3>3. CASE files' = files
      BY <3>1, <3>3 DEF FilesOK
    <3>4. QED  BY <1>2, <3>1, <3>2, <3>3
  <2>2. /\ proc' \in [Procs -> Record] /\ \A q \in Procs : q # p => proc'[q] = proc[q]
        /\ proc'[p].i = proc[p].i /\ proc'[p].pc = "choose" /\ proc'[p].status = proc[p].status
    BY ZenonT(40), <1>1, <1>2 DEF Record, Pcs
  <2>3. ProcOK'
    BY <1>1, <2>2, Facts, Move
  <2>4. Kept
    BY <2>1, Facts DEF Kept
  <2>5. QED  BY <2>1, <2>3, <2>4 DEF IInv
<1>3. CASE Fail(p, "exit") /\ files' = files
  <2>1. /\ proc' \in [Procs -> Record] /\ \A q \in Procs : q # p => proc'[q] = proc[q]
        /\ proc'[p].i = proc[p].i /\ proc'[p].pc = "exit"
    BY ZenonT(40), <1>1, <1>3 DEF Record, Pcs, Fail
  <2>2. ProcOK'
    BY <1>1, <2>1, Facts, Move
  <2>3. FilesOK' /\ Kept
    BY <1>3, Facts DEF FilesOK, Kept
  <2>4. QED  BY <2>2, <2>3 DEF IInv
<1>4. QED  BY <1>2, <1>3 DEF Generate

\* The file that clang is to compile is the source or the one in the temporary
\* directory (fractal-cpp.cpp.in:164-178).
LEMMA ChooseKeeps ==
    ASSUME IInv, NEW p \in Procs, Choose(p)
    PROVE  IInv' /\ Kept
<1>1. cmd' = cmd /\ proc[p].status \in {"none", "failed"} /\ proc \in [Procs -> Record]
  BY Facts DEF Choose
<1>2. PICK in \in Paths : proc' = [proc EXCEPT ![p].pc = "compile", ![p].in = in]
  BY Facts DEF Choose
<1>3. /\ proc' \in [Procs -> Record] /\ \A q \in Procs : q # p => proc'[q] = proc[q]
      /\ proc'[p].i = proc[p].i /\ proc'[p].pc = "compile" /\ proc'[p].in = in
      /\ proc'[p].status = proc[p].status
  BY ZenonT(40), <1>1, <1>2 DEF Record, Pcs
<1>4. ProcOK'
  BY <1>1, <1>3, Facts, Move
<1>5. FilesOK' /\ Kept
  BY Facts DEF Choose, FilesOK, Kept
<1>6. QED  BY <1>4, <1>5 DEF IInv

\* clang writes or removes the object only (fractal-cpp.cpp.in:187, utils.hpp:143-155).
LEMMA CompileKeeps ==
    ASSUME IInv, NEW p \in Procs, Compile(p)
    PROVE  IInv' /\ Kept
<1>. DEFINE object == Object(cmd[p], In(p))
            of == files[proc[p].in].of
<1>1. cmd' = cmd /\ proc[p].status \in {"none", "failed"} /\ proc \in [Procs -> Record]
  BY Facts DEF Compile
<1>2. proc[p].pc = "compile" /\ proc[p].in \in Paths
  BY Facts DEF Compile, ProcOK
<1>3. ProcOK'
  <2>1. proc' = [proc EXCEPT ![p].pc = "remove"]
        \/ proc' = [proc EXCEPT ![p].pc = "remove", ![p].status = "failed"]
    BY DEF Compile, Goto, Fail
  <2>2. /\ proc' \in [Procs -> Record] /\ \A q \in Procs : q # p => proc'[q] = proc[q]
        /\ proc'[p].i = proc[p].i /\ proc'[p].pc = "remove" /\ proc'[p].in = proc[p].in
        /\ proc'[p].status \in {proc[p].status, "failed"}
    <3>1. CASE proc' = [proc EXCEPT ![p].pc = "remove"]
      BY <1>1, <3>1 DEF Record, Pcs
    <3>2. CASE proc' = [proc EXCEPT ![p].pc = "remove", ![p].status = "failed"]
      BY ZenonT(40), <1>1, <3>2 DEF Record, Pcs
    <3>3. QED  BY <2>1, <3>1, <3>2
  <2>3. QED  BY <1>1, <1>2, <2>2, Facts, Move
<1>. HIDE DEF object, of
<1>4. FilesOK' /\ \A f \in Paths : f # object => files'[f] = files[f]
  <2>1. \/ files' = [files EXCEPT ![object] = Content("object", of)]
        \/ files' = files
        \/ files' = [files EXCEPT ![object] = Absent]
    BY DEF Compile, object, of
  <2>2. CASE files' = [files EXCEPT ![object] = Content("object", of)]
    <3>1. FilesOK' /\ \A f \in Paths : f # object => files'[f] = files[f]
      <4>1. FilesOK /\ "object" \in Kinds
        BY Facts DEF Kinds
      <4>2. files' = [f \in Paths |-> IF f = object THEN Content("object", of) ELSE files[f]]
        BY <2>2, <4>1 DEF FilesOK
      <4>3. QED  BY <4>1, <4>2, WriteContent
    <3>2. QED  BY <3>1
  <2>3. CASE files' = files
    BY <2>3, Facts DEF FilesOK
  <2>4. CASE files' = [files EXCEPT ![object] = Absent]
    <3>1. FilesOK' /\ \A f \in Paths : f # object => files'[f] = files[f]
      <4>1. FilesOK /\ "absent" \in Kinds
        BY Facts DEF Kinds
      <4>2. files' = [f \in Paths |-> IF f = object THEN Content("absent", <<>>) ELSE files[f]]
        BY <2>4, <4>1 DEF FilesOK, Absent, Content
      <4>3. QED  BY <4>1, <4>2, WriteContent
    <3>2. QED  BY <3>1
  <2>5. QED  BY <2>1, <2>2, <2>3, <2>4
<1>5. Kept
  BY <1>4, Facts DEF Kept, object
<1>6. QED  BY <1>3, <1>4, <1>5 DEF IInv

\* The file in the temporary directory is removed, whatever it was, and the next
\* input is taken (fractal-cpp.cpp.in:187-196).
LEMMA RemoveTmpKeeps ==
    ASSUME IInv, NEW p \in Procs, RemoveTmp(p)
    PROVE  IInv' /\ Kept
<1>. DEFINE tmp == TmpFile(cmd[p], In(p))
            more == proc[p].i < Len(cmd[p].inputs)
<1>1. cmd' = cmd /\ proc[p].status \in {"none", "failed"} /\ proc \in [Procs -> Record]
  BY Facts DEF RemoveTmp
<1>2. PICK pc \in Pcs, i \in Nat, status \in {"none", "ok", "failed"} :
         /\ proc' = [proc EXCEPT ![p].pc = pc, ![p].i = i, ![p].status = status]
         /\ pc \notin {"compile", "remove"} /\ (status = "ok" => pc = "exit")
         /\ i \in 1 .. Len(cmd[p].inputs)
  <2>. DEFINE pc == IF proc[p].status = "failed" THEN "exit"
                    ELSE IF more THEN First(cmd[p])
                    ELSE IF cmd[p].link THEN "link" ELSE "exit"
              i == IF more THEN proc[p].i + 1 ELSE proc[p].i
              status == IF proc[p].status = "none" /\ ~more /\ ~cmd[p].link
                        THEN "ok" ELSE proc[p].status
  <2>1. proc' = [proc EXCEPT ![p].pc = pc, ![p].i = i, ![p].status = status]
    BY DEF RemoveTmp
  <2>2. pc \in Pcs /\ pc \notin {"compile", "remove"}
    BY Facts DEF Pcs
  <2>3. status \in {"none", "ok", "failed"} /\ (status = "ok" => pc = "exit")
    BY <1>1
  <2>4. i \in Nat /\ i \in 1 .. Len(cmd[p].inputs)
    <3>1. Len(cmd[p].inputs) \in Nat /\ proc[p].i \in 1 .. Len(cmd[p].inputs)
      BY Facts, CommandTyped
    <3>2. QED  BY <3>1
  <2>. HIDE DEF pc, i, status
  <2>5. QED  BY <2>1, <2>2, <2>3, <2>4
<1>3. /\ proc' \in [Procs -> Record] /\ \A q \in Procs : q # p => proc'[q] = proc[q]
      /\ proc'[p].i = i /\ proc'[p].pc = pc /\ proc'[p].status = status
  BY ZenonT(40), <1>1, <1>2 DEF Record
<1>4. ProcOK'
  BY <1>1, <1>2, <1>3, Facts, Move
<1>. HIDE DEF tmp
<1>5. FilesOK' /\ \A f \in Paths : f # tmp => files'[f] = files[f]
  <2>1. files' = [files EXCEPT ![tmp] = Absent]
    BY DEF RemoveTmp, tmp
  <2>2. FilesOK' /\ \A f \in Paths : f # tmp => files'[f] = files[f]
    <3>1. FilesOK /\ "absent" \in Kinds
      BY Facts DEF Kinds
    <3>2. files' = [f \in Paths |-> IF f = tmp THEN Content("absent", <<>>) ELSE files[f]]
      BY <2>1, <3>1 DEF FilesOK, Absent, Content
    <3>3. QED  BY <3>1, <3>2, WriteContent
  <2>3. QED  BY <2>2
<1>6. Kept
  BY <1>5, Facts DEF Kept, tmp
<1>7. QED  BY <1>4, <1>5, <1>6 DEF IInv

\* fractal-ld writes the output only (fractal-ld.cpp.in:16-29).
LEMMA LinkKeeps ==
    ASSUME IInv, NEW p \in Procs, Link(p)
    PROVE  IInv' /\ Kept
<1>. DEFINE out == Output(cmd[p])
            ins == LinkInputs(cmd[p])
            texts == [k \in DOMAIN ins |-> files[ins[k]].of[1]]
<1>1. cmd' = cmd /\ proc[p].status \in {"none", "failed"} /\ proc \in [Procs -> Record]
  BY Facts DEF Link
<1>2. /\ \/ files' = [files EXCEPT ![out] = Content("module", texts)]
         \/ files' = files
      /\ \/ proc' = [proc EXCEPT ![p].pc = "postpass"]
         \/ proc' = [proc EXCEPT ![p].pc = "clean", ![p].status = "failed"]
  BY DEF Link, Goto, Fail
<1>. HIDE DEF out, ins, texts
<1>3. ProcOK'
  <2>1. /\ proc' \in [Procs -> Record] /\ \A q \in Procs : q # p => proc'[q] = proc[q]
        /\ proc'[p].i = proc[p].i /\ proc'[p].pc \in {"postpass", "clean"}
        /\ proc'[p].status \in {proc[p].status, "failed"}
    <3>1. CASE proc' = [proc EXCEPT ![p].pc = "postpass"]
      BY <1>1, <3>1 DEF Record, Pcs
    <3>2. CASE proc' = [proc EXCEPT ![p].pc = "clean", ![p].status = "failed"]
      BY ZenonT(40), <1>1, <3>2 DEF Record, Pcs
    <3>3. QED  BY <1>2, <3>1, <3>2
  <2>2. QED  BY <1>1, <2>1, Facts, Move
<1>4. FilesOK' /\ \A f \in Paths : f # out => files'[f] = files[f]
  <2>1. CASE files' = [files EXCEPT ![out] = Content("module", texts)]
    <3>1. FilesOK' /\ \A f \in Paths : f # out => files'[f] = files[f]
      <4>1. FilesOK /\ "module" \in Kinds
        BY Facts DEF Kinds
      <4>2. files' = [f \in Paths |-> IF f = out THEN Content("module", texts) ELSE files[f]]
        BY <2>1, <4>1 DEF FilesOK
      <4>3. QED  BY <4>1, <4>2, WriteContent
    <3>2. QED  BY <3>1
  <2>2. CASE files' = files
    BY <2>2, Facts DEF FilesOK
  <2>3. QED  BY <1>2, <2>1, <2>2
<1>5. Kept
  BY <1>4, Facts DEF Kept, out
<1>6. QED  BY <1>3, <1>4, <1>5 DEF IInv

\* fractal-pp rewrites the output only (fractal-ld.cpp.in:31-46).
LEMMA PostPassKeeps ==
    ASSUME IInv, NEW p \in Procs, PostPass(p)
    PROVE  IInv' /\ Kept
<1>. DEFINE out == Output(cmd[p])
            of == files[out].of
<1>1. cmd' = cmd /\ proc[p].status \in {"none", "failed"} /\ proc \in [Procs -> Record]
  BY Facts DEF PostPass
<1>2. proc' = [proc EXCEPT ![p].pc = "clean"]
  BY DEF PostPass, Goto
<1>3. ProcOK'
  <2>1. /\ proc' \in [Procs -> Record] /\ \A q \in Procs : q # p => proc'[q] = proc[q]
        /\ proc'[p].i = proc[p].i /\ proc'[p].pc = "clean" /\ proc'[p].status = proc[p].status
    BY <1>1, <1>2 DEF Record, Pcs
  <2>2. QED  BY <1>1, <2>1, Facts, Move
<1>4. FilesOK' /\ \A f \in Paths : f # out => files'[f] = files[f]
  <2>1. CASE files' = [files EXCEPT ![out].is = "contract"]
    <3>1. FilesOK /\ "contract" \in Kinds
      BY Facts DEF Kinds
    <3>2. ASSUME out \in Paths
          PROVE  [files[out] EXCEPT !.is = "contract"] = Content("contract", of)
      <4>1. files[out] = Content(files[out].is, of)
        BY <3>1, <3>2 DEF FilesOK
      <4>2. QED  BY <4>1 DEF Content
    <3>3. files' = [f \in Paths |->
                      IF f = out THEN [files[out] EXCEPT !.is = "contract"] ELSE files[f]]
      BY <2>1, <3>1 DEF FilesOK
    <3>4. files' = [f \in Paths |-> IF f = out THEN Content("contract", of) ELSE files[f]]
      BY <3>2, <3>3
    <3>. HIDE DEF out, of
    <3>5. QED  BY <3>1, <3>4, WriteContent
  <2>2. CASE files' = files
    BY <2>2, Facts DEF FilesOK
  <2>3. QED  BY <2>1, <2>2 DEF PostPass
<1>5. Kept
  BY <1>4, Facts DEF Kept
<1>6. QED  BY <1>3, <1>4, <1>5 DEF IInv

\* The objects of the command are removed (fractal-cpp.cpp.in:204-212).
LEMMA CleanKeeps ==
    ASSUME IInv, NEW p \in Procs, Clean(p)
    PROVE  IInv' /\ Kept
<1>1. cmd' = cmd /\ proc[p].status \in {"none", "failed"} /\ proc \in [Procs -> Record]
  BY Facts DEF Clean
<1>2. PICK pc \in {"exit", "check"} : proc' = [proc EXCEPT ![p].pc = pc]
  BY DEF Clean, Goto
<1>3. /\ proc' \in [Procs -> Record] /\ \A q \in Procs : q # p => proc'[q] = proc[q]
      /\ proc'[p].i = proc[p].i /\ proc'[p].pc = pc /\ proc'[p].status = proc[p].status
  BY <1>1, <1>2 DEF Record, Pcs
<1>4. ProcOK'
  BY <1>1, <1>3, Facts, Move
<1>5. files' = [f \in Paths |-> IF f \in Objects(cmd[p]) THEN Absent ELSE files[f]]
  BY DEF Clean
<1>6. FilesOK'
  BY <1>5, Facts DEF FilesOK, Absent, Content, Kinds
<1>7. Kept
  BY <1>5, Facts DEF Kept
<1>8. QED  BY <1>4, <1>6, <1>7 DEF IInv

\* The driver looks for its output and touches no file (fractal-cpp.cpp.in:213-215).
LEMMA CheckKeeps ==
    ASSUME IInv, NEW p \in Procs, Check(p)
    PROVE  IInv' /\ Kept
<1>1. cmd' = cmd /\ proc[p].status \in {"none", "failed"} /\ proc \in [Procs -> Record]
  BY Facts DEF Check
<1>2. PICK status \in {"ok", "failed"} :
         proc' = [proc EXCEPT ![p].pc = "exit", ![p].status = status]
  BY DEF Check
<1>3. /\ proc' \in [Procs -> Record] /\ \A q \in Procs : q # p => proc'[q] = proc[q]
      /\ proc'[p].i = proc[p].i /\ proc'[p].pc = "exit"
  BY ZenonT(40), <1>1, <1>2 DEF Record, Pcs
<1>4. ProcOK'
  BY <1>1, <1>3, Facts, Move
<1>5. FilesOK' /\ Kept
  BY Facts DEF Check, FilesOK, Kept
<1>6. QED  BY <1>4, <1>5 DEF IInv

-----------------------------------------------------------------------------

\* No step of a driver breaks the types or touches a source outside the
\* temporary directory.
LEMMA StepKeeps ==
    IInv /\ [Next]_vars =>
        IInv' /\ [\A s \in Sources : s[1] # TempDir => files'[s] = files[s]]_vars
<1>1. CASE UNCHANGED vars
  BY <1>1 DEF vars, IInv, FilesOK, ProcOK
<1>2. ASSUME IInv, NEW p \in Procs, Step(p)
      PROVE  IInv' /\ Kept
  BY <1>2, GenerateKeeps, ChooseKeeps, CompileKeeps, RemoveTmpKeeps, LinkKeeps,
     PostPassKeeps, CleanKeeps, CheckKeeps DEF Step
<1>3. QED  BY <1>1, <1>2 DEF Next, Kept

\* The drivers' state is typed: no status before the end, and a file to compile
\* before clang is called.
THEOREM TypeCorrect == Spec => [](IInv /\ TypeOK)
<1>1. IInv => TypeOK
  <2>. SUFFICES ASSUME IInv PROVE TypeOK
    OBVIOUS
  <2>1. ASSUME NEW p \in Procs PROVE proc[p].i \in DOMAIN cmd[p].inputs
    <3>1. cmd[p] \in Commands /\ proc[p].i \in 1 .. Len(cmd[p].inputs)
      BY Facts
    <3>2. QED  BY <3>1, CommandTyped
  <2>2. QED  BY <2>1 DEF IInv, FilesOK, ProcOK, TypeOK
<1>2. QED  BY <1>1, InitInv, StepKeeps, PTL DEF Spec

\* No process, whatever fails and whatever the others do, changes or removes a
\* source that is not in the temporary directory (fractal-cpp.cpp.in:164-212).
THEOREM SourcesKeptAlways == Spec => SourcesKept
<1>1. QED  BY InitInv, StepKeeps, PTL DEF Spec, SourcesKept

-----------------------------------------------------------------------------
(* What a command touches *)

\* Names with different last parts differ.
LEMMA LastPartsDiffer ==
    ASSUME NEW T, NEW s \in Seq(T), NEW t \in Seq(T), NEW d \in T, NEW e \in T, d # e
    PROVE  Append(s, d) # Append(t, e)
<1>. SUFFICES ASSUME Append(s, d) = Append(t, e) PROVE FALSE
  OBVIOUS
<1>1. Len(s) + 1 = Len(t) + 1
  BY Appended
<1>2. Len(s) = Len(t)
  BY <1>1
<1>3. Append(s, d)[Len(s) + 1] = d /\ Append(t, e)[Len(t) + 1] = e
  OBVIOUS
<1>4. QED  BY <1>2, <1>3

\* Of one command that links, temporary files, objects and ABIs have different names.
LEMMA NamesApart ==
    ASSUME NEW c \in Commands, c.link, NEW s \in Sources, NEW t \in Sources
    PROVE  /\ TmpFile(c, s) # Object(c, t) /\ TmpFile(c, s) # Abi(t)
           /\ Object(c, s) # Abi(t)
<1>1. Object(c, s) = Append(TmpFile(c, s), "o") /\ Object(c, t) = Append(TmpFile(c, t), "o")
  BY DEF Object
<1>2. /\ Len(TmpFile(c, s)) \in {2, 4} /\ Len(Append(TmpFile(c, t), "o")) \in {3, 5}
      /\ Len(Abi(t)) = 3
  BY DerivedNames
<1>3. TmpFile(c, s) # Object(c, t) /\ TmpFile(c, s) # Abi(t)
  <2>1. Len(TmpFile(c, s)) # Len(Object(c, t)) /\ Len(TmpFile(c, s)) # Len(Abi(t))
    <3>. DEFINE a == Len(TmpFile(c, s))
                b == Len(Object(c, t))
                d == Len(Abi(t))
    <3>1. a \in {2, 4} /\ b \in {3, 5} /\ d = 3
      BY <1>1, <1>2
    <3>. HIDE DEF a, b, d
    <3>2. a # b /\ a # d
      BY <3>1
    <3>3. QED  BY <3>2 DEF a, b, d
  <2>2. QED  BY <2>1, Different
<1>4. Object(c, s) # Abi(t)
  <2>1. TmpFile(c, s) \in Seq(Part) /\ t \in Seq(Part)
    BY DerivedNames, SourceTyped
  <2>2. "o" \in Part /\ "abi" \in Part /\ "o" # "abi"
    BY DEF Part
  <2>3. QED  BY <1>1, <2>1, <2>2, LastPartsDiffer DEF Abi
<1>5. QED  BY <1>3, <1>4

\* What a driver writes or removes, for each of its inputs.
LEMMA TouchedNames ==
    ASSUME NEW c \in Commands
    PROVE  /\ Output(c) \in Touched(c) /\ Output(c) \in Paths
           /\ ToSet(LinkInputs(c)) \subseteq Touched(c) /\ ToSet(LinkInputs(c)) \subseteq Paths
           /\ Objects(c) \subseteq Touched(c)
           /\ \A s \in ToSet(c.inputs) :
                 /\ s \in Sources /\ s \in Paths
                 /\ Object(c, s) \in Objects(c) /\ Object(c, s) \in Paths
                 /\ TmpFile(c, s) \in Touched(c) /\ TmpFile(c, s) \in Paths
                 /\ c.tool = "cpp" => Abi(s) \in Touched(c)
                 /\ Abi(s) \in Paths
<1>. DEFINE All == UNION {Objects(d) \cup ToSet(LinkInputs(d)) \cup {Output(d)} : d \in Commands}
            ABIs == {Abi(s) : s \in Sources}
<1>1. /\ Output(c) \in Touched(c) /\ ToSet(LinkInputs(c)) \subseteq Touched(c)
      /\ Objects(c) \subseteq Touched(c)
  BY DEF Touched
<1>2. Output(c) \in All /\ ToSet(LinkInputs(c)) \subseteq All /\ Objects(c) \subseteq All
  OBVIOUS
<1>. HIDE DEF All, ABIs
<1>3. All \subseteq Paths /\ ABIs \subseteq Paths
  BY DEF Paths, All, ABIs
<1>4. ASSUME NEW s \in ToSet(c.inputs)
      PROVE  /\ s \in Sources /\ s \in Paths
             /\ Object(c, s) \in Objects(c) /\ Object(c, s) \in Paths
             /\ TmpFile(c, s) \in Touched(c) /\ TmpFile(c, s) \in Paths
             /\ c.tool = "cpp" => Abi(s) \in Touched(c)
             /\ Abi(s) \in Paths
  <2>1. PICK k \in DOMAIN c.inputs : s = c.inputs[k]
    BY DEF ToSet
  <2>2. k \in 1 .. Len(c.inputs)
    BY CommandTyped
  <2>3. s \in Sources /\ s \in Paths /\ TmpFile(c, s) \in Paths
    BY <2>1, <2>2, CommandTyped, PathsWritten
  <2>4. Object(c, s) \in Objects(c)
    BY <2>1 DEF Objects
  <2>5. Abi(s) \in ABIs
    BY <2>3 DEF ABIs
  <2>6. TmpFile(c, s) \in Touched(c) /\ (c.tool = "cpp" => Abi(s) \in Touched(c))
    BY DEF Touched
  <2>7. QED  BY <1>2, <1>3, <2>3, <2>4, <2>5, <2>6
<1>5. QED  BY <1>1, <1>2, <1>3, <1>4

\* The sources as they were, and the ABI generator where there is one.
HistoryOK ==
    /\ \A s \in Sources : start[s] = Content("text", <<s>>)
    /\ \A p \in Procs : proc[p].pc = "generate" => cmd[p].tool = "cpp"

\* What the process that takes a step may use of its input and of the files.
LEMMA Own ==
    ASSUME IInv, NEW p \in Procs
    PROVE  /\ cmd[p] \in Commands /\ In(p) \in ToSet(cmd[p].inputs)
           /\ In(p) = cmd[p].inputs[proc[p].i]
           /\ proc[p].i \in 1 .. Len(cmd[p].inputs) /\ Len(cmd[p].inputs) \in Nat \ {0}
           /\ \A k \in 1 .. Len(cmd[p].inputs) : cmd[p].inputs[k] \in ToSet(cmd[p].inputs)
           /\ \A s \in ToSet(cmd[p].inputs) :
                 \E k \in 1 .. Len(cmd[p].inputs) : s = cmd[p].inputs[k]
           /\ proc \in [Procs -> Record] /\ proc[p].status \in {"none", "ok", "failed"}
           /\ files = [f \in Paths |-> files[f]]
<1>1. /\ cmd[p] \in Commands /\ proc[p].i \in 1 .. Len(cmd[p].inputs)
      /\ proc \in [Procs -> Record] /\ proc[p].status \in {"none", "ok", "failed"}
      /\ files = [f \in Paths |-> files[f]]
  BY Facts DEF FilesOK
<1>2. DOMAIN cmd[p].inputs = 1 .. Len(cmd[p].inputs) /\ Len(cmd[p].inputs) \in Nat \ {0}
  BY <1>1, CommandTyped
<1>3. QED  BY <1>1, <1>2 DEF In, ToSet

\* A step of a process changes nothing but what its command touches.
LEMMA StepTouches ==
    ASSUME IInv, HistoryOK, NEW q \in Procs, Step(q)
    PROVE  /\ cmd' = cmd /\ start' = start
           /\ \A p \in Procs : p # q => proc'[p] = proc[p]
           /\ \A f \in Paths : f \notin Touched(cmd[q]) => files'[f] = files[f]
<1>1. cmd' = cmd /\ start' = start
  BY DEF Step, Generate, Choose, Compile, RemoveTmp, Link, PostPass, Clean, Check
<1>2. \A p \in Procs : p # q => proc'[p] = proc[p]
  <2>1. proc \in [Procs -> Record]
    BY Own
  <2>2. QED
    BY <2>1 DEF Step, Generate, Choose, Compile, RemoveTmp, Link, PostPass, Clean, Check,
                Goto, Fail
<1>3. /\ Output(cmd[q]) \in Touched(cmd[q]) /\ TmpFile(cmd[q], In(q)) \in Touched(cmd[q])
      /\ Objects(cmd[q]) \subseteq Touched(cmd[q])
      /\ Object(cmd[q], In(q)) \in Touched(cmd[q])
      /\ cmd[q].tool = "cpp" => Abi(In(q)) \in Touched(cmd[q])
  BY Own, TouchedNames
<1>4. files = [f \in Paths |-> files[f]]
  BY Own
<1>5. ASSUME NEW f \in Paths, f \notin Touched(cmd[q])
      PROVE  files'[f] = files[f]
  <2>1. CASE Generate(q)
    BY <1>3, <1>4, <1>5, <2>1 DEF Generate, HistoryOK
  <2>2. CASE Compile(q)
    BY <1>3, <1>4, <1>5, <2>2 DEF Compile
  <2>3. CASE RemoveTmp(q)
    BY <1>3, <1>4, <1>5, <2>3 DEF RemoveTmp
  <2>4. CASE Link(q) \/ PostPass(q)
    BY <1>3, <1>4, <1>5, <2>4 DEF Link, PostPass
  <2>5. CASE Clean(q)
    BY <1>3, <1>5, <2>5 DEF Clean
  <2>6. CASE Choose(q) \/ Check(q)
    BY <2>6 DEF Choose, Check
  <2>7. QED  BY <2>1, <2>2, <2>3, <2>4, <2>5, <2>6 DEF Step
<1>6. QED  BY <1>1, <1>2, <1>5

-----------------------------------------------------------------------------
(* A driver that is left alone *)

\* What FaithfulBuild and TempsGone ask of a process.
Alone(p) == cmd[p].link /\ OutputApart(cmd[p]) /\ Apart(p)

\* The process has been through all of its inputs, and nothing has failed that
\* it knows of or it is cleaning up.
Passed(p) == proc[p].pc \in {"link", "postpass", "clean", "check"} \/ Succeeded(p)

\* The temporary files of the inputs it is done with are gone, and after cleaning
\* up so are the objects.
Gone(p) ==
    \A k \in 1 .. Len(cmd[p].inputs) :
        /\ Passed(p) \/ k < proc[p].i => files[TmpFile(cmd[p], cmd[p].inputs[k])] = Absent
        /\ proc[p].pc = "check" \/ Succeeded(p) =>
               files[Object(cmd[p], cmd[p].inputs[k])] = Absent

\* What clang makes of an input, or of another with the same object.
Compiled(c, s) ==
    {Content("object", <<x>>) : x \in {y \in ToSet(c.inputs) : Object(c, y) = Object(c, s)}}

\* clang is called on the inputs themselves, and every object is of one of them.
InputsMade(p) ==
    /\ \A s \in ToSet(cmd[p].inputs) :
          /\ files[s] = Content("text", <<s>>)
          /\ files[TmpFile(cmd[p], s)] = Absent
          /\ files[Object(cmd[p], s)] \in {Absent} \cup Compiled(cmd[p], s)
    /\ proc[p].pc = "compile" => proc[p].in = In(p)

\* The object fractal-cc expects beside its own when it names the output itself.
Extra(c) == <<TempDir, c.inputs[1][2], "o">>

\* There is no output but what wasm-ld makes of the objects of all inputs.
OutputMade(p) ==
    LET c == cmd[p]
        out == files[Output(c)]
    IN  /\ c.out = NoOut /\ c.tool = "cc" /\ Len(c.inputs) = 1 => files[Extra(c)] = Absent
        /\ \/ out = Absent
           \/ /\ proc[p].pc \in {"postpass", "clean", "check", "exit"}
              /\ c.out # NoOut
              /\ out.is \in {"module", "contract"} /\ out.of = Reverse(c.inputs)
              /\ IsInjective(Reverse(c.inputs))
        /\ Succeeded(p) => out # Absent

\* The first inputs, and how many of them the driver has been through.
Prefix(c, n) == [k \in 1 .. n |-> c.inputs[k]]
Done(p) == IF proc[p].pc = "generate" THEN proc[p].i - 1 ELSE proc[p].i

\* The driver is not at an end that it came to by failing.
Going(p) == proc[p].pc # "exit" \/ Succeeded(p)

\* The ABI holds the texts of the inputs so far, and an ABI beside an input, when
\* there is a complete one, those up to that input.
AbiMade(p) ==
    LET c == cmd[p]
    IN  /\ Passed(p) => proc[p].i = Len(c.inputs)
        /\ c.tool = "cpp" /\ Going(p) =>
              /\ proc[p].abi = Prefix(c, Done(p))
              /\ IsInjective(c.inputs) =>
                    \A k \in 1 .. Len(c.inputs) :
                        files[Abi(c.inputs[k])] \in {Absent, Torn, Content("abi", Prefix(c, k))}

Made(p) == InputsMade(p) /\ OutputMade(p) /\ AbiMade(p)

BuildInv ==
    /\ IInv /\ HistoryOK
    /\ \A p \in Procs : Alone(p) => Gone(p) /\ (Fresh(p) => Made(p))

\* A step that keeps the ABI and does not get further.
LEMMA AbiKept ==
    ASSUME NEW p \in Procs, AbiMade(p), cmd' = cmd, proc'[p].abi = proc[p].abi,
           cmd[p].tool = "cpp" => Done(p)' = Done(p), Passed(p)' => proc'[p].i = Len(cmd[p].inputs),
           Going(p)' => Going(p),
           cmd[p].tool = "cpp" =>
               \A k \in 1 .. Len(cmd[p].inputs) :
                   files'[Abi(cmd[p].inputs[k])] = files[Abi(cmd[p].inputs[k])]
    PROVE  AbiMade(p)'
<1>1. \A k : Prefix(cmd[p], k)' = Prefix(cmd[p], k)
  BY DEF Prefix
<1>. HIDE DEF Prefix, Done, Passed, Going
<1>2. \A k : (Abi(cmd[p].inputs[k]))' = Abi(cmd[p].inputs[k])
  BY DEF Abi
<1>3. QED  BY <1>1, <1>2 DEF AbiMade, Absent, Torn, Content

\* ABIs have the same name only if they are of the same source.
LEMMA AbiNames ==
    ASSUME NEW s \in Sources, NEW t \in Sources, Abi(s) = Abi(t)
    PROVE  s = t
<1>1. s \in Seq(Part) /\ t \in Seq(Part) /\ Len(s) = 2 /\ Len(t) = 2
  BY SourceTyped
<1>2. ASSUME NEW T, NEW u \in Seq(T), NEW e \in T
      PROVE  \A k \in 1 .. Len(u) : Append(u, e)[k] = u[k]
  OBVIOUS
<1>3. /\ Append(s, "abi")[1] = s[1] /\ Append(s, "abi")[2] = s[2]
      /\ Append(t, "abi")[1] = t[1] /\ Append(t, "abi")[2] = t[2]
  <2>1. "abi" \in Part
    BY DEF Part
  <2>2. /\ \A k \in 1 .. Len(s) : Append(s, "abi")[k] = s[k]
        /\ \A k \in 1 .. Len(t) : Append(t, "abi")[k] = t[k]
    BY <1>1, <1>2, <2>1
  <2>3. QED  BY <1>1, <2>2
<1>4. s[1] = t[1] /\ s[2] = t[2]
  BY <1>3 DEF Abi
<1>5. QED  BY <1>1, <1>4

\* A sequence and one more element.
LEMMA OneMore ==
    ASSUME NEW T, NEW s \in Seq(T), NEW e \in T
    PROVE  /\ DOMAIN (s \o <<e>>) = 1 .. Len(s) + 1 /\ (s \o <<e>>)[Len(s) + 1] = e
           /\ \A k \in 1 .. Len(s) : (s \o <<e>>)[k] = s[k]
<1>1. s \o <<e>> = Append(s, e)
  OBVIOUS
<1>2. /\ DOMAIN Append(s, e) = 1 .. Len(s) + 1 /\ Append(s, e)[Len(s) + 1] = e
      /\ \A k \in 1 .. Len(s) : Append(s, e)[k] = s[k]
  OBVIOUS
<1>3. QED  BY <1>1, <1>2

\* A name of two parts and a third.
LEMMA ThreeParts ==
    ASSUME NEW a, NEW b, NEW d
    PROVE  Append(<<a, b>>, d) = <<a, b, d>>
<1>. DEFINE T == {a, b, d}
            s == <<a, b>>
            u == <<a, b, d>>
<1>1. s \in Seq(T) /\ Len(s) = 2 /\ s[1] = a /\ s[2] = b /\ d \in T
  OBVIOUS
<1>2. u \in Seq(T) /\ Len(u) = 3 /\ u[1] = a /\ u[2] = b /\ u[3] = d
  OBVIOUS
<1>. HIDE DEF T, s, u
<1>3. /\ Append(s, d) \in Seq(T) /\ Len(Append(s, d)) = Len(s) + 1
      /\ Append(s, d)[Len(s) + 1] = d
      /\ \A k \in 1 .. Len(s) : Append(s, d)[k] = s[k]
  <2>1. Append(s, d) \in Seq(T) /\ Len(Append(s, d)) = Len(s) + 1
    BY <1>1, Appended
  <2>2. Append(s, d)[Len(s) + 1] = d /\ \A k \in 1 .. Len(s) : Append(s, d)[k] = s[k]
    <3>1. s \in Seq(T) /\ d \in T
      BY <1>1
    <3>2. QED  BY <3>1
  <2>3. QED  BY <2>1, <2>2
<1>. DEFINE v == Append(s, d)
<1>. HIDE DEF v
<1>4. v \in Seq(T) /\ Len(v) = 3 /\ v[3] = d /\ v[1] = a /\ v[2] = b
  BY <1>1, <1>3 DEF v
<1>5. v = u
  <2>1. \A k \in 1 .. 3 : v[k] = u[k]
    BY <1>2, <1>4
  <2>2. QED  BY <1>2, <1>4, <2>1
<1>6. QED  BY <1>5 DEF s, u, v

\* The extra object of fractal-cc is a path of the command, and none of its objects.
LEMMA ExtraNames ==
    ASSUME NEW c \in Commands, c.out = NoOut, Len(c.inputs) = 1
    PROVE  /\ DOMAIN LinkInputs(c) = 1 .. 2
           /\ LinkInputs(c)[1] = Object(c, c.inputs[1]) /\ LinkInputs(c)[2] = Extra(c)
           /\ Extra(c) \in ToSet(LinkInputs(c))
           /\ Extra(c) # Output(c)
           /\ c.tool = "cc" /\ c.link =>
                 \A s \in ToSet(c.inputs) : Extra(c) # Object(c, s)
<1>. DEFINE objects == Reverse([k \in DOMAIN c.inputs |-> Object(c, c.inputs[k])])
<1>1. c.inputs \in Seq(Sources) /\ DOMAIN c.inputs = 1 .. 1 /\ c.inputs[1] \in Sources
  BY CommandTyped
<1>2. LinkInputs(c) = objects \o <<Extra(c)>>
  BY DEF LinkInputs, Extra
<1>3. /\ objects \in Seq({Object(c, c.inputs[1])}) /\ Len(objects) = 1
      /\ objects[1] = Object(c, c.inputs[1])
  BY <1>1 DEF Reverse
<1>. HIDE DEF objects
<1>4. /\ DOMAIN LinkInputs(c) = 1 .. 2 /\ LinkInputs(c)[2] = Extra(c)
      /\ LinkInputs(c)[1] = Object(c, c.inputs[1])
  <2>. DEFINE T == {Object(c, c.inputs[1]), Extra(c)}
  <2>1. objects \in Seq(T) /\ Extra(c) \in T
    BY <1>3
  <2>. HIDE DEF T
  <2>2. /\ DOMAIN (objects \o <<Extra(c)>>) = 1 .. Len(objects) + 1
        /\ (objects \o <<Extra(c)>>)[Len(objects) + 1] = Extra(c)
        /\ \A k \in 1 .. Len(objects) : (objects \o <<Extra(c)>>)[k] = objects[k]
    BY <2>1, OneMore
  <2>3. Len(objects) + 1 = 2 /\ 1 \in 1 .. Len(objects)
    BY <1>3
  <2>4. QED  BY <1>2, <1>3, <2>2, <2>3
<1>5. Extra(c) \in ToSet(LinkInputs(c))
  <2>1. 2 \in 1 .. 2
    OBVIOUS
  <2>2. QED  BY <1>4, <2>1 DEF ToSet
<1>6. Extra(c) # Output(c)
  <2>1. Output(c) = <<".", c.inputs[1][2], "wasm">>
    BY DEF Output
  <2>2. Extra(c)[1] = "tmp" /\ Output(c)[1] = "."
    BY <2>1 DEF Extra, TempDir
  <2>3. QED  BY <2>2
<1>7. ASSUME c.tool = "cc", c.link, NEW s \in ToSet(c.inputs)
      PROVE  Extra(c) # Object(c, s)
  <2>1. Object(c, s) = Append(TmpFile(c, s), "o") /\ s \in Sources
    BY <1>7, TouchedNames DEF Object
  <2>2. Len(Object(c, s)) = 5
    BY <1>7, <2>1, DerivedNames
  <2>3. Len(Extra(c)) = 3
    BY DEF Extra
  <2>4. Len(Extra(c)) # Len(Object(c, s))
    BY <2>2, <2>3
  <2>5. QED  BY <2>4, Different
<1>8. QED  BY <1>4, <1>5, <1>6, <1>7

\* Before the first step every source has its text and no driver has done anything.
LEMMA InitBuild == Init => BuildInv
<1>. SUFFICES ASSUME Init PROVE BuildInv
  OBVIOUS
<1>1. IInv
  BY InitInv
<1>2. ASSUME NEW s \in Sources PROVE start[s] = Content("text", <<s>>)
  <2>1. s \in Paths
    BY DEF Paths
  <2>2. files[s] = Content("text", <<s>>)
    BY <2>1 DEF Init
  <2>3. QED  BY <2>2 DEF Init
<1>3. HistoryOK
  BY <1>2 DEF Init, HistoryOK, First
<1>4. ASSUME NEW p \in Procs, Alone(p)
      PROVE  Gone(p) /\ (Fresh(p) => Made(p))
  <2>1. /\ proc[p].pc \in {"generate", "choose"} /\ proc[p].i = 1 /\ proc[p].abi = <<>>
        /\ cmd[p].tool = "cpp" => proc[p].pc = "generate"
        /\ ~Passed(p)
    BY DEF Init, First, Passed, Succeeded
  <2>2. Gone(p)
    BY <2>1 DEF Gone, Passed
  <2>3. ASSUME Fresh(p) PROVE Made(p)
    <3>1. \A f \in Touched(cmd[p]) : files[f] = Absent
      BY <2>3 DEF Fresh, Init
    <3>2. InputsMade(p)
      BY <1>1, <1>2, <2>1, <3>1, Own, TouchedNames DEF InputsMade, Init
    <3>3. OutputMade(p)
      BY <1>1, <2>1, <3>1, Own, TouchedNames, ExtraNames DEF OutputMade, Passed
    <3>4. AbiMade(p)
      <4>1. cmd[p].tool = "cpp" => proc[p].abi = Prefix(cmd[p], Done(p))
        <5>1. [k \in 1 .. 0 |-> cmd[p].inputs[k]] = <<>>
          OBVIOUS
        <5>2. QED  BY <2>1, <5>1 DEF Prefix, Done
      <4>2. ASSUME cmd[p].tool = "cpp", NEW k \in 1 .. Len(cmd[p].inputs)
            PROVE  files[Abi(cmd[p].inputs[k])] = Absent
        <5>1. cmd[p] \in Commands /\ cmd[p].inputs[k] \in ToSet(cmd[p].inputs)
          BY <1>1, Own
        <5>2. Abi(cmd[p].inputs[k]) \in Touched(cmd[p])
          BY <4>2, <5>1, TouchedNames
        <5>3. QED  BY <3>1, <5>2
      <4>3. QED  BY <2>1, <4>1, <4>2 DEF AbiMade
    <3>5. QED  BY <3>2, <3>3, <3>4 DEF Made
  <2>4. QED  BY <2>2, <2>3
<1>5. QED  BY <1>1, <1>3, <1>4 DEF BuildInv

-----------------------------------------------------------------------------
(* Steps of a driver that is left alone, and of others *)

\* The first elements of a sequence, and one more.
LEMMA PrefixGrows ==
    ASSUME NEW T, NEW s \in Seq(T), NEW i \in 1 .. Len(s)
    PROVE  Append([k \in 1 .. i - 1 |-> s[k]], s[i]) = [k \in 1 .. i |-> s[k]]
<1>. DEFINE a == [k \in 1 .. i - 1 |-> s[k]]
            b == [k \in 1 .. i |-> s[k]]
<1>1. i - 1 \in Nat /\ (i - 1) + 1 = i /\ Len(s) \in Nat /\ i \in Nat
  OBVIOUS
<1>2. a \in Seq(T) /\ Len(a) = i - 1 /\ b \in Seq(T) /\ Len(b) = i
  BY <1>1
<1>3. s[i] \in T
  OBVIOUS
<1>. DEFINE t == Append(a, s[i])
<1>4. t \in Seq(T) /\ Len(t) = i /\ t[i] = s[i] /\ \A k \in 1 .. i - 1 : t[k] = s[k]
  <2>. DEFINE e == s[i]
  <2>. HIDE DEF e
  <2>1. /\ Append(a, e) \in Seq(T) /\ Len(Append(a, e)) = (i - 1) + 1
        /\ Append(a, e)[(i - 1) + 1] = e
        /\ \A k \in 1 .. i - 1 : Append(a, e)[k] = a[k]
    <3>. HIDE DEF a
    <3>1. e \in T
      BY <1>3 DEF e
    <3>2. QED  BY <1>1, <1>2, <3>1
  <2>2. QED  BY <1>1, <2>1 DEF e
<1>5. \A k \in 1 .. i : t[k] = b[k]
  <2>. TAKE k \in 1 .. i
  <2>1. k = i \/ k \in 1 .. i - 1
    BY <1>1
  <2>2. b[k] = s[k]
    OBVIOUS
  <2>. HIDE DEF a, b, t
  <2>3. QED  BY <1>4, <2>1, <2>2
<1>6. t = b
  <2>. HIDE DEF a, b, t
  <2>1. QED  BY <1>1, <1>2, <1>4, <1>5
<1>7. QED  BY <1>6

\* What is asked of a process does not depend on where the processes are.
LEMMA AskedKept ==
    ASSUME cmd' = cmd, start' = start, NEW p \in Procs
    PROVE  (Alone(p)' <=> Alone(p)) /\ (Fresh(p)' <=> Fresh(p))
BY DEF Alone, OutputApart, Apart, Fresh, Touched, Output, Object, TmpFile, Abi, Objects, LinkInputs

\* A step that changes neither the process nor what belongs to it.
LEMMA BuildKept ==
    ASSUME IInv, NEW p \in Procs, cmd' = cmd, proc'[p] = proc[p],
           \A f \in (Touched(cmd[p]) \cup ToSet(cmd[p].inputs)) \cap Paths : files'[f] = files[f],
           Gone(p), Fresh(p) => Made(p)
    PROVE  Gone(p)' /\ (Fresh(p) => Made(p)')
<1>. DEFINE c == cmd[p]
<1>1. /\ c \in Commands
      /\ \A s \in ToSet(c.inputs) :
            /\ files'[s] = files[s]
            /\ files'[TmpFile(c, s)] = files[TmpFile(c, s)]
            /\ files'[Object(c, s)] = files[Object(c, s)]
            /\ c.tool = "cpp" => files'[Abi(s)] = files[Abi(s)]
      /\ files'[Output(c)] = files[Output(c)]
      /\ c.out = NoOut /\ Len(c.inputs) = 1 => files'[Extra(c)] = files[Extra(c)]
  <2>1. c \in Commands
    BY Own
  <2>2. QED  BY <2>1, TouchedNames, ExtraNames
<1>2. /\ \A k \in 1 .. Len(c.inputs) : c.inputs[k] \in ToSet(c.inputs)
      /\ In(p) \in ToSet(c.inputs)
  BY Own
<1>3. Passed(p)' <=> Passed(p)
  BY DEF Passed, Succeeded
<1>4. Succeeded(p)' <=> Succeeded(p)
  BY DEF Succeeded
<1>5. Gone(p)'
  BY <1>1, <1>2, <1>3, <1>4 DEF Gone
<1>6. ASSUME Made(p) PROVE Made(p)'
  <2>1. In(p)' = In(p)
    BY DEF In
  <2>2. InputsMade(p)'
    BY <1>1, <1>6, <2>1 DEF Made, InputsMade, Compiled
  <2>3. OutputMade(p)'
    BY <1>1, <1>4, <1>6 DEF Made, OutputMade
  <2>4. AbiMade(p)'
    BY <1>1, <1>2, <1>3, <1>4, <1>6, AbiKept DEF Made, AbiMade, Done, Going
  <2>5. QED  BY <2>2, <2>3, <2>4 DEF Made
<1>7. QED  BY <1>5, <1>6

\* The steps of the other processes.
LEMMA OtherKeeps ==
    ASSUME BuildInv, NEW p \in Procs, NEW q \in Procs, p # q, Step(q), Alone(p)
    PROVE  Gone(p)' /\ (Fresh(p) => Made(p)')
<1>1. /\ cmd' = cmd /\ proc'[p] = proc[p]
      /\ \A f \in Paths : f \notin Touched(cmd[q]) => files'[f] = files[f]
  BY StepTouches DEF BuildInv
<1>2. Touched(cmd[q]) \cap (Touched(cmd[p]) \cup ToSet(cmd[p].inputs)) = {}
  BY DEF Alone, Apart
<1>3. IInv /\ Gone(p) /\ (Fresh(p) => Made(p))
  BY DEF BuildInv
<1>4. QED  BY <1>1, <1>2, <1>3, BuildKept

\* The names a driver uses, when nothing else bears them.
NamesOK(p) ==
    LET c == cmd[p]
    IN  /\ c \in Commands /\ c.link
        /\ Output(c) \in Paths /\ Output(c) \in Touched(c)
        /\ \A s, t \in ToSet(c.inputs) :
              /\ TmpFile(c, s) # Object(c, t) /\ TmpFile(c, s) # Abi(t)
              /\ Object(c, s) # Abi(t)
        /\ \A s \in ToSet(c.inputs) :
              /\ s \in Sources /\ s \in Paths /\ Abi(s) \in Paths
              /\ TmpFile(c, s) \in Paths /\ TmpFile(c, s) \in Touched(c)
              /\ Object(c, s) \in Paths /\ Object(c, s) \in Touched(c)
              /\ c.tool = "cpp" => Abi(s) \in Touched(c)
              /\ Output(c) # Object(c, s) /\ Output(c) # TmpFile(c, s) /\ Output(c) # Abi(s)
              /\ Fresh(p) => s \notin Touched(c)
        /\ c.out = NoOut /\ c.tool = "cc" /\ Len(c.inputs) = 1 =>
              /\ Extra(c) \in Paths /\ Extra(c) # Output(c)
              /\ \A s \in ToSet(c.inputs) : Extra(c) # Object(c, s)

LEMMA AloneNames ==
    ASSUME BuildInv, NEW p \in Procs, Alone(p)
    PROVE  NamesOK(p)
<1>. DEFINE c == cmd[p]
<1>1. c \in Commands /\ c.link
  BY Own DEF BuildInv, Alone
<1>2. /\ Output(c) \in Touched(c) /\ Output(c) \in Paths
      /\ Objects(c) \subseteq Touched(c) /\ ToSet(LinkInputs(c)) \subseteq Paths
      /\ \A s \in ToSet(c.inputs) :
            /\ s \in Sources /\ s \in Paths
            /\ Object(c, s) \in Objects(c) /\ Object(c, s) \in Paths
            /\ TmpFile(c, s) \in Touched(c) /\ TmpFile(c, s) \in Paths
            /\ c.tool = "cpp" => Abi(s) \in Touched(c)
            /\ Abi(s) \in Paths
  BY <1>1, TouchedNames
<1>3. \A s, t \in ToSet(c.inputs) : /\ TmpFile(c, s) # Object(c, t) /\ TmpFile(c, s) # Abi(t)
                                   /\ Object(c, s) # Abi(t)
  BY <1>1, <1>2, NamesApart
<1>4. ASSUME NEW s \in ToSet(c.inputs)
      PROVE  /\ Output(c) # Object(c, s) /\ Output(c) # TmpFile(c, s) /\ Output(c) # Abi(s)
             /\ Fresh(p) => s \notin Touched(c)
  <2>1. Output(c) \notin {Object(c, s), TmpFile(c, s), Abi(s)}
    BY DEF Alone, OutputApart
  <2>2. start[s] # Absent
    <3>1. start[s] = Content("text", <<s>>)
      BY <1>2 DEF BuildInv, HistoryOK
    <3>2. Content("text", <<s>>).is # Absent.is
      BY DEF Content, Absent
    <3>3. QED  BY <3>1, <3>2
  <2>3. ASSUME Fresh(p) PROVE s \notin Touched(c)
    BY <2>2, <2>3 DEF Fresh
  <2>4. QED  BY <2>1, <2>3
<1>5. c.out = NoOut /\ c.tool = "cc" /\ Len(c.inputs) = 1 =>
         /\ Extra(c) \in Paths /\ Extra(c) # Output(c)
         /\ \A s \in ToSet(c.inputs) : Extra(c) # Object(c, s)
  BY <1>1, <1>2, ExtraNames
<1>6. QED  BY <1>1, <1>2, <1>3, <1>4, <1>5 DEF NamesOK

\* A step that writes none of the inputs, temporary files and objects.
LEMMA InputsKept ==
    ASSUME NEW p \in Procs, InputsMade(p), cmd' = cmd, proc'[p].pc # "compile",
           \A s \in ToSet(cmd[p].inputs) :
               /\ files'[s] = files[s]
               /\ files'[TmpFile(cmd[p], s)] = files[TmpFile(cmd[p], s)]
               /\ files'[Object(cmd[p], s)] = files[Object(cmd[p], s)]
    PROVE  InputsMade(p)'
BY DEF InputsMade, Compiled

\* generate lists the input in the ABI beside it.
LEMMA GenerateBuilds ==
    ASSUME BuildInv, NEW p \in Procs, Generate(p), Alone(p)
    PROVE  Gone(p)' /\ (Fresh(p) => Made(p)')
<1>. DEFINE c == cmd[p]
            i == proc[p].i
            abi == Append(proc[p].abi, In(p))
<1>1. /\ c \in Commands /\ In(p) \in ToSet(c.inputs) /\ In(p) = c.inputs[i]
      /\ i \in 1 .. Len(c.inputs) /\ Len(c.inputs) \in Nat \ {0}
      /\ proc \in [Procs -> Record] /\ files = [f \in Paths |-> files[f]]
      /\ \A k \in 1 .. Len(c.inputs) : c.inputs[k] \in ToSet(c.inputs)
  BY Own DEF BuildInv
<1>names. NamesOK(p)
  BY AloneNames
<1>2. proc[p].pc = "generate" /\ cmd' = cmd /\ c.tool = "cpp" /\ Gone(p)
  BY DEF Generate, BuildInv, HistoryOK
<1>3. ASSUME NEW x \in {Content("abi", abi), Torn, files[Abi(In(p))]},
             files' = [files EXCEPT ![Abi(In(p))] = x],
             proc' = [proc EXCEPT ![p].pc = "choose", ![p].abi = abi]
      PROVE  Gone(p)' /\ (Fresh(p) => Made(p)')
  <2>1. /\ proc'[p].pc = "choose" /\ proc'[p].i = i /\ proc'[p].abi = abi
        /\ In(p)' = In(p) /\ ~Passed(p)' /\ ~Succeeded(p)'
    BY <1>1, <1>2, <1>3 DEF Record, Passed, Succeeded, In
  <2>. HIDE DEF abi
  <2>2. /\ files'[Abi(In(p))] = x
        /\ \A f \in Paths : f # Abi(In(p)) => files'[f] = files[f]
    <3>1. Abi(In(p)) \in Paths
      BY <1>1, <1>names DEF NamesOK
    <3>2. QED  BY <1>1, <1>3, <3>1
  <2>3. \A s \in ToSet(c.inputs) : /\ files'[TmpFile(c, s)] = files[TmpFile(c, s)]
                                  /\ files'[Object(c, s)] = files[Object(c, s)]
    BY <1>1, <1>names, <2>2 DEF NamesOK
  <2>4. Gone(p)'
    BY <1>1, <1>2, <2>1, <2>3 DEF Gone
  <2>5. ASSUME Fresh(p) PROVE Made(p)'
    <3>1. InputsMade(p) /\ OutputMade(p) /\ AbiMade(p)
      BY <2>5 DEF BuildInv, Made
    <3>2. InputsMade(p)'
      <4>1. \A s \in ToSet(c.inputs) : files'[s] = files[s]
        BY <1>1, <1>2, <1>names, <2>2, <2>5 DEF NamesOK
      <4>2. QED  BY <1>2, <2>1, <2>3, <3>1, <4>1, InputsKept
    <3>3. OutputMade(p)'
      <4>1. files[Output(c)] = Absent
        BY <1>2, <3>1 DEF OutputMade
      <4>2. files'[Output(c)] = Absent
        BY <1>1, <1>names, <2>2, <4>1 DEF NamesOK
      <4>3. QED  BY <1>2, <2>1, <4>2 DEF OutputMade
    <3>4. AbiMade(p)'
      <4>1. proc[p].abi = [k \in 1 .. i - 1 |-> c.inputs[k]]
        BY <1>2, <3>1 DEF AbiMade, Done, Prefix, Going
      <4>2. abi = Prefix(c, i)
        <5>1. abi = [k \in 1 .. i |-> c.inputs[k]]
          <6>1. Append([k \in 1 .. i - 1 |-> c.inputs[k]], c.inputs[i]) = [k \in 1 .. i |-> c.inputs[k]]
            BY <1>1, PrefixGrows, CommandTyped
          <6>2. QED  BY <1>1, <4>1, <6>1 DEF abi
        <5>2. QED  BY <5>1 DEF Prefix
      <4>3. ASSUME IsInjective(c.inputs), NEW k \in 1 .. Len(c.inputs)
            PROVE  files'[Abi(c.inputs[k])] \in {Absent, Torn, Content("abi", Prefix(c, k))}
        <5>1. files[Abi(c.inputs[k])] \in {Absent, Torn, Content("abi", Prefix(c, k))}
          BY <1>2, <3>1, <4>3 DEF AbiMade, Going
        <5>2. c.inputs[k] \in Sources /\ In(p) \in Sources /\ Abi(c.inputs[k]) \in Paths
          BY <1>1, <1>names DEF NamesOK
        <5>3. CASE Abi(c.inputs[k]) # Abi(In(p))
          BY <2>2, <5>1, <5>2, <5>3
        <5>4. CASE Abi(c.inputs[k]) = Abi(In(p))
          <6>1. c.inputs[k] = c.inputs[i]
            BY <1>1, <5>2, <5>4, AbiNames
          <6>2. k = i
            BY <1>1, <4>3, <6>1, CommandTyped DEF IsInjective
          <6>3. QED  BY <1>3, <2>2, <4>2, <5>1, <5>4, <6>2
        <5>5. QED  BY <5>3, <5>4
      <4>4. \A k : Prefix(c, k)' = Prefix(c, k)
        BY <1>2 DEF Prefix
      <4>5. Done(p)' = i
        BY <2>1 DEF Done
      <4>6. c.inputs' = c.inputs /\ c.tool' = c.tool
        BY <1>2
      <4>. HIDE DEF c, i
      <4>7. QED  BY <1>2, <2>1, <4>2, <4>3, <4>4, <4>5, <4>6 DEF AbiMade, c, Absent, Torn, Content, Abi
    <3>5. QED  BY <3>2, <3>3, <3>4 DEF Made
  <2>6. QED  BY <2>4, <2>5
<1>4. CASE Fail(p, "exit") /\ files' = files
  <2>1. /\ proc'[p].pc = "exit" /\ proc'[p].i = i /\ ~Passed(p)' /\ ~Succeeded(p)'
    BY <1>1, <1>4 DEF Record, Passed, Succeeded, Fail
  <2>2. Gone(p)'
    BY <1>2, <1>4, <2>1 DEF Gone
  <2>3. ASSUME Fresh(p) PROVE Made(p)'
    <3>1. InputsMade(p) /\ OutputMade(p)
      BY <2>3 DEF BuildInv, Made
    <3>2. InputsMade(p)'
      BY <1>2, <1>4, <2>1, <3>1, InputsKept
    <3>3. OutputMade(p)'
      BY <1>2, <1>4, <2>1, <3>1 DEF OutputMade
    <3>4. AbiMade(p)'
      BY <2>1 DEF AbiMade, Going
    <3>5. QED  BY <3>2, <3>3, <3>4 DEF Made
  <2>4. QED  BY <2>2, <2>3
<1>5. CASE files' = files /\ proc' = [proc EXCEPT ![p].pc = "choose", ![p].abi = abi]
  <2>1. files' = [files EXCEPT ![Abi(In(p))] = files[Abi(In(p))]]
    BY <1>1, <1>5
  <2>2. QED  BY <1>3, <1>5, <2>1
<1>6. QED  BY <1>3, <1>4, <1>5 DEF Generate

\* clang is called on the input itself: nothing in the temporary directory bears
\* its name.
LEMMA ChooseBuilds ==
    ASSUME BuildInv, NEW p \in Procs, Choose(p), Alone(p)
    PROVE  Gone(p)' /\ (Fresh(p) => Made(p)')
<1>. DEFINE c == cmd[p]
<1>1. /\ c \in Commands /\ In(p) \in ToSet(c.inputs) /\ proc \in [Procs -> Record]
  BY Own DEF BuildInv
<1>2. proc[p].pc = "choose" /\ cmd' = cmd /\ files' = files /\ Gone(p)
  BY DEF Choose, BuildInv
<1>3. /\ proc'[p].pc = "compile" /\ proc'[p].i = proc[p].i /\ proc'[p].abi = proc[p].abi
      /\ proc'[p].in = IF c.tool = "cpp" /\ Exists(TmpFile(c, In(p))) THEN TmpFile(c, In(p))
                       ELSE In(p)
  BY <1>1 DEF Choose, Record
<1>4. In(p)' = In(p) /\ ~Passed(p)' /\ ~Succeeded(p)' /\ ~Passed(p) /\ ~Succeeded(p)
  BY <1>2, <1>3 DEF Passed, Succeeded, In
<1>5. Gone(p)'
  BY <1>2, <1>3, <1>4 DEF Gone
<1>6. ASSUME Fresh(p) PROVE Made(p)'
  <2>1. InputsMade(p) /\ OutputMade(p) /\ AbiMade(p)
    BY <1>6 DEF BuildInv, Made
  <2>2. proc'[p].in = In(p)'
    BY <1>1, <1>3, <1>4, <2>1 DEF InputsMade, Exists
  <2>3. InputsMade(p)'
    BY <1>2, <2>1, <2>2 DEF InputsMade, Compiled
  <2>4. OutputMade(p)'
    BY <1>2, <1>3, <1>4, <2>1 DEF OutputMade
  <2>5. AbiMade(p)'
    BY <1>2, <1>3, <1>4, <2>1, AbiKept DEF Done, Going
  <2>6. QED  BY <2>3, <2>4, <2>5 DEF Made
<1>7. QED  BY <1>5, <1>6

\* An object is of the input it is named after, or of another of the same name.
LEMMA CompileBuilds ==
    ASSUME BuildInv, NEW p \in Procs, Compile(p), Alone(p)
    PROVE  Gone(p)' /\ (Fresh(p) => Made(p)')
<1>. DEFINE c == cmd[p]
            object == Object(c, In(p))
<1>1. /\ c \in Commands /\ In(p) \in ToSet(c.inputs) /\ proc \in [Procs -> Record]
      /\ files = [f \in Paths |-> files[f]]
      /\ \A k \in 1 .. Len(c.inputs) : c.inputs[k] \in ToSet(c.inputs)
  BY Own DEF BuildInv
<1>2. proc[p].pc = "compile" /\ cmd' = cmd /\ Gone(p)
  BY DEF Compile, BuildInv
<1>names. NamesOK(p)
  BY AloneNames
<1>3. /\ proc'[p].pc = "remove" /\ proc'[p].i = proc[p].i /\ proc'[p].abi = proc[p].abi
  BY <1>1 DEF Compile, Goto, Fail, Record
<1>4. In(p)' = In(p) /\ ~Passed(p)' /\ ~Succeeded(p)' /\ ~Passed(p) /\ ~Succeeded(p)
  BY <1>2, <1>3 DEF Passed, Succeeded, In
<1>5. /\ object \in Paths
      /\ \A f \in Paths : f # object => files'[f] = files[f]
      /\ \/ files'[object] \in {files[object], Absent}
         \/ /\ files[proc[p].in].is = "text"
            /\ files'[object] = Content("object", files[proc[p].in].of)
  <2>1. object \in Paths
    BY <1>1, <1>names DEF NamesOK
  <2>. HIDE DEF object
  <2>2. QED  BY <1>1, <2>1 DEF Compile, object
<1>6. \A s \in ToSet(c.inputs) :
         /\ files'[TmpFile(c, s)] = files[TmpFile(c, s)]
         /\ files'[Abi(s)] = files[Abi(s)]
  BY <1>1, <1>5, <1>names DEF NamesOK
<1>7. Gone(p)'
  BY <1>1, <1>2, <1>3, <1>4, <1>6 DEF Gone
<1>8. ASSUME Fresh(p) PROVE Made(p)'
  <2>1. InputsMade(p) /\ OutputMade(p) /\ AbiMade(p)
    BY <1>8 DEF BuildInv, Made
  <2>2. files'[object] \in {files[object], Absent, Content("object", <<In(p)>>)}
    <3>1. files[proc[p].in] = Content("text", <<In(p)>>)
      BY <1>1, <1>2, <2>1 DEF InputsMade
    <3>2. files[proc[p].in].of = <<In(p)>>
      BY <3>1 DEF Content
    <3>3. QED  BY <1>5, <3>2
  <2>3. ASSUME NEW s \in ToSet(c.inputs)
        PROVE  /\ files'[s] = files[s]
               /\ files'[Object(c, s)] \in {Absent} \cup Compiled(c, s)
    <3>1. files'[s] = files[s]
      BY <1>1, <1>5, <1>8, <1>names DEF NamesOK
    <3>2. CASE Object(c, s) # object
      BY <1>5, <1>names, <2>1, <3>1, <3>2 DEF NamesOK, InputsMade
    <3>3. CASE Object(c, s) = object
      <4>1. Content("object", <<In(p)>>) \in Compiled(c, s)
        BY <1>1, <3>3 DEF Compiled
      <4>2. files[object] \in {Absent} \cup Compiled(c, s)
        BY <2>1, <3>3 DEF InputsMade
      <4>3. files'[Object(c, s)] = files'[object]
        BY <3>3
      <4>. HIDE DEF object
      <4>4. QED  BY <2>2, <3>1, <4>1, <4>2, <4>3
    <3>4. QED  BY <3>1, <3>2, <3>3
  <2>4. InputsMade(p)'
    BY ZenonT(40), <1>2, <1>3, <1>6, <2>1, <2>3 DEF InputsMade, Compiled
  <2>5. OutputMade(p)'
    <3>1. files'[Output(c)] = files[Output(c)] /\ files[Output(c)] = Absent
      BY <1>1, <1>2, <1>5, <1>names, <2>1 DEF NamesOK, OutputMade
    <3>2. c.out = NoOut /\ c.tool = "cc" /\ Len(c.inputs) = 1 => files'[Extra(c)] = Absent
      BY <1>1, <1>5, <1>names, <2>1 DEF NamesOK, OutputMade
    <3>3. QED  BY <1>2, <1>3, <1>4, <3>1, <3>2 DEF OutputMade
  <2>6. AbiMade(p)'
    BY <1>1, <1>2, <1>3, <1>4, <1>6, <2>1, AbiKept DEF AbiMade, Done, Going
  <2>7. QED  BY <2>4, <2>5, <2>6 DEF Made
<1>9. QED  BY <1>7, <1>8

\* The temporary file goes, and the driver takes the next input or links.
LEMMA RemoveTmpBuilds ==
    ASSUME BuildInv, NEW p \in Procs, RemoveTmp(p), Alone(p)
    PROVE  Gone(p)' /\ (Fresh(p) => Made(p)')
<1>. DEFINE c == cmd[p]
            i == proc[p].i
            more == i < Len(c.inputs)
            tmp == TmpFile(c, In(p))
<1>1. /\ c \in Commands /\ In(p) \in ToSet(c.inputs) /\ proc \in [Procs -> Record]
      /\ In(p) = c.inputs[i] /\ i \in 1 .. Len(c.inputs) /\ Len(c.inputs) \in Nat \ {0}
      /\ files = [f \in Paths |-> files[f]]
      /\ \A k \in 1 .. Len(c.inputs) : c.inputs[k] \in ToSet(c.inputs)
  BY Own DEF BuildInv
<1>2. /\ proc[p].pc = "remove" /\ cmd' = cmd /\ Gone(p) /\ c.link
      /\ proc[p].status \in {"none", "failed"}
  BY Facts DEF RemoveTmp, BuildInv, Alone
<1>names. NamesOK(p)
  BY AloneNames
<1>3. /\ proc'[p].pc = IF proc[p].status = "failed" THEN "exit" ELSE IF more THEN First(c) ELSE "link"
      /\ proc'[p].i = IF more THEN i + 1 ELSE i
      /\ proc'[p].abi = proc[p].abi /\ proc'[p].status = proc[p].status
  BY <1>1, <1>2 DEF RemoveTmp, Record
<1>4. ~Succeeded(p)' /\ ~Passed(p) /\ ~Succeeded(p) /\ (Passed(p)' => proc'[p].pc = "link")
  BY <1>2, <1>3 DEF Passed, Succeeded, First
<1>5. /\ tmp \in Paths /\ files'[tmp] = Absent
      /\ \A f \in Paths : f # tmp => files'[f] = files[f]
  <2>1. tmp \in Paths
    BY <1>1, <1>names DEF NamesOK
  <2>. HIDE DEF tmp
  <2>2. QED  BY <1>1, <2>1 DEF RemoveTmp, tmp
<1>6. \A s \in ToSet(c.inputs) :
         /\ files'[TmpFile(c, s)] \in {files[TmpFile(c, s)], Absent}
         /\ files'[Object(c, s)] = files[Object(c, s)]
         /\ files'[Abi(s)] = files[Abi(s)]
  BY <1>1, <1>5, <1>names DEF NamesOK
<1>7. proc'[p].pc = "link" => proc'[p].i = Len(c.inputs) /\ i = Len(c.inputs)
  BY <1>1, <1>2, <1>3 DEF First
<1>8. Gone(p)'
  <2>1. ASSUME NEW k \in 1 .. Len(c.inputs), Passed(p)' \/ k < proc'[p].i
        PROVE  files'[TmpFile(c, c.inputs[k])] = Absent
    <3>1. k = i \/ k < i
      BY <1>1, <1>3, <1>4, <1>7, <2>1
    <3>2. CASE k = i
      BY <1>1, <1>5, <3>2
    <3>3. CASE k < i
      BY <1>1, <1>2, <1>6, <3>3 DEF Gone
    <3>4. QED  BY <3>1, <3>2, <3>3
  <2>2. proc'[p].pc # "check"
    BY <1>3 DEF First
  <2>3. QED  BY <1>2, <1>4, <2>1, <2>2 DEF Gone
<1>9. ASSUME Fresh(p) PROVE Made(p)'
  <2>1. InputsMade(p) /\ OutputMade(p) /\ AbiMade(p)
    BY <1>9 DEF BuildInv, Made
  <2>2. InputsMade(p)'
    <3>1. \A s \in ToSet(c.inputs) : files'[s] = files[s]
      BY <1>1, <1>5, <1>9, <1>names DEF NamesOK
    <3>2. \A s \in ToSet(c.inputs) : files'[TmpFile(c, s)] = files[TmpFile(c, s)]
      BY <1>6, <2>1 DEF InputsMade
    <3>3. proc'[p].pc # "compile"
      BY <1>3 DEF First
    <3>4. QED  BY <1>2, <1>6, <2>1, <3>1, <3>2, <3>3, InputsKept
  <2>3. OutputMade(p)'
    <3>1. files'[Output(c)] = files[Output(c)] /\ files[Output(c)] = Absent
      BY <1>1, <1>2, <1>5, <1>names, <2>1 DEF NamesOK, OutputMade
    <3>2. c.out = NoOut /\ c.tool = "cc" /\ Len(c.inputs) = 1 => files'[Extra(c)] = Absent
      BY <1>5, <1>names, <2>1 DEF NamesOK, OutputMade
    <3>3. QED  BY <1>2, <1>4, <3>1, <3>2 DEF OutputMade
  <2>4. AbiMade(p)'
    <3>1. c.tool = "cpp" /\ proc'[p].pc # "exit" => Done(p)' = Done(p)
      <4>1. i \in Nat /\ (i + 1) - 1 = i
        BY <1>1
      <4>2. c.tool = "cpp" /\ proc'[p].pc # "exit" =>
               \/ proc'[p].pc = "generate" /\ proc'[p].i = i + 1
               \/ proc'[p].pc = "link" /\ proc'[p].i = i
        BY <1>3 DEF First
      <4>3. QED  BY <1>2, <4>1, <4>2 DEF Done
    <3>2. \A k \in 1 .. Len(c.inputs) : files'[Abi(c.inputs[k])] = files[Abi(c.inputs[k])]
      BY <1>1, <1>6
    <3>3. CASE proc'[p].pc = "exit"
      BY <1>4, <3>3 DEF AbiMade, Going
    <3>4. CASE proc'[p].pc # "exit"
      BY <1>1, <1>2, <1>3, <1>4, <1>7, <2>1, <3>1, <3>2, <3>4, AbiKept DEF Going
    <3>5. QED  BY <3>3, <3>4
  <2>5. QED  BY <2>2, <2>3, <2>4 DEF Made
<1>10. QED  BY <1>8, <1>9

\* What wasm-ld makes of the objects: were two inputs to share one, or the one that
\* fractal-cpp and fractal-cc name without -o be linked too, it would not succeed.
LEMMA LinkFaithful ==
    ASSUME NEW p \in Procs, NamesOK(p), InputsMade(p), OutputMade(p), proc[p].pc = "link",
           \A k \in DOMAIN LinkInputs(cmd[p]) : files[LinkInputs(cmd[p])[k]].is = "object",
           IsInjective([k \in DOMAIN LinkInputs(cmd[p]) |-> files[LinkInputs(cmd[p])[k]].of[1]])
    PROVE  /\ cmd[p].out # NoOut
           /\ [k \in DOMAIN LinkInputs(cmd[p]) |-> files[LinkInputs(cmd[p])[k]].of[1]]
                 = Reverse(cmd[p].inputs)
<1>. DEFINE c == cmd[p]
            n == Len(c.inputs)
            objects == [k \in DOMAIN c.inputs |-> Object(c, c.inputs[k])]
            rev == Reverse(objects)
            ins == LinkInputs(c)
            texts == [k \in DOMAIN ins |-> files[ins[k]].of[1]]
<1>1. /\ c \in Commands /\ c.link /\ n \in Nat \ {0} /\ DOMAIN c.inputs = 1 .. n
      /\ \A k \in 1 .. n : c.inputs[k] \in ToSet(c.inputs) /\ c.inputs[k] \in Sources
      /\ c.inputs \in Seq(Sources)
  <2>1. c \in Commands /\ c.link
    BY DEF NamesOK
  <2>2. QED  BY <2>1, CommandTyped DEF ToSet
<1>2. /\ rev = [k \in 1 .. n |-> Object(c, c.inputs[n - k + 1])]
      /\ Reverse(c.inputs) = [k \in 1 .. n |-> c.inputs[n - k + 1]]
      /\ rev \in Seq(Objects(c) \cup {AOut})
  <2>1. Len(objects) = n
    BY <1>1
  <2>2. \A k \in 1 .. n : n - k + 1 \in 1 .. n
    BY <1>1
  <2>3. /\ rev = [k \in 1 .. n |-> Object(c, c.inputs[n - k + 1])]
        /\ Reverse(c.inputs) = [k \in 1 .. n |-> c.inputs[n - k + 1]]
    BY <1>1, <2>1, <2>2 DEF Reverse
  <2>4. \A k \in 1 .. n : Object(c, c.inputs[n - k + 1]) \in Objects(c)
    BY <1>1, <2>2 DEF Objects
  <2>5. \A k \in 1 .. n : rev[k] \in Objects(c) \cup {AOut}
    BY <2>3, <2>4
  <2>. DEFINE T == Objects(c) \cup {AOut}
  <2>. HIDE DEF T
  <2>6. rev \in Seq(T)
    <3>1. rev = [k \in 1 .. n |-> rev[k]] /\ n \in Nat
      BY <1>1, <2>3
    <3>2. \A k \in 1 .. n : rev[k] \in T
      BY <2>5 DEF T
    <3>. HIDE DEF rev, n
    <3>3. QED  BY <3>1, <3>2
  <2>7. QED  BY <2>3, <2>6 DEF T
<1>3. Absent.is # "object"
  BY DEF Absent
<1>4. files[Output(c)] = Absent
  BY DEF OutputMade
<1>5. CASE c.out # NoOut
  <2>1. ins = rev
    <3>. DEFINE T == Objects(c) \cup {AOut}
    <3>1. rev \in Seq(T)
      BY <1>2
    <3>. HIDE DEF rev, T
    <3>2. rev \o <<>> = rev
      BY <3>1
    <3>3. QED  BY <1>5, <3>2 DEF LinkInputs, rev
  <2>2. /\ DOMAIN ins = 1 .. n
        /\ \A k \in 1 .. n : ins[k] = Object(c, c.inputs[n - k + 1])
    BY <1>2, <2>1
  <2>. HIDE DEF rev, objects, ins
  <2>3. \A k, l \in 1 .. n : texts[k] = texts[l] => k = l
    BY <2>2 DEF IsInjective, ins
  <2>4. ASSUME NEW k \in 1 .. n PROVE texts[k] = c.inputs[n - k + 1]
    <3>. DEFINE s == c.inputs[n - k + 1]
    <3>1. n - k + 1 \in 1 .. n
      BY <1>1
    <3>2. s \in ToSet(c.inputs) /\ ins[k] = Object(c, s) /\ files[ins[k]].is = "object"
      BY <1>1, <2>2, <3>1 DEF ins
    <3>3. files[ins[k]] \in Compiled(c, s)
      BY <1>3, <3>2 DEF InputsMade
    <3>4. PICK y \in ToSet(c.inputs) : Object(c, y) = Object(c, s) /\ files[ins[k]] = Content("object", <<y>>)
      BY <3>3 DEF Compiled
    <3>5. PICK m \in 1 .. n : y = c.inputs[m]
      BY <1>1 DEF ToSet
    <3>6. n - m + 1 \in 1 .. n /\ n - (n - m + 1) + 1 = m
      BY <1>1
    <3>7. ins[n - m + 1] = ins[k]
      BY <2>2, <3>2, <3>4, <3>5, <3>6
    <3>8. texts[n - m + 1] = texts[k]
      BY <2>2, <3>6, <3>7
    <3>9. n - m + 1 = k
      BY <2>3, <3>6, <3>8
    <3>10. y = s
      BY <1>1, <3>5, <3>9
    <3>11. texts[k] = files[ins[k]].of[1]
      BY <2>2
    <3>12. files[ins[k]].of = <<y>>
      BY <3>4 DEF Content
    <3>13. QED  BY <3>10, <3>11, <3>12
  <2>5. texts = [k \in 1 .. n |-> c.inputs[n - k + 1]]
    BY <2>2, <2>4
  <2>6. QED  BY <1>2, <1>5, <2>5 DEF ins
<1>6. CASE c.out = NoOut /\ n = 1
  <2>1. /\ DOMAIN ins = 1 .. 2 /\ ins[1] = Object(c, c.inputs[1]) /\ ins[2] = Extra(c)
    BY <1>1, <1>6, ExtraNames
  <2>2. CASE c.tool = "cc"
    <3>1. files[Extra(c)] = Absent
      BY <1>6, <2>2 DEF OutputMade
    <3>2. files[ins[2]].is = "object"
      BY <2>1
    <3>3. QED  BY <1>3, <2>1, <3>1, <3>2
  <2>3. CASE c.tool = "cpp"
    <3>1. Object(c, c.inputs[1]) = Extra(c)
      <4>1. Object(c, c.inputs[1]) = Append(<<TempDir, c.inputs[1][2]>>, "o")
        BY <1>1, <2>3 DEF Object, TmpFile
      <4>2. QED  BY <4>1, ThreeParts DEF Extra
    <3>2. ins[1] = ins[2]
      BY <2>1, <3>1
    <3>3. texts[1] = texts[2]
      BY <2>1, <3>2
    <3>4. 1 \in DOMAIN texts /\ 2 \in DOMAIN texts
      BY <2>1
    <3>5. QED  BY <3>3, <3>4 DEF IsInjective
  <2>4. c.tool \in {"cpp", "cc"}
    BY <1>1, CommandTyped
  <2>5. QED  BY <2>2, <2>3, <2>4
<1>7. CASE c.out = NoOut /\ n # 1
  <2>1. ins = rev \o <<AOut>> /\ Output(c) = AOut
    BY <1>7 DEF LinkInputs, Output
  <2>. DEFINE T == Objects(c) \cup {AOut}
  <2>2. rev \in Seq(T) /\ AOut \in T
    BY <1>2
  <2>. HIDE DEF rev, ins, T
  <2>3. ins[Len(rev) + 1] = AOut /\ DOMAIN ins = 1 .. Len(rev) + 1
    BY <2>1, <2>2, OneMore
  <2>4. Len(rev) + 1 \in DOMAIN ins
    BY <2>2, <2>3
  <2>5. files[ins[Len(rev) + 1]].is = "object"
    BY <2>4 DEF ins
  <2>6. QED  BY <1>3, <1>4, <2>1, <2>3, <2>5
<1>8. QED  BY <1>5, <1>6, <1>7

\* The output of wasm-ld, if there is one, is of all texts; nothing else changes.
LEMMA LinkBuilds ==
    ASSUME BuildInv, NEW p \in Procs, Link(p), Alone(p)
    PROVE  Gone(p)' /\ (Fresh(p) => Made(p)')
<1>. DEFINE c == cmd[p]
<1>1. /\ c \in Commands /\ In(p) \in ToSet(c.inputs) /\ proc \in [Procs -> Record]
      /\ files = [f \in Paths |-> files[f]]
      /\ \A k \in 1 .. Len(c.inputs) : c.inputs[k] \in ToSet(c.inputs)
  BY Own DEF BuildInv
<1>names. NamesOK(p)
  BY AloneNames
<1>2. proc[p].pc = "link" /\ cmd' = cmd /\ Gone(p) /\ proc[p].status \in {"none", "failed"}
  BY Facts DEF Link, BuildInv
<1>3. /\ proc'[p].pc \in {"postpass", "clean"} /\ proc'[p].i = proc[p].i
      /\ proc'[p].abi = proc[p].abi
  BY <1>1 DEF Link, Goto, Fail, Record
<1>4. In(p)' = In(p) /\ Passed(p)' /\ ~Succeeded(p)' /\ Passed(p) /\ ~Succeeded(p)
  BY <1>2, <1>3 DEF Passed, Succeeded, In
<1>. DEFINE ins == LinkInputs(c)
            texts == [k \in DOMAIN ins |-> files[ins[k]].of[1]]
<1>5. /\ \A f \in Paths : f # Output(c) => files'[f] = files[f]
      /\ \/ files'[Output(c)] = files[Output(c)]
         \/ /\ \A k \in DOMAIN ins : files[ins[k]].is = "object"
            /\ IsInjective(texts)
            /\ files'[Output(c)] = Content("module", texts)
  BY <1>1, <1>names DEF NamesOK, Link
<1>6. \A s \in ToSet(c.inputs) :
         /\ files'[TmpFile(c, s)] = files[TmpFile(c, s)]
         /\ files'[Object(c, s)] = files[Object(c, s)]
         /\ files'[Abi(s)] = files[Abi(s)]
  BY <1>1, <1>5, <1>names DEF NamesOK
<1>7. Gone(p)'
  BY <1>1, <1>2, <1>3, <1>4, <1>6 DEF Gone
<1>8. ASSUME Fresh(p) PROVE Made(p)'
  <2>1. InputsMade(p) /\ OutputMade(p) /\ AbiMade(p)
    BY <1>8 DEF BuildInv, Made
  <2>2. InputsMade(p)'
    <3>1. \A s \in ToSet(c.inputs) : files'[s] = files[s]
      BY <1>1, <1>5, <1>8, <1>names DEF NamesOK
    <3>2. QED  BY <1>2, <1>3, <1>6, <2>1, <3>1, InputsKept
  <2>3. OutputMade(p)'
    <3>1. files[Output(c)] = Absent
      BY <1>2, <2>1 DEF OutputMade
    <3>2. c.out = NoOut /\ c.tool = "cc" /\ Len(c.inputs) = 1 => files'[Extra(c)] = Absent
      BY <1>1, <1>5, <1>names, <2>1 DEF NamesOK, OutputMade
    <3>3. \/ files'[Output(c)] = Absent
          \/ /\ c.out # NoOut
             /\ files'[Output(c)] = Content("module", Reverse(c.inputs))
             /\ IsInjective(Reverse(c.inputs))
      <4>1. CASE files'[Output(c)] = files[Output(c)]
        BY <3>1, <4>1
      <4>2. CASE /\ \A k \in DOMAIN ins : files[ins[k]].is = "object"
                 /\ IsInjective(texts)
                 /\ files'[Output(c)] = Content("module", texts)
        <5>1. c.out # NoOut /\ texts = Reverse(c.inputs)
          BY <1>2, <1>names, <2>1, <4>2, LinkFaithful
        <5>2. QED  BY <4>2, <5>1
      <4>3. QED  BY <1>5, <4>1, <4>2
    <3>4. /\ Content("module", Reverse(c.inputs)).is = "module"
          /\ Content("module", Reverse(c.inputs)).of = Reverse(c.inputs)
      BY DEF Content
    <3>5. QED  BY <1>2, <1>3, <1>4, <3>2, <3>3, <3>4 DEF OutputMade
  <2>4. AbiMade(p)'
    BY <1>1, <1>2, <1>3, <1>4, <1>6, <2>1, AbiKept DEF AbiMade, Done, Going
  <2>5. QED  BY <2>2, <2>3, <2>4 DEF Made
<1>9. QED  BY <1>7, <1>8

\* fractal-pp keeps the texts.
LEMMA PostPassBuilds ==
    ASSUME BuildInv, NEW p \in Procs, PostPass(p), Alone(p)
    PROVE  Gone(p)' /\ (Fresh(p) => Made(p)')
<1>. DEFINE c == cmd[p]
<1>1. /\ c \in Commands /\ In(p) \in ToSet(c.inputs) /\ proc \in [Procs -> Record]
      /\ files = [f \in Paths |-> files[f]]
      /\ \A k \in 1 .. Len(c.inputs) : c.inputs[k] \in ToSet(c.inputs)
  BY Own DEF BuildInv
<1>names. NamesOK(p)
  BY AloneNames
<1>2. proc[p].pc = "postpass" /\ cmd' = cmd /\ Gone(p)
  BY DEF PostPass, BuildInv
<1>3. proc'[p].pc = "clean" /\ proc'[p].i = proc[p].i /\ proc'[p].abi = proc[p].abi
  BY <1>1 DEF PostPass, Goto, Record
<1>4. In(p)' = In(p) /\ Passed(p)' /\ ~Succeeded(p)' /\ Passed(p) /\ ~Succeeded(p)
  BY <1>2, <1>3 DEF Passed, Succeeded, In
<1>5. /\ \A f \in Paths : f # Output(c) => files'[f] = files[f]
      /\ \/ files'[Output(c)] = files[Output(c)]
         \/ /\ files[Output(c)].is = "module"
            /\ files'[Output(c)] = Content("contract", files[Output(c)].of)
  <2>1. files[Output(c)] = Content(files[Output(c)].is, files[Output(c)].of)
    BY <1>names DEF BuildInv, IInv, FilesOK, NamesOK
  <2>2. Output(c) \in Paths
    BY <1>names DEF NamesOK
  <2>. DEFINE out == Output(c)
              new == [files[out] EXCEPT !.is = "contract"]
  <2>3. new = Content("contract", files[out].of)
    BY <2>1 DEF Content
  <2>4. \/ files[out].is = "module" /\ files' = [files EXCEPT ![out] = new]
        \/ files' = files
    BY DEF PostPass
  <2>. HIDE DEF out, new
  <2>5. /\ \A f \in Paths : f # out => files'[f] = files[f]
        /\ \/ files'[out] = files[out]
           \/ files[out].is = "module" /\ files'[out] = new
    BY <1>1, <2>2, <2>4 DEF out
  <2>6. QED  BY <2>3, <2>5 DEF out
<1>6. \A s \in ToSet(c.inputs) :
         /\ files'[TmpFile(c, s)] = files[TmpFile(c, s)]
         /\ files'[Object(c, s)] = files[Object(c, s)]
         /\ files'[Abi(s)] = files[Abi(s)]
  BY <1>1, <1>5, <1>names DEF NamesOK
<1>7. Gone(p)'
  BY <1>1, <1>2, <1>3, <1>4, <1>6 DEF Gone
<1>8. ASSUME Fresh(p) PROVE Made(p)'
  <2>1. InputsMade(p) /\ OutputMade(p) /\ AbiMade(p)
    BY <1>8 DEF BuildInv, Made
  <2>2. InputsMade(p)'
    <3>1. \A s \in ToSet(c.inputs) : files'[s] = files[s]
      BY <1>1, <1>5, <1>8, <1>names DEF NamesOK
    <3>2. QED  BY <1>2, <1>3, <1>6, <2>1, <3>1, InputsKept
  <2>3. OutputMade(p)'
    <3>1. c.out = NoOut /\ c.tool = "cc" /\ Len(c.inputs) = 1 => files'[Extra(c)] = Absent
      BY <1>1, <1>5, <1>names, <2>1 DEF NamesOK, OutputMade
    <3>2. \/ files[Output(c)] = Absent
          \/ /\ c.out # NoOut
             /\ files[Output(c)].is \in {"module", "contract"}
             /\ files[Output(c)].of = Reverse(c.inputs)
             /\ IsInjective(Reverse(c.inputs))
      BY <2>1 DEF OutputMade
    <3>3. \/ files'[Output(c)] = Absent
          \/ /\ c.out # NoOut
             /\ files'[Output(c)].is \in {"module", "contract"}
             /\ files'[Output(c)].of = Reverse(c.inputs)
             /\ IsInjective(Reverse(c.inputs))
      <4>1. Absent.is # "module"
        BY DEF Absent
      <4>2. /\ Content("contract", files[Output(c)].of).is = "contract"
            /\ Content("contract", files[Output(c)].of).of = files[Output(c)].of
        BY DEF Content
      <4>3. QED  BY <1>5, <3>2, <4>1, <4>2
    <3>4. QED  BY <1>2, <1>3, <1>4, <3>1, <3>3 DEF OutputMade
  <2>4. AbiMade(p)'
    BY <1>1, <1>2, <1>3, <1>4, <1>6, <2>1, AbiKept DEF AbiMade, Done, Going
  <2>5. QED  BY <2>2, <2>3, <2>4 DEF Made
<1>9. QED  BY <1>7, <1>8

\* The objects of all inputs go, and the output stays.
LEMMA CleanBuilds ==
    ASSUME BuildInv, NEW p \in Procs, Clean(p), Alone(p)
    PROVE  Gone(p)' /\ (Fresh(p) => Made(p)')
<1>. DEFINE c == cmd[p]
<1>1. /\ c \in Commands /\ In(p) \in ToSet(c.inputs) /\ proc \in [Procs -> Record]
      /\ files = [f \in Paths |-> files[f]]
      /\ \A k \in 1 .. Len(c.inputs) : c.inputs[k] \in ToSet(c.inputs)
  BY Own DEF BuildInv
<1>names. NamesOK(p)
  BY AloneNames
<1>2. proc[p].pc = "clean" /\ cmd' = cmd /\ Gone(p) /\ proc[p].status \in {"none", "failed"}
  BY Facts DEF Clean, BuildInv
<1>3. /\ proc'[p].pc \in {"check", "exit"} /\ proc'[p].i = proc[p].i
      /\ proc'[p].abi = proc[p].abi /\ proc'[p].status = proc[p].status
  BY <1>1 DEF Clean, Goto, Record
<1>4. In(p)' = In(p) /\ ~Succeeded(p)' /\ Passed(p) /\ ~Succeeded(p)
  BY <1>2, <1>3 DEF Passed, Succeeded, In
<1>5. \A f \in Paths : files'[f] = IF f \in Objects(c) THEN Absent ELSE files[f]
  BY DEF Clean
<1>6. /\ \A s \in ToSet(c.inputs) : Object(c, s) \in Objects(c)
      /\ \A f \in Objects(c) : \E s \in ToSet(c.inputs) : f = Object(c, s)
  BY DEF Objects, ToSet
<1>7. \A s \in ToSet(c.inputs) :
         /\ files'[TmpFile(c, s)] = files[TmpFile(c, s)]
         /\ files'[Object(c, s)] = Absent
         /\ files'[Abi(s)] = files[Abi(s)]
  BY <1>5, <1>6, <1>names DEF NamesOK
<1>8. Gone(p)'
  BY <1>1, <1>2, <1>3, <1>4, <1>7 DEF Gone
<1>9. ASSUME Fresh(p) PROVE Made(p)'
  <2>1. InputsMade(p) /\ OutputMade(p) /\ AbiMade(p)
    BY <1>9 DEF BuildInv, Made
  <2>2. InputsMade(p)'
    <3>1. \A s \in ToSet(c.inputs) : files'[s] = files[s]
      BY <1>5, <1>6, <1>9, <1>names DEF NamesOK
    <3>2. QED  BY <1>2, <1>3, <1>7, <2>1, <3>1 DEF InputsMade
  <2>3. OutputMade(p)'
    <3>1. files'[Output(c)] = files[Output(c)]
      BY <1>5, <1>6, <1>names DEF NamesOK
    <3>2. c.out = NoOut /\ c.tool = "cc" /\ Len(c.inputs) = 1 => files'[Extra(c)] = Absent
      BY <1>5, <1>names, <2>1 DEF NamesOK, OutputMade
    <3>3. QED  BY <1>2, <1>3, <1>4, <2>1, <3>1, <3>2 DEF OutputMade
  <2>4. AbiMade(p)'
    BY <1>1, <1>2, <1>3, <1>4, <1>7, <2>1, AbiKept DEF AbiMade, Done, Going
  <2>5. QED  BY <2>2, <2>3, <2>4 DEF Made
<1>10. QED  BY <1>8, <1>9

\* The driver reports success when there is an output.
LEMMA CheckBuilds ==
    ASSUME BuildInv, NEW p \in Procs, Check(p), Alone(p)
    PROVE  Gone(p)' /\ (Fresh(p) => Made(p)')
<1>. DEFINE c == cmd[p]
<1>1. /\ c \in Commands /\ In(p) \in ToSet(c.inputs) /\ proc \in [Procs -> Record]
      /\ files = [f \in Paths |-> files[f]]
      /\ \A k \in 1 .. Len(c.inputs) : c.inputs[k] \in ToSet(c.inputs)
  BY Own DEF BuildInv
<1>names. NamesOK(p)
  BY AloneNames
<1>2. proc[p].pc = "check" /\ cmd' = cmd /\ files' = files /\ Gone(p)
  BY DEF Check, BuildInv
<1>3. /\ proc'[p].pc = "exit" /\ proc'[p].i = proc[p].i /\ proc'[p].abi = proc[p].abi
      /\ proc'[p].status = IF Exists(Output(c)) THEN "ok" ELSE "failed"
  BY <1>1 DEF Check, Record
<1>4. In(p)' = In(p) /\ Passed(p) /\ ~Succeeded(p)
  BY <1>2, <1>3 DEF Passed, Succeeded, In
<1>5. Gone(p)'
  BY <1>2, <1>4 DEF Gone
<1>6. ASSUME Fresh(p) PROVE Made(p)'
  <2>1. InputsMade(p) /\ OutputMade(p) /\ AbiMade(p)
    BY <1>6 DEF BuildInv, Made
  <2>2. InputsMade(p)'
    BY <1>2, <1>3, <2>1 DEF InputsMade, Compiled
  <2>3. OutputMade(p)'
    <3>1. Succeeded(p)' => files[Output(c)] # Absent
      BY <1>3 DEF Succeeded, Exists
    <3>2. QED  BY <1>2, <1>3, <2>1, <3>1 DEF OutputMade
  <2>4. AbiMade(p)'
    BY <1>2, <1>3, <1>4, <2>1, AbiKept DEF AbiMade, Done, Going
  <2>5. QED  BY <2>2, <2>3, <2>4 DEF Made
<1>7. QED  BY <1>5, <1>6

-----------------------------------------------------------------------------
(* What a driver that reports success has built *)

LEMMA NextHistory ==
    ASSUME IInv, HistoryOK, [Next]_vars
    PROVE  HistoryOK'
<1>1. CASE UNCHANGED vars
  BY <1>1 DEF HistoryOK, vars
<1>2. ASSUME NEW p \in Procs, Step(p) PROVE HistoryOK'
  <2>1. cmd' = cmd /\ start' = start /\ \A q \in Procs : q # p => proc'[q] = proc[q]
    BY <1>2, StepTouches
  <2>2. proc'[p].pc = "generate" => cmd[p].tool = "cpp"
    <3>1. proc \in [Procs -> Record]
      BY Own
    <3>2. CASE RemoveTmp(p)
      <4>1. proc'[p].pc \in {"exit", First(cmd[p]), "link"}
        BY <3>1, <3>2 DEF RemoveTmp, Record
      <4>2. QED  BY <4>1 DEF First
    <3>3. CASE ~RemoveTmp(p)
      <4>1. proc'[p].pc # "generate"
        BY ZenonT(40), <1>2, <3>1, <3>3 DEF Step, Generate, Choose, Compile, Link, PostPass, Clean, Check,
                                Goto, Fail, Record
      <4>2. QED  BY <4>1
    <3>4. QED  BY <3>2, <3>3
  <2>3. QED  BY <2>1, <2>2 DEF HistoryOK
<1>3. QED  BY <1>1, <1>2 DEF Next

\* One step for each action of a driver, and one for the steps of the others.
LEMMA NextBuild ==
    ASSUME BuildInv, [Next]_vars
    PROVE  BuildInv'
<1>1. IInv /\ HistoryOK
  BY DEF BuildInv
<1>2. cmd' = cmd /\ start' = start
  <2>1. CASE UNCHANGED vars
    BY <2>1 DEF vars
  <2>2. CASE Next
    BY <1>1, <2>2, StepTouches DEF Next
  <2>3. QED  BY <2>1, <2>2
<1>3. IInv'
  <2>1. CASE UNCHANGED vars
    BY <1>1, <2>1 DEF vars, IInv, FilesOK, ProcOK
  <2>2. CASE Next
    BY <1>1, <2>2, StepKeeps DEF Next
  <2>3. QED  BY <2>1, <2>2
<1>4. HistoryOK'
  BY <1>1, NextHistory
<1>5. ASSUME NEW p \in Procs, Alone(p)
      PROVE  Gone(p)' /\ (Fresh(p) => Made(p)')
  <2>1. CASE UNCHANGED vars
    <3>1. Gone(p) /\ (Fresh(p) => Made(p))
      BY <1>5 DEF BuildInv
    <3>2. QED  BY <1>1, <2>1, <3>1, BuildKept DEF vars
  <2>2. ASSUME NEW q \in Procs, Step(q), p # q
        PROVE  Gone(p)' /\ (Fresh(p) => Made(p)')
    BY <1>5, <2>2, OtherKeeps
  <2>3. CASE Step(p)
    <3>1. CASE Generate(p)
      BY <1>5, <3>1, GenerateBuilds
    <3>2. CASE Choose(p)
      BY <1>5, <3>2, ChooseBuilds
    <3>3. CASE Compile(p)
      BY <1>5, <3>3, CompileBuilds
    <3>4. CASE RemoveTmp(p)
      BY <1>5, <3>4, RemoveTmpBuilds
    <3>5. CASE Link(p)
      BY <1>5, <3>5, LinkBuilds
    <3>6. CASE PostPass(p)
      BY <1>5, <3>6, PostPassBuilds
    <3>7. CASE Clean(p)
      BY <1>5, <3>7, CleanBuilds
    <3>8. CASE Check(p)
      BY <1>5, <3>8, CheckBuilds
    <3>9. QED  BY <2>3, <3>1, <3>2, <3>3, <3>4, <3>5, <3>6, <3>7, <3>8 DEF Step
  <2>4. QED  BY <2>1, <2>2, <2>3 DEF Next
<1>6. ASSUME NEW p \in Procs, Alone(p)'
      PROVE  Gone(p)' /\ (Fresh(p)' => Made(p)')
  <2>1. Alone(p) /\ (Fresh(p)' <=> Fresh(p))
    BY <1>2, <1>6, AskedKept
  <2>2. QED  BY <1>5, <2>1
<1>7. QED  BY <1>3, <1>4, <1>6 DEF BuildInv

\* When a driver has ended with success, its objects and temporary files are gone.
LEMMA GoneAtEnd == BuildInv => TempsGone
<1>. SUFFICES ASSUME BuildInv, NEW p \in Procs, Succeeded(p), Alone(p),
                     NEW s \in ToSet(cmd[p].inputs)
              PROVE  files[Object(cmd[p], s)] = Absent /\ files[TmpFile(cmd[p], s)] = Absent
  BY DEF TempsGone, Alone, Exists
<1>1. PICK k \in 1 .. Len(cmd[p].inputs) : s = cmd[p].inputs[k]
  BY Own DEF BuildInv
<1>2. QED  BY <1>1 DEF BuildInv, Gone, Passed

\* What is injective backwards is injective.
LEMMA ReverseInjective ==
    ASSUME NEW T, NEW s \in Seq(T), IsInjective(Reverse(s))
    PROVE  IsInjective(s)
<1>. DEFINE n == Len(s)
<1>1. n \in Nat /\ DOMAIN s = 1 .. n /\ Reverse(s) = [k \in 1 .. n |-> s[n - k + 1]]
  BY DEF Reverse
<1>. HIDE DEF n
<1>2. ASSUME NEW k \in 1 .. n, NEW l \in 1 .. n, s[k] = s[l] PROVE k = l
  <2>1. n - k + 1 \in 1 .. n /\ n - l + 1 \in 1 .. n
    BY <1>1
  <2>2. n - (n - k + 1) + 1 = k /\ n - (n - l + 1) + 1 = l
    BY <1>1
  <2>3. Reverse(s)[n - k + 1] = s[k] /\ Reverse(s)[n - l + 1] = s[l]
    BY <1>1, <2>1, <2>2
  <2>4. DOMAIN Reverse(s) = 1 .. n
    BY <1>1
  <2>5. n - k + 1 = n - l + 1
    BY <1>2, <2>1, <2>3, <2>4 DEF IsInjective
  <2>6. QED  BY <1>1, <2>5
<1>3. QED  BY <1>1, <1>2 DEF IsInjective

\* When a driver has ended with success, the output is of all inputs, and the ABI
\* too if it is there and complete.
LEMMA MadeAtEnd == BuildInv => FaithfulBuild
<1>. SUFFICES ASSUME BuildInv, NEW p \in Procs, Succeeded(p), Alone(p), Fresh(p)
              PROVE  /\ cmd[p].out # NoOut
                     /\ files[Output(cmd[p])].is \in {"module", "contract"}
                     /\ files[Output(cmd[p])].of = Reverse(cmd[p].inputs)
                     /\ cmd[p].tool = "cpp" =>
                           files[Abi(Last(cmd[p].inputs))]
                              \in {Absent, Torn, Content("abi", cmd[p].inputs)}
  BY DEF FaithfulBuild, Alone
<1>. DEFINE c == cmd[p]
            n == Len(c.inputs)
<1>1. OutputMade(p) /\ AbiMade(p)
  BY DEF BuildInv, Made
<1>2. c \in Commands /\ In(p) = c.inputs[proc[p].i]
  BY Own DEF BuildInv
<1>3. /\ cmd[p].out # NoOut
      /\ files[Output(cmd[p])].is \in {"module", "contract"}
      /\ files[Output(cmd[p])].of = Reverse(cmd[p].inputs)
  BY <1>1 DEF OutputMade
<1>4. ASSUME c.tool = "cpp"
      PROVE  files[Abi(Last(c.inputs))] \in {Absent, Torn, Content("abi", c.inputs)}
  <2>1. /\ c.inputs \in Seq(Sources) /\ n \in Nat \ {0} /\ DOMAIN c.inputs = 1 .. n
    BY <1>2, CommandTyped
  <2>2. IsInjective(c.inputs)
    <3>1. IsInjective(Reverse(c.inputs))
      BY <1>1 DEF OutputMade
    <3>2. QED  BY <2>1, <3>1, ReverseInjective
  <2>3. files[Abi(c.inputs[n])] \in {Absent, Torn, Content("abi", Prefix(c, n))}
    <3>1. n \in 1 .. Len(c.inputs)
      BY <2>1
    <3>2. QED  BY <1>1, <1>4, <2>2, <3>1 DEF AbiMade, Going
  <2>4. Prefix(c, n) = c.inputs
    BY <2>1 DEF Prefix
  <2>5. Last(c.inputs) = c.inputs[n]
    BY DEF Last
  <2>6. QED  BY <2>3, <2>4, <2>5
<1>5. QED  BY <1>3, <1>4

LEMMA BuildAlways == Spec => []BuildInv
<1>1. BuildInv /\ [Next]_vars => BuildInv'
  BY NextBuild
<1>2. QED  BY <1>1, InitBuild, PTL DEF Spec

\* Whatever runs beside it, a driver that has linked and reports success leaves no
\* temporary file and no object of its inputs, if its output is neither and the
\* others keep off its files.
THEOREM TempsGoneAlways == Spec => []TempsGone
BY BuildAlways, GoneAtEnd, PTL

\* If besides its files were not there before, the output is made of the texts of
\* all inputs, each once, and a complete ABI beside the last input is of the same
\* texts; abi_stream may have left none, or a part (fractal-cpp.cpp.in:138-143).
THEOREM FaithfulBuildAlways == Spec => []FaithfulBuild
BY BuildAlways, MadeAtEnd, PTL
===============================================================================
