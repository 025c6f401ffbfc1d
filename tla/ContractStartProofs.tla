-------------------------- MODULE ContractStartProofs --------------------------
(***************************************************************************)
(* For every program, command line and layout that meets the assumptions:  *)
(* archive members are linked once, no constructor that allocates runs     *)
(* before the allocator's, and the heap starts above the static data.      *)
(*                                                                         *)
(* The heart of it is a property of depth-first fetching: when a file is   *)
(* finished, all it depends on is finished but for what is being parsed,   *)
(* and it depends on something that is being parsed only in a circle.      *)
(***************************************************************************)
EXTENDS ContractStart, FiniteSetTheorems, TLAPS

DsmP == INSTANCE DsMallocProofs

Record == [file : Files, refs : SUBSET Members]

Done == ToSet(objectFiles)
Open == {parsing[i].file : i \in DOMAIN parsing}

\* What Init says of a program.
ProgramOK ==
    /\ needs \in [Files -> SUBSET Members]
    /\ constructed \subseteq Files /\ Allocator \in constructed
    /\ Closure(Allocator) \cap constructed \subseteq {Allocator}
    /\ \A f \in constructed \ {Allocator} : f \notin Closure(f)
    /\ early \subseteq constructed \ {Allocator}
    /\ \A f \in early : ~Allocates(f)

\* Every file is waiting, open or done; the members are those that were seen.
FilesOK ==
    /\ queue \in Seq(Files) /\ IsInjective(queue)
    /\ parsing \in Seq(Record)
    /\ objectFiles \in Seq(Files) /\ IsInjective(objectFiles)
    /\ \A i, j \in DOMAIN parsing : parsing[i].file = parsing[j].file => i = j
    /\ Done \cap Open = {}
    /\ ToSet(queue) \cap (Done \cup Open) = {}
    /\ seen = (Done \cup Open) \cap Members

\* What a file needs was seen, is still to be fetched by it, or waits.
NeedsMet ==
    /\ \A i \in DOMAIN parsing :
          /\ parsing[i].refs \subseteq needs[parsing[i].file]
          /\ needs[parsing[i].file] \subseteq seen \cup ToSet(queue) \cup parsing[i].refs
    /\ \A f \in Done : needs[f] \subseteq seen \cup ToSet(queue)

\* The archives fractal-ld names come before everything else.
DefaultsFirst == ToSet(queue) \cap Defaults = {}

\* An open file depends on those that were opened after it.
Nested ==
    \A i, j \in DOMAIN parsing : i < j => parsing[j].file \in Closure(parsing[i].file)

\* Of the files with constructors, those that reach malloc in time are done after the
\* allocator.
AllocatorDoneFirst ==
    \A i \in DOMAIN objectFiles :
        objectFiles[i] \in constructed \ {Allocator} /\ AllocatesInTime(objectFiles[i]) =>
            \E j \in DOMAIN objectFiles : j < i /\ objectFiles[j] = Allocator

LinkInv ==
    ProgramOK /\ FilesOK /\ NeedsMet /\ DefaultsFirst /\ Nested /\ AllocatorDoneFirst

\* What wasm-ld has finished with, and what only a running contract changes.
StageOK ==
    /\ stage \in {"link", "postpass", "linked", "ctors", "body", "done"}
    /\ stage # "link" => parsing = <<>> /\ queue = <<>> /\ heapBase \in HeapBases
    /\ stage \notin {"ctors", "body", "done"} =>
           blocks = {} /\ freed = {} /\ status = "running"

\* The calls left are to constructors of linked files, none of them twice.
CtorsOK ==
    stage = "ctors" =>
        /\ initFunctions \in Seq(constructed \cap Done)
        /\ IsInjective(initFunctions)
        /\ AllocatorFirst

StartInv == LinkInv /\ StageOK /\ CtorsOK

\* The allocator is not constructed: it is still to be, or it is not linked in.
Waiting ==
    /\ blocks = {} /\ freed = {} /\ status = "running"
    /\ memory = Dsm!LinkedPages(heapBase)
    /\ Allocator \in seen => stage = "ctors" /\ Allocator \in ToSet(initFunctions)

\* The allocator is constructed: what DsMallocProofs shows of it holds.
Started ==
    /\ DsmP!IInv
    /\ heap = Dsm!AlignUp(heapBase)
    /\ freed = {}
    /\ blocks = {} /\ status = "running" =>
           last_ptr = heap /\ memory = Dsm!LinkedPages(heapBase)
    /\ stage = "ctors" => Allocator \notin ToSet(initFunctions)

\* Every constructor that may allocate reaches malloc through the default archives.
InTime == \A f \in constructed \cap Done : Allocates(f) => AllocatesInTime(f)

\* Nothing was allocated before the allocator was constructed.
Sound == InTime \/ (blocks = {} /\ status = "running")

HeapOK ==
    /\ stage \in {"linked", "ctors", "body", "done"} => cell0 = Dsm!AlignUp(heapBase)
    /\ stage \in {"ctors", "body", "done"} /\ Sound => Waiting \/ Started

-----------------------------------------------------------------------------
(* Dependencies *)

\* The files of M that a file depends on hold what it needs of M and what they need of
\* M themselves, and no smaller set does.
LEMMA ClosureIsLeast ==
    ASSUME NEW M, NEW f
    PROVE  /\ ClosureIn(M, f) \subseteq M
           /\ needs[f] \cap M \subseteq ClosureIn(M, f)
           /\ \A x \in ClosureIn(M, f) : needs[x] \cap M \subseteq ClosureIn(M, f)
           /\ \A S \in SUBSET M :
                 needs[f] \cap M \subseteq S /\ (\A x \in S : needs[x] \cap M \subseteq S)
                 => ClosureIn(M, f) \subseteq S
BY DEF ClosureIn

\* The same of all members.
LEMMA ClosureOfAll ==
    ASSUME ProgramOK, NEW f \in Files
    PROVE  /\ Closure(f) \subseteq Members
           /\ needs[f] \subseteq Closure(f)
           /\ \A x \in Closure(f) : needs[x] \subseteq Closure(f)
           /\ \A S \in SUBSET Members :
                 needs[f] \subseteq S /\ (\A x \in S : needs[x] \subseteq S)
                 => Closure(f) \subseteq S
<1>1. \A x \in Files : needs[x] \cap Members = needs[x]
  BY DEF ProgramOK
<1>2. Members \subseteq Files
  BY DEF Files
<1>3. Closure(f) \subseteq Members
  BY ClosureIsLeast DEF Closure
<1>4. needs[f] \subseteq Closure(f)
  BY <1>1, ClosureIsLeast DEF Closure
<1>5. ASSUME NEW x \in Closure(f)
      PROVE  needs[x] \subseteq Closure(f)
  <2>1. needs[x] \cap Members \subseteq Closure(f)
    BY ClosureIsLeast DEF Closure
  <2>2. QED  BY <1>1, <1>2, <1>3, <2>1
<1>6. ASSUME NEW S \in SUBSET Members, needs[f] \subseteq S, \A x \in S : needs[x] \subseteq S
      PROVE  Closure(f) \subseteq S
  <2>1. needs[f] \cap Members \subseteq S /\ \A x \in S : needs[x] \cap Members \subseteq S
    BY <1>6
  <2>2. QED  BY <2>1, ClosureIsLeast DEF Closure
<1>7. QED  BY <1>3, <1>4, <1>5, <1>6

\* What a file depends on depends on nothing else.
LEMMA ClosureTransitive ==
    ASSUME ProgramOK, NEW f \in Files, NEW g \in Closure(f)
    PROVE  Closure(g) \subseteq Closure(f)
<1>1. Closure(f) \in SUBSET Members
  BY ClosureOfAll
<1>2. g \in Files
  BY <1>1 DEF Files
<1>3. \A x \in Closure(f) : needs[x] \subseteq Closure(f)
  BY ClosureOfAll
<1>4. QED  BY <1>1, <1>2, <1>3, ClosureOfAll

\* What is reached through fewer archives is reached through all.
LEMMA ClosureGrows ==
    ASSUME ProgramOK, NEW f \in Files, NEW M \in SUBSET Members
    PROVE  ClosureIn(M, f) \subseteq Closure(f)
<1>. DEFINE S == Closure(f) \cap M
<1>1. /\ needs[f] \subseteq Closure(f)
      /\ \A x \in Closure(f) : needs[x] \subseteq Closure(f)
  BY ClosureOfAll
<1>2. /\ S \in SUBSET M /\ needs[f] \cap M \subseteq S
      /\ \A x \in S : needs[x] \cap M \subseteq S
  BY <1>1
<1>3. S \subseteq Closure(f)
  OBVIOUS
<1>. HIDE DEF S
<1>4. ClosureIn(M, f) \subseteq S
  BY <1>2, ClosureIsLeast
<1>5. QED  BY <1>3, <1>4

\* A file that reaches malloc in time reaches it.
LEMMA InTimeAllocates ==
    ASSUME ProgramOK, NEW f \in Files, AllocatesInTime(f)
    PROVE  Allocates(f)
<1>1. Defaults \in SUBSET Members
  BY DEF Defaults
<1>2. QED  BY <1>1, ClosureGrows DEF Allocates, AllocatesInTime

\* Dependencies are a matter of the program alone.
LEMMA ClosureKept ==
    ASSUME needs' = needs
    PROVE  \A M, f : ClosureIn(M, f)' = ClosureIn(M, f)
BY DEF ClosureIn

-----------------------------------------------------------------------------
(* Sequences *)

\* The last element and what is before it.
LEMMA FrontLast ==
    ASSUME NEW T, NEW s \in Seq(T), s # <<>>
    PROVE  /\ Len(s) \in Nat \ {0} /\ Last(s) \in T /\ Last(s) = s[Len(s)]
           /\ Front(s) \in Seq(T) /\ Len(Front(s)) = Len(s) - 1
           /\ DOMAIN Front(s) = 1 .. Len(s) - 1
           /\ \A i \in 1 .. Len(s) - 1 : Front(s)[i] = s[i]
BY DEF Front, Last

\* One element more.
LEMMA Appended ==
    ASSUME NEW T, NEW s \in Seq(T), NEW e \in T, NEW t, t = Append(s, e),
           NEW n \in Nat, Len(s) = n
    PROVE  /\ t \in Seq(T) /\ Len(t) = n + 1 /\ DOMAIN t = 1 .. n + 1 /\ t[n + 1] = e
           /\ \A i \in 1 .. n : t[i] = s[i]
           /\ ToSet(t) = ToSet(s) \cup {e}
<1>1. /\ t \in Seq(T) /\ Len(t) = n + 1 /\ DOMAIN t = 1 .. n + 1 /\ t[n + 1] = e
      /\ \A i \in 1 .. n : t[i] = s[i]
  OBVIOUS
<1>2. DOMAIN s = 1 .. n /\ 1 .. n + 1 = (1 .. n) \cup {n + 1}
  OBVIOUS
<1>3. ToSet(t) = ToSet(s) \cup {e}
  BY <1>1, <1>2 DEF ToSet
<1>4. QED  BY <1>1, <1>3

\* The first element and what is behind it.
LEMMA HeadTail ==
    ASSUME NEW T, NEW s \in Seq(T), s # <<>>
    PROVE  /\ Head(s) \in T /\ Head(s) = s[1] /\ Tail(s) \in Seq(T)
           /\ Len(s) \in Nat \ {0} /\ DOMAIN s = 1 .. Len(s)
           /\ DOMAIN Tail(s) = 1 .. Len(s) - 1
           /\ \A i \in 1 .. Len(s) - 1 : Tail(s)[i] = s[i + 1]
OBVIOUS

\* Of a sequence that says nothing twice, the first is not said again.
LEMMA TailOfInjective ==
    ASSUME NEW T, NEW s \in Seq(T), s # <<>>, IsInjective(s)
    PROVE  /\ IsInjective(Tail(s)) /\ Head(s) \in ToSet(s)
           /\ ToSet(Tail(s)) = ToSet(s) \ {Head(s)}
<1>1. /\ Head(s) = s[1] /\ Len(s) \in Nat \ {0} /\ DOMAIN s = 1 .. Len(s)
      /\ DOMAIN Tail(s) = 1 .. Len(s) - 1
      /\ \A i \in 1 .. Len(s) - 1 : Tail(s)[i] = s[i + 1]
  BY HeadTail
<1>2. \A i, j \in 1 .. Len(s) : s[i] = s[j] => i = j
  BY <1>1 DEF IsInjective
<1>3. IsInjective(Tail(s))
  <2>. SUFFICES ASSUME NEW i \in 1 .. Len(s) - 1, NEW j \in 1 .. Len(s) - 1,
                       Tail(s)[i] = Tail(s)[j]
                PROVE  i = j
    BY <1>1 DEF IsInjective
  <2>1. i + 1 \in 1 .. Len(s) /\ j + 1 \in 1 .. Len(s) /\ s[i + 1] = s[j + 1]
    BY <1>1
  <2>2. i + 1 = j + 1
    BY <1>2, <2>1
  <2>3. QED  BY <2>2
<1>4. ASSUME NEW x
      PROVE  x \in ToSet(Tail(s)) <=> x \in ToSet(s) \ {Head(s)}
  <2>1. ASSUME NEW i \in 1 .. Len(s) - 1, x = Tail(s)[i]
        PROVE  x \in ToSet(s) \ {Head(s)}
    <3>1. i + 1 \in 1 .. Len(s) /\ 1 \in 1 .. Len(s) /\ i + 1 # 1 /\ x = s[i + 1]
      BY <1>1, <2>1
    <3>2. x # s[1]
      BY <1>2, <3>1
    <3>3. QED  BY <1>1, <3>1, <3>2 DEF ToSet
  <2>2. ASSUME NEW i \in 1 .. Len(s), x = s[i], x # Head(s)
        PROVE  x \in ToSet(Tail(s))
    <3>1. i # 1
      BY <1>1, <2>2
    <3>2. i - 1 \in 1 .. Len(s) - 1 /\ (i - 1) + 1 = i
      BY <1>1, <3>1
    <3>3. x = Tail(s)[i - 1]
      BY <1>1, <2>2, <3>2
    <3>4. QED  BY <1>1, <3>2, <3>3 DEF ToSet
  <2>3. QED  BY <1>1, <2>1, <2>2 DEF ToSet
<1>5. Head(s) \in ToSet(s)
  BY <1>1 DEF ToSet
<1>6. QED  BY <1>3, <1>4, <1>5

\* The objects and the members behind them are named once each.
LEMMA CommandLine ==
    /\ Objects \o Late \in Seq(ToSet(Objects) \cup ToSet(Late)) /\ IsInjective(Objects \o Late)
    /\ ToSet(Objects \o Late) = ToSet(Objects) \cup ToSet(Late)
<1>. DEFINE s == Objects
            t == Late
            q == s \o t
            S == ToSet(s)
            T == ToSet(t)
            m == Len(s)
            n == Len(t)
<1>0. /\ s \in Seq(S) /\ t \in Seq(T) /\ IsInjective(s) /\ IsInjective(t)
      /\ q = s \o t /\ S \cap T = {}
  BY StartAssumption
<1>. HIDE DEF s, t, q, S, T
<1>1. /\ m \in Nat /\ n \in Nat /\ DOMAIN s = 1 .. m /\ DOMAIN t = 1 .. n
      /\ q \in Seq(S \cup T) /\ DOMAIN q = 1 .. m + n
      /\ \A i \in 1 .. m : q[i] = s[i] /\ s[i] \in S
      /\ \A i \in 1 .. m + n : i > m => q[i] = t[i - m] /\ i - m \in 1 .. n
      /\ \A i \in 1 .. n : t[i] \in T /\ q[i + m] = t[i] /\ i + m \in 1 .. m + n
  BY <1>0
<1>2. /\ \A i, j \in 1 .. m : s[i] = s[j] => i = j
      /\ \A i, j \in 1 .. n : t[i] = t[j] => i = j
  BY <1>0, <1>1 DEF IsInjective
<1>. HIDE DEF m, n
<1>3. IsInjective(q)
  <2>. SUFFICES ASSUME NEW i \in 1 .. m + n, NEW j \in 1 .. m + n, q[i] = q[j]
                PROVE  i = j
    BY <1>1 DEF IsInjective
  <2>1. CASE i \in 1 .. m /\ j \in 1 .. m
    BY <1>1, <1>2, <2>1
  <2>2. CASE i > m /\ j > m
    <3>1. t[i - m] = t[j - m] /\ i - m \in 1 .. n /\ j - m \in 1 .. n
      BY <1>1, <2>2
    <3>2. i - m = j - m
      BY <1>2, <3>1
    <3>3. QED  BY <1>1, <3>2
  <2>3. CASE i \in 1 .. m /\ j > m
    <3>1. q[i] \in S /\ q[j] \in T
      BY <1>1, <2>3
    <3>2. QED  BY <1>0, <3>1
  <2>4. CASE j \in 1 .. m /\ i > m
    <3>1. q[j] \in S /\ q[i] \in T
      BY <1>1, <2>4
    <3>2. QED  BY <1>0, <3>1
  <2>5. QED  BY <1>1, <2>1, <2>2, <2>3, <2>4
<1>4. ASSUME NEW x
      PROVE  x \in ToSet(q) <=> x \in ToSet(s) \cup ToSet(t)
  <2>1. ASSUME NEW i \in 1 .. m + n, x = q[i] PROVE x \in ToSet(s) \cup ToSet(t)
    <3>1. CASE i \in 1 .. m
      BY <1>1, <2>1, <3>1 DEF ToSet
    <3>2. CASE i > m
      BY <1>1, <2>1, <3>2 DEF ToSet
    <3>3. QED  BY <1>1, <3>1, <3>2
  <2>2. ASSUME NEW i \in 1 .. m, x = s[i] PROVE x \in ToSet(q)
    <3>1. i \in 1 .. m + n /\ x = q[i]
      BY <1>1, <2>2
    <3>2. QED  BY <1>1, <3>1 DEF ToSet
  <2>3. ASSUME NEW i \in 1 .. n, x = t[i] PROVE x \in ToSet(q)
    <3>1. i + m \in 1 .. m + n /\ x = q[i + m]
      BY <1>1, <2>3
    <3>2. QED  BY <1>1, <3>1 DEF ToSet
  <2>4. QED  BY <1>1, <2>1, <2>2, <2>3 DEF ToSet
<1>5. q \in Seq(S \cup T) /\ IsInjective(q) /\ ToSet(q) = ToSet(s) \cup ToSet(t)
  BY <1>1, <1>3, <1>4
<1>6. QED  BY <1>5 DEF s, t, q, S, T

-----------------------------------------------------------------------------
(* wasm-ld *)

\* What a step that leaves the program alone may use of the one after it.
LEMMA ProgramKept ==
    ASSUME LinkInv, UNCHANGED program
    PROVE  /\ ProgramOK' /\ needs' = needs /\ constructed' = constructed /\ early' = early
           /\ \A f : Closure(f)' = Closure(f)
           /\ \A f : (Allocates(f)' <=> Allocates(f))
           /\ \A f : (AllocatesInTime(f)' <=> AllocatesInTime(f))
           /\ \A f \in Files : needs[f] \subseteq Members
           /\ Members \subseteq Files /\ ToSet(Objects) \subseteq Files
<1>1. needs' = needs /\ constructed' = constructed /\ early' = early
  BY DEF program
<1>2. \A M, f : ClosureIn(M, f)' = ClosureIn(M, f)
  BY <1>1, ClosureKept
<1>3. /\ \A f : Closure(f)' = Closure(f)
      /\ \A f : (Allocates(f)' <=> Allocates(f))
      /\ \A f : (AllocatesInTime(f)' <=> AllocatesInTime(f))
  BY <1>2 DEF Closure, Allocates, AllocatesInTime
<1>4. ProgramOK'
  BY <1>1, <1>3 DEF LinkInv, ProgramOK
<1>5. QED  BY <1>1, <1>3, <1>4 DEF LinkInv, ProgramOK, Files

\* A step that touches neither the program nor the linker.
LEMMA LinkKept ==
    ASSUME LinkInv, UNCHANGED <<program, queue, parsing, seen, objectFiles>>
    PROVE  LinkInv'
<1>1. /\ ProgramOK' /\ needs' = needs /\ constructed' = constructed
      /\ \A f : Closure(f)' = Closure(f) /\ (AllocatesInTime(f)' <=> AllocatesInTime(f))
  BY ProgramKept
<1>2. FilesOK'
  BY DEF LinkInv, FilesOK, Done, Open
<1>3. NeedsMet' /\ DefaultsFirst' /\ Nested' /\ AllocatorDoneFirst'
  BY <1>1 DEF LinkInv, NeedsMet, DefaultsFirst, Nested, AllocatorDoneFirst, Done
<1>4. QED  BY <1>1, <1>2, <1>3 DEF LinkInv

\* Nothing is added yet.
LEMMA InitLink == Init => LinkInv
<1>. SUFFICES ASSUME Init PROVE LinkInv
  OBVIOUS
<1>1. ProgramOK
  BY StartAssumption DEF Init, ProgramOK
<1>2. Done = {} /\ Open = {} /\ DOMAIN parsing = {} /\ DOMAIN objectFiles = {}
  BY DEF Init, Done, Open, ToSet
<1>3. /\ queue \in Seq(ToSet(Objects) \cup ToSet(Late)) /\ IsInjective(queue)
      /\ ToSet(queue) = ToSet(Objects) \cup ToSet(Late)
  BY CommandLine DEF Init
<1>4. ToSet(Objects) \cup ToSet(Late) \subseteq Files
  BY StartAssumption DEF Files
<1>5. FilesOK
  <2>1. queue \in Seq(Files)
    BY <1>3, <1>4
  <2>2. QED  BY <1>2, <1>3, <2>1 DEF Init, FilesOK, IsInjective
<1>6. DefaultsFirst
  BY <1>3, StartAssumption DEF DefaultsFirst, Defaults
<1>7. QED
  BY <1>1, <1>2, <1>5, <1>6 DEF LinkInv, NeedsMet, Nested, AllocatorDoneFirst

\* A file of the command line is opened (SymbolTable.cpp: addFile).
LEMMA AddFileKeeps ==
    ASSUME LinkInv, AddFile
    PROVE  LinkInv'
<1>. DEFINE f == Head(queue)
            r == [file |-> f, refs |-> needs[f]]
<1>1. /\ ProgramOK' /\ needs' = needs /\ constructed' = constructed
      /\ \A g : Closure(g)' = Closure(g) /\ (AllocatesInTime(g)' <=> AllocatesInTime(g))
      /\ \A g \in Files : needs[g] \subseteq Members
      /\ ToSet(Objects) \subseteq Files
  BY ProgramKept DEF AddFile
<1>2. /\ parsing = <<>> /\ queue # <<>> /\ parsing' = <<r>> /\ queue' = Tail(queue)
      /\ seen' = seen /\ objectFiles' = objectFiles
  BY DEF AddFile
<1>3. /\ f \in ToSet(Objects) /\ f \in ToSet(queue) /\ ToSet(Tail(queue)) = ToSet(queue) \ {f}
      /\ Tail(queue) \in Seq(Files) /\ IsInjective(Tail(queue))
  BY <1>2, HeadTail, TailOfInjective DEF LinkInv, FilesOK, AddFile
<1>4. f \in Files /\ f \notin Members /\ r \in Record
  BY <1>1, <1>3, StartAssumption DEF Record
<1>. HIDE DEF f, r
<1>5. /\ Open = {} /\ Done' = Done
      /\ DOMAIN parsing' = {1} /\ parsing'[1] = r /\ parsing' \in Seq(Record)
  BY <1>2, <1>4 DEF Open, Done
<1>6. Open' = {f}
  BY <1>5 DEF Open, r
<1>7. FilesOK'
  BY <1>2, <1>3, <1>4, <1>5, <1>6 DEF LinkInv, FilesOK
<1>8. NeedsMet'
  <2>1. ASSUME NEW g \in Done
        PROVE  needs[g] \subseteq seen \cup ToSet(queue')
    <3>1. needs[g] \subseteq Members /\ needs[g] \subseteq seen \cup ToSet(queue)
      BY <1>1 DEF LinkInv, NeedsMet, FilesOK, Done, ToSet
    <3>2. QED  BY <1>2, <1>3, <1>4, <3>1
  <2>2. QED  BY <1>1, <1>2, <1>5, <2>1 DEF NeedsMet, r
<1>9. DefaultsFirst' /\ Nested' /\ AllocatorDoneFirst'
  BY <1>1, <1>2, <1>3, <1>5 DEF LinkInv, DefaultsFirst, Nested, AllocatorDoneFirst
<1>10. QED  BY <1>1, <1>7, <1>8, <1>9 DEF LinkInv

\* A member of a library of -l is opened when it is needed by then, and can be fetched
\* from then on (InputFiles.cpp: ArchiveFile::parse).
LEMMA AddLazyKeeps ==
    ASSUME LinkInv, AddLazy
    PROVE  LinkInv'
<1>. DEFINE m == Head(queue)
            r == [file |-> m, refs |-> needs[m]]
<1>1. /\ ProgramOK' /\ needs' = needs /\ constructed' = constructed
      /\ \A g : Closure(g)' = Closure(g) /\ (AllocatesInTime(g)' <=> AllocatesInTime(g))
      /\ \A g \in Files : needs[g] \subseteq Members
      /\ Members \subseteq Files
  BY ProgramKept DEF AddLazy
<1>2. /\ parsing = <<>> /\ queue # <<>> /\ m \in Members /\ queue' = Tail(queue)
      /\ objectFiles' = objectFiles
      /\ \/ seen' = seen \cup {m} /\ parsing' = <<r>>
         \/ ~Undefined(m) /\ seen' = seen /\ parsing' = parsing
  BY DEF AddLazy
<1>3. /\ m \in ToSet(queue) /\ ToSet(Tail(queue)) = ToSet(queue) \ {m}
      /\ Tail(queue) \in Seq(Files) /\ IsInjective(Tail(queue))
  BY <1>2, HeadTail, TailOfInjective DEF LinkInv, FilesOK
<1>4. m \in Files /\ r \in Record
  BY <1>1, <1>2 DEF Record
<1>. HIDE DEF m, r
<1>5. Open = {} /\ Done' = Done /\ m \notin Done
  BY <1>2, <1>3 DEF Open, Done, LinkInv, FilesOK
<1>6. DefaultsFirst' /\ AllocatorDoneFirst'
  BY <1>1, <1>2, <1>3 DEF LinkInv, DefaultsFirst, AllocatorDoneFirst, Defaults
<1>7. CASE seen' = seen \cup {m} /\ parsing' = <<r>>
  <2>1. DOMAIN parsing' = {1} /\ parsing'[1] = r /\ parsing' \in Seq(Record)
    BY <1>4, <1>7
  <2>2. Open' = {m}
    BY <2>1 DEF Open, r
  <2>3. FilesOK'
    BY <1>2, <1>3, <1>4, <1>5, <1>7, <2>1, <2>2 DEF LinkInv, FilesOK
  <2>4. NeedsMet'
    <3>1. \A g \in Done : needs[g] \subseteq seen' \cup ToSet(queue')
      BY <1>2, <1>3, <1>7 DEF LinkInv, NeedsMet
    <3>2. QED  BY <1>1, <1>5, <2>1, <3>1 DEF NeedsMet, r
  <2>5. Nested'
    BY <2>1 DEF Nested
  <2>6. QED  BY <1>1, <1>6, <2>3, <2>4, <2>5 DEF LinkInv
<1>8. CASE ~Undefined(m) /\ seen' = seen /\ parsing' = parsing
  <2>1. FilesOK'
    BY <1>2, <1>3, <1>5, <1>8 DEF LinkInv, FilesOK, Open
  <2>2. NeedsMet'
    <3>1. \A g \in Done : needs[g] \subseteq seen' \cup ToSet(queue')
      BY <1>2, <1>3, <1>8 DEF LinkInv, NeedsMet, Undefined, Done
    <3>2. QED  BY <1>1, <1>2, <1>5, <1>8, <3>1 DEF NeedsMet
  <2>3. Nested'
    BY <1>2, <1>8 DEF Nested
  <2>4. QED  BY <1>1, <1>6, <2>1, <2>2, <2>3 DEF LinkInv
<1>9. QED  BY <1>2, <1>7, <1>8

\* A member that was not seen is opened inside the file that needs it; of one that was
\* seen, or that waits, nothing happens (InputFiles.cpp: ArchiveFile::addMember).
LEMMA ResolveKeeps ==
    ASSUME LinkInv, NEW m \in Members, Resolve(m)
    PROVE  LinkInv'
<1>. DEFINE n == Len(parsing)
            top == Last(parsing)
            less == [top EXCEPT !.refs = @ \ {m}]
            front == Front(parsing)
            rest == Append(front, less)
            r == [file |-> m, refs |-> needs[m]]
<1>1. /\ ProgramOK' /\ needs' = needs /\ constructed' = constructed
      /\ \A g : Closure(g)' = Closure(g) /\ (AllocatesInTime(g)' <=> AllocatesInTime(g))
      /\ \A g \in Files : needs[g] \subseteq Members
      /\ Members \subseteq Files
  BY ProgramKept DEF Resolve
<1>2. /\ parsing # <<>> /\ m \in top.refs
      /\ seen' = IF m \in Lazy THEN seen \cup {m} ELSE seen
      /\ queue' = queue /\ objectFiles' = objectFiles
      /\ parsing' = IF Fetches(m) THEN Append(rest, r) ELSE rest
  BY DEF Resolve
<1>3. /\ n \in Nat \ {0} /\ top \in Record /\ top = parsing[n] /\ DOMAIN parsing = 1 .. n
      /\ front \in Seq(Record) /\ Len(front) = n - 1
      /\ \A i \in 1 .. n - 1 : front[i] = parsing[i]
  <2>1. parsing \in Seq(Record) /\ parsing # <<>>
    BY <1>2 DEF LinkInv, FilesOK
  <2>2. DOMAIN parsing = 1 .. Len(parsing)
    BY <2>1
  <2>3. QED  BY <2>1, <2>2, FrontLast
<1>4. /\ less \in Record /\ less.file = top.file /\ less.refs = top.refs \ {m}
  BY <1>3 DEF Record
<1>5. r \in Record
  BY <1>1 DEF Record
<1>0. rest = Append(front, less)
  OBVIOUS
<1>. HIDE DEF n, less, top, front, rest, r
<1>6. /\ rest \in Seq(Record) /\ DOMAIN rest = 1 .. n /\ Len(rest) = n /\ rest[n] = less
      /\ \A i \in 1 .. n - 1 : rest[i] = parsing[i]
  <2>1. n - 1 \in Nat /\ (n - 1) + 1 = n
    BY <1>3
  <2>2. /\ rest \in Seq(Record) /\ Len(rest) = (n - 1) + 1 /\ DOMAIN rest = 1 .. (n - 1) + 1
        /\ rest[(n - 1) + 1] = less /\ \A i \in 1 .. n - 1 : rest[i] = front[i]
    <3>1. front \in Seq(Record) /\ less \in Record /\ Len(front) = n - 1
      BY <1>3, <1>4
    <3>2. QED  BY <1>0, <2>1, <3>1, Appended
  <2>3. QED  BY <1>3, <2>1, <2>2
<1>7. \A i \in 1 .. n :
        /\ rest[i].file = parsing[i].file /\ rest[i].refs \subseteq parsing[i].refs
        /\ parsing[i].refs \subseteq rest[i].refs \cup {m}
  <2>. TAKE i \in 1 .. n
  <2>1. CASE i = n
    BY <1>3, <1>4, <1>6, <2>1
  <2>2. CASE i # n
    <3>1. i \in 1 .. n - 1
      BY <1>3, <2>2
    <3>2. QED  BY <1>6, <3>1
  <2>3. QED  BY <2>1, <2>2
<1>8. Done' = Done
  BY <1>2 DEF Done
<1>9. CASE ~Fetches(m)
  <2>0. m \in seen \cup ToSet(queue)
    BY <1>9 DEF Fetches, Lazy
  <2>1. parsing' = rest /\ seen' = seen /\ DOMAIN parsing' = DOMAIN parsing
    BY <1>2, <1>3, <1>6, <1>9 DEF Fetches
  <2>2. Open' = Open
    BY <1>3, <1>7, <2>1 DEF Open
  <2>3. FilesOK'
    BY <1>2, <1>3, <1>6, <1>7, <1>8, <2>1, <2>2 DEF LinkInv, FilesOK
  <2>4. NeedsMet'
    <3>1. ASSUME NEW i \in DOMAIN parsing'
          PROVE  /\ parsing'[i].refs \subseteq needs[parsing'[i].file]
                 /\ needs[parsing'[i].file]
                        \subseteq seen' \cup ToSet(queue) \cup parsing'[i].refs
      BY <1>3, <1>7, <2>0, <2>1 DEF LinkInv, NeedsMet
    <3>2. QED  BY <1>1, <1>2, <1>8, <2>1, <3>1 DEF LinkInv, NeedsMet
  <2>5. Nested'
    BY <1>1, <1>3, <1>7, <2>1 DEF LinkInv, Nested
  <2>6. AllocatorDoneFirst' /\ DefaultsFirst'
    BY <1>1, <1>2 DEF LinkInv, AllocatorDoneFirst, DefaultsFirst, Defaults
  <2>7. QED  BY <1>1, <2>3, <2>4, <2>5, <2>6 DEF LinkInv
<1>10. CASE Fetches(m)
  <2>. m \notin seen /\ m \notin ToSet(queue) /\ seen' = seen \cup {m}
    BY <1>2, <1>10 DEF Fetches, Lazy
  <2>1. /\ parsing' = Append(rest, r) /\ parsing' \in Seq(Record)
        /\ DOMAIN parsing' = 1 .. n + 1 /\ parsing'[n + 1] = r
        /\ \A i \in 1 .. n : parsing'[i] = rest[i]
    BY <1>2, <1>5, <1>6, <1>10, Appended
  <2>2. 1 .. n + 1 = (1 .. n) \cup {n + 1} /\ n + 1 \notin 1 .. n
    BY <1>3
  <2>3. r.file = m /\ r.refs = needs[m]
    BY DEF r
  <2>0. \A i \in 1 .. n : parsing'[i].file = parsing[i].file
    BY <1>7, <2>1
  <2>4. Open' = Open \cup {m}
    <3>1. Open' = {parsing'[i].file : i \in 1 .. n} \cup {m}
      BY <2>1, <2>2, <2>3 DEF Open
    <3>2. {parsing'[i].file : i \in 1 .. n} = {parsing[i].file : i \in 1 .. n}
      BY <2>0
    <3>3. QED  BY <1>3, <3>1, <3>2 DEF Open
  <2>5. m \notin Done /\ m \notin Open
    BY DEF LinkInv, FilesOK
  <2>6. \A i \in 1 .. n : parsing[i].file # m
    BY <1>3, <2>5 DEF Open
  <2>7. FilesOK'
    <3>1. \A i, j \in DOMAIN parsing' : parsing'[i].file = parsing'[j].file => i = j
      <4>. SUFFICES ASSUME NEW i \in 1 .. n + 1, NEW j \in 1 .. n + 1,
                           parsing'[i].file = parsing'[j].file
                    PROVE  i = j
        BY <2>1
      <4>1. CASE i \in 1 .. n /\ j \in 1 .. n
        BY <1>3, <2>0, <4>1 DEF LinkInv, FilesOK
      <4>2. CASE i = n + 1 /\ j \in 1 .. n
        BY <2>0, <2>1, <2>3, <2>6, <4>2
      <4>3. CASE i \in 1 .. n /\ j = n + 1
        BY <2>0, <2>1, <2>3, <2>6, <4>3
      <4>4. QED  BY <2>2, <4>1, <4>2, <4>3
    <3>2. ToSet(queue) \cap (Done \cup Open \cup {m}) = {}
      BY DEF LinkInv, FilesOK
    <3>3. QED  BY <1>2, <1>8, <2>1, <2>4, <2>5, <3>1, <3>2 DEF LinkInv, FilesOK
  <2>8. NeedsMet'
    <3>1. ASSUME NEW i \in DOMAIN parsing'
          PROVE  /\ parsing'[i].refs \subseteq needs[parsing'[i].file]
                 /\ needs[parsing'[i].file]
                        \subseteq seen' \cup ToSet(queue) \cup parsing'[i].refs
      <4>1. CASE i = n + 1
        BY <2>1, <2>3, <4>1
      <4>2. CASE i \in 1 .. n
        <5>1. /\ parsing[i].refs \subseteq needs[parsing[i].file]
              /\ needs[parsing[i].file] \subseteq seen \cup ToSet(queue) \cup parsing[i].refs
          BY <1>3, <4>2 DEF LinkInv, NeedsMet
        <5>2. /\ rest[i].file = parsing[i].file /\ rest[i].refs \subseteq parsing[i].refs
              /\ parsing[i].refs \subseteq rest[i].refs \cup {m} /\ parsing'[i] = rest[i]
          BY <1>7, <2>1, <4>2
        <5>3. QED  BY <5>1, <5>2
      <4>3. QED  BY <2>1, <2>2, <4>1, <4>2
    <3>2. QED  BY <1>1, <1>2, <1>8, <3>1 DEF LinkInv, NeedsMet
  <2>9. Nested'
    <3>1. m \in needs[top.file] /\ top.file \in Files
      BY <1>2, <1>3 DEF LinkInv, NeedsMet, Record
    <3>2. m \in Closure(top.file)
      BY <3>1, ClosureOfAll DEF LinkInv
    <3>3. ASSUME NEW i \in 1 .. n
          PROVE  m \in Closure(parsing[i].file)
      <4>1. CASE i = n
        BY <1>3, <3>2, <4>1
      <4>2. CASE i # n
        <5>1. i < n /\ n \in 1 .. n
          BY <1>3, <4>2
        <5>2. top.file \in Closure(parsing[i].file)
          BY <1>3, <5>1 DEF LinkInv, Nested
        <5>3. parsing[i] \in Record
          BY <1>3 DEF LinkInv, FilesOK
        <5>0. parsing[i].file \in Files
          BY <5>3 DEF Record
        <5>4. QED  BY <3>2, <5>0, <5>2, ClosureTransitive DEF LinkInv
      <4>3. QED  BY <4>1, <4>2
    <3>4. ASSUME NEW i \in 1 .. n + 1, NEW j \in 1 .. n + 1, i < j
          PROVE  parsing'[j].file \in Closure(parsing'[i].file)
      <4>1. i \in 1 .. n /\ parsing'[i].file = parsing[i].file
        BY <1>3, <1>7, <2>1, <3>4
      <4>2. CASE j = n + 1
        BY <2>1, <2>3, <3>3, <4>1, <4>2
      <4>3. CASE j \in 1 .. n
        BY <1>3, <1>7, <2>1, <3>4, <4>1, <4>3 DEF LinkInv, Nested
      <4>4. QED  BY <2>2, <4>2, <4>3
    <3>5. QED  BY <1>1, <2>1, <3>4 DEF Nested
  <2>10. AllocatorDoneFirst' /\ DefaultsFirst'
    BY <1>1, <1>2 DEF LinkInv, AllocatorDoneFirst, DefaultsFirst, Defaults
  <2>11. QED  BY <1>1, <2>7, <2>8, <2>9, <2>10 DEF LinkInv
<1>11. QED  BY <1>9, <1>10

\* Nothing that is being parsed depends on an open file with a constructor of its
\* own, so all that such a file depends on by way of the default archives, which nothing
\* waits for, is done when it is: if it reaches malloc, the allocator.
LEMMA FinishedAllocates ==
    ASSUME LinkInv, parsing # <<>>, Last(parsing).refs = {},
           Last(parsing).file \in constructed \ {Allocator},
           AllocatesInTime(Last(parsing).file)
    PROVE  Allocator \in Done
<1>. DEFINE n == Len(parsing)
            f == Last(parsing).file
            C == ClosureIn(Defaults, f)
            S == C \cap Done
<1>1. /\ n \in Nat \ {0} /\ DOMAIN parsing = 1 .. n /\ n \in DOMAIN parsing
      /\ f = parsing[n].file /\ f \in Files /\ parsing[n].refs = {}
      /\ \A i \in DOMAIN parsing : parsing[i].file \in Files
  <2>1. parsing \in Seq(Record) /\ parsing # <<>>
    BY DEF LinkInv, FilesOK
  <2>2. DOMAIN parsing = 1 .. Len(parsing)
    BY <2>1
  <2>3. Last(parsing) \in Record /\ Last(parsing) = parsing[n] /\ n \in Nat \ {0}
    BY <2>1, FrontLast
  <2>4. \A i \in DOMAIN parsing : parsing[i] \in Record
    BY <2>1, <2>2
  <2>5. QED  BY <2>2, <2>3, <2>4 DEF Record
<1>2. f \notin Closure(f)
  BY DEF LinkInv, ProgramOK
<1>3. Allocator \in C
  BY DEF AllocatesInTime
<1>. HIDE DEF n, f
<1>4. \A i \in DOMAIN parsing : parsing[i].file \notin Closure(f)
  <2>. SUFFICES ASSUME NEW i \in DOMAIN parsing, parsing[i].file \in Closure(f)
                PROVE  FALSE
    OBVIOUS
  <2>1. i # n
    BY <1>1, <1>2
  <2>2. f \in Closure(parsing[i].file)
    BY <1>1, <2>1 DEF LinkInv, Nested
  <2>3. f \in Closure(f)
    BY <1>1, <2>2, ClosureTransitive DEF LinkInv
  <2>4. QED  BY <1>2, <2>3
<1>5. C \subseteq Closure(f) /\ C \subseteq Defaults
  <2>1. Defaults \in SUBSET Members
    BY DEF Defaults
  <2>2. QED  BY <1>1, <2>1, ClosureGrows, ClosureIsLeast DEF LinkInv
<1>6. /\ needs[f] \cap Defaults \subseteq C
      /\ \A x \in C : needs[x] \cap Defaults \subseteq C
      /\ \A T \in SUBSET Defaults :
            needs[f] \cap Defaults \subseteq T /\ (\A x \in T : needs[x] \cap Defaults \subseteq T)
            => C \subseteq T
  BY ClosureIsLeast
<1>. HIDE DEF C
<1>7. ASSUME NEW x \in C, x \in seen \cup ToSet(queue)
      PROVE  x \in S
  <2>1. x \in seen
    BY <1>5, <1>7 DEF LinkInv, DefaultsFirst
  <2>2. QED  BY <1>4, <1>5, <2>1 DEF LinkInv, FilesOK, Open
<1>8. needs[f] \cap Defaults \subseteq S
  <2>1. needs[f] \subseteq seen \cup ToSet(queue)
    BY <1>1 DEF LinkInv, NeedsMet
  <2>2. QED  BY <1>6, <1>7, <2>1
<1>9. \A x \in S : needs[x] \cap Defaults \subseteq S
  <2>. TAKE x \in S
  <2>1. needs[x] \subseteq seen \cup ToSet(queue)
    BY DEF LinkInv, NeedsMet
  <2>2. needs[x] \cap Defaults \subseteq C
    BY <1>6
  <2>3. QED  BY <1>7, <2>1, <2>2
<1>10. S \in SUBSET Defaults
  BY <1>5
<1>11. C \subseteq S
  <2>. HIDE DEF S
  <2>1. QED  BY <1>6, <1>8, <1>9, <1>10
<1>12. QED  BY <1>3, <1>11

\* A file all of whose references are resolved is finished.
LEMMA ParsedKeeps ==
    ASSUME LinkInv, Parsed
    PROVE  LinkInv'
<1>. DEFINE n == Len(parsing)
            f == Last(parsing).file
            l == Len(objectFiles)
<1>1. /\ ProgramOK' /\ needs' = needs /\ constructed' = constructed
      /\ \A g : Closure(g)' = Closure(g) /\ (AllocatesInTime(g)' <=> AllocatesInTime(g))
  BY ProgramKept DEF Parsed
<1>2. /\ parsing # <<>> /\ Last(parsing).refs = {} /\ seen' = seen /\ queue' = queue
      /\ parsing' = Front(parsing) /\ objectFiles' = Append(objectFiles, f)
  BY DEF Parsed, ObjectFilesWith
<1>3. /\ n \in Nat \ {0} /\ DOMAIN parsing = 1 .. n /\ f = parsing[n].file /\ f \in Files
      /\ parsing[n].refs = {} /\ parsing' \in Seq(Record) /\ DOMAIN parsing' = 1 .. n - 1
      /\ \A i \in 1 .. n - 1 : parsing'[i] = parsing[i]
  <2>1. parsing \in Seq(Record) /\ parsing # <<>>
    BY <1>2 DEF LinkInv, FilesOK
  <2>2. DOMAIN parsing = 1 .. Len(parsing)
    BY <2>1
  <2>3. /\ Last(parsing) \in Record /\ Last(parsing) = parsing[n] /\ n \in Nat \ {0}
        /\ Front(parsing) \in Seq(Record) /\ DOMAIN Front(parsing) = 1 .. n - 1
        /\ \A i \in 1 .. n - 1 : Front(parsing)[i] = parsing[i]
    BY <2>1, FrontLast
  <2>4. QED  BY <1>2, <2>2, <2>3 DEF Record
<1>4. AllocatesInTime(f) /\ f \in constructed \ {Allocator} => Allocator \in Done
  BY <1>2, FinishedAllocates
<1>. HIDE DEF n, f, l
<1>5. /\ l \in Nat /\ DOMAIN objectFiles = 1 .. l
      /\ objectFiles' \in Seq(Files) /\ DOMAIN objectFiles' = 1 .. l + 1
      /\ objectFiles'[l + 1] = f /\ \A i \in 1 .. l : objectFiles'[i] = objectFiles[i]
      /\ Done' = Done \cup {f}
  <2>1. objectFiles \in Seq(Files) /\ l = Len(objectFiles)
    BY DEF LinkInv, FilesOK, l
  <2>2. l \in Nat /\ DOMAIN objectFiles = 1 .. l
    BY <2>1
  <2>3. /\ objectFiles \in Seq(Files) /\ f \in Files /\ objectFiles' = Append(objectFiles, f)
        /\ l \in Nat /\ Len(objectFiles) = l
    BY <1>2, <1>3, <2>1, <2>2
  <2>4. /\ objectFiles' \in Seq(Files) /\ DOMAIN objectFiles' = 1 .. l + 1
        /\ objectFiles'[l + 1] = f /\ \A i \in 1 .. l : objectFiles'[i] = objectFiles[i]
    BY <2>3
  <2>5. ToSet(objectFiles') = ToSet(objectFiles) \cup {f}
    <3>1. 1 .. l + 1 = (1 .. l) \cup {l + 1}
      BY <2>3
    <3>2. QED  BY <2>2, <2>4, <3>1 DEF ToSet
  <2>6. QED  BY <2>2, <2>4, <2>5 DEF Done
<1>6. 1 .. l + 1 = (1 .. l) \cup {l + 1} /\ 1 .. n = (1 .. n - 1) \cup {n} /\ n \notin 1 .. n - 1
  BY <1>3, <1>5
<1>7. /\ Open = Open' \cup {f} /\ f \notin Open' /\ f \in Open /\ f \notin Done
  <2>1. Open' = {parsing[i].file : i \in 1 .. n - 1}
    BY <1>3 DEF Open
  <2>2. Open = {parsing[i].file : i \in 1 .. n - 1} \cup {f}
    BY <1>3, <1>6 DEF Open
  <2>3. \A i \in 1 .. n - 1 : parsing[i].file # f
    BY <1>3, <1>6 DEF LinkInv, FilesOK
  <2>4. QED  BY <2>1, <2>2, <2>3 DEF LinkInv, FilesOK
<1>8. FilesOK'
  <2>1. \A i, j \in DOMAIN parsing' : parsing'[i].file = parsing'[j].file => i = j
    BY <1>3, <1>6 DEF LinkInv, FilesOK
  <2>2. IsInjective(objectFiles')
    <3>1. \A i \in 1 .. l : objectFiles[i] # f
      BY <1>5, <1>7 DEF Done, ToSet
    <3>2. \A i, j \in 1 .. l : objectFiles[i] = objectFiles[j] => i = j
      BY <1>5 DEF LinkInv, FilesOK, IsInjective
    <3>3. QED  BY <1>5, <1>6, <3>1, <3>2 DEF IsInjective
  <2>3. Done' \cup Open' = Done \cup Open /\ Done' \cap Open' = {}
    BY <1>5, <1>7 DEF LinkInv, FilesOK
  <2>4. QED  BY <1>2, <1>3, <1>5, <2>1, <2>2, <2>3 DEF LinkInv, FilesOK
<1>9. NeedsMet'
  <2>1. needs[f] \subseteq seen \cup ToSet(queue)
    BY <1>3, <1>6 DEF LinkInv, NeedsMet
  <2>2. \A g \in Done' : needs[g] \subseteq seen \cup ToSet(queue)
    BY <1>5, <2>1 DEF LinkInv, NeedsMet
  <2>3. \A i \in 1 .. n - 1 :
           /\ parsing[i].refs \subseteq needs[parsing[i].file]
           /\ needs[parsing[i].file] \subseteq seen \cup ToSet(queue) \cup parsing[i].refs
    BY <1>3, <1>6 DEF LinkInv, NeedsMet
  <2>4. QED  BY <1>1, <1>2, <1>3, <2>2, <2>3 DEF NeedsMet
<1>10. Nested' /\ DefaultsFirst'
  BY <1>1, <1>2, <1>3, <1>6 DEF LinkInv, Nested, DefaultsFirst, Defaults
<1>11. AllocatorDoneFirst'
  <2>. SUFFICES ASSUME NEW i \in 1 .. l + 1,
                       objectFiles'[i] \in constructed \ {Allocator},
                       AllocatesInTime(objectFiles'[i])
                PROVE  \E j \in 1 .. l + 1 : j < i /\ objectFiles'[j] = Allocator
    BY <1>1, <1>5 DEF AllocatorDoneFirst
  <2>1. CASE i \in 1 .. l
    <3>1. \E j \in 1 .. l : j < i /\ objectFiles[j] = Allocator
      BY <1>5, <2>1 DEF LinkInv, AllocatorDoneFirst
    <3>2. QED  BY <1>5, <1>6, <3>1
  <2>2. CASE i = l + 1
    <3>1. Allocator \in Done
      BY <1>4, <1>5, <2>2
    <3>2. PICK j \in 1 .. l : objectFiles[j] = Allocator
      BY <1>5, <3>1 DEF Done, ToSet
    <3>3. j < l + 1
      BY <1>5, <3>2
    <3>4. QED  BY <1>5, <1>6, <2>2, <3>2, <3>3
  <2>3. QED  BY <1>6, <2>1, <2>2
<1>12. QED  BY <1>1, <1>8, <1>9, <1>10, <1>11 DEF LinkInv

-----------------------------------------------------------------------------
(* The constructors *)

\* The elements of a sequence are finitely many.
LEMMA FinitelyMany ==
    ASSUME NEW T, NEW s \in Seq(T)
    PROVE  IsFiniteSet(ToSet(s))
<1>. DEFINE n == Len(s)
<1>0. n \in Nat
  OBVIOUS
<1>1. DOMAIN s = 1 .. n /\ s = [i \in 1 .. n |-> s[i]]
  OBVIOUS
<1>. HIDE DEF n
<1>2. IsFiniteSet(1 .. n)
  <2>1. 1 \in Int /\ n \in Int
    BY <1>0
  <2>2. QED  BY <2>1, FS_Interval
<1>3. s \in Surjection(1 .. n, ToSet(s))
  BY <1>1 DEF Surjection, ToSet
<1>4. QED  BY <1>2, <1>3, FS_Surjection

\* The orders of a finite set.
LEMMA Orders ==
    ASSUME NEW S, IsFiniteSet(S), NEW s \in SetToSeqs(S)
    PROVE  s \in Seq(S) /\ IsInjective(s) /\ ToSet(s) = S
<1>. DEFINE n == Cardinality(S)
<1>1. n \in Nat
  BY FS_CardinalityType
<1>2. s \in [1 .. n -> S] /\ \A i, j \in 1 .. n : i # j => s[i] # s[j]
  BY DEF SetToSeqs
<1>3. IsFiniteSet(1 .. n) /\ Cardinality(1 .. n) = n
  <2>. HIDE DEF n
  <2>1. QED  BY <1>1, FS_Interval
<1>4. s \in Injection(1 .. n, S)
  BY <1>2 DEF Injection, IsInjective
<1>5. s \in Surjection(1 .. n, S)
  BY <1>3, <1>4, FS_Injection
<1>. HIDE DEF n
<1>6. s \in Seq(S)
  BY <1>1, <1>2
<1>7. QED  BY <1>2, <1>4, <1>5, <1>6 DEF Injection, Surjection, ToSet

\* Whatever order the constructors are called in, those that reach malloc in time come
\* after the allocator's: their files were finished after it (Writer.cpp:
\* calculateInitFunctions).
LEMMA CallsInOrder ==
    ASSUME LinkInv, NEW calls \in CtorCalls
    PROVE  /\ calls \in Seq(constructed \cap Done) /\ IsInjective(calls)
           /\ ToSet(calls) = constructed \cap Done
           /\ \A i, j \in DOMAIN calls :
                 calls[j] = Allocator /\ i < j => ~AllocatesInTime(calls[i])
<1>1. IsFiniteSet(constructed \cap Done)
  <2>1. IsFiniteSet(Done)
    BY FinitelyMany DEF LinkInv, FilesOK, Done
  <2>2. QED  BY <2>1, FS_Subset
<1>2. calls \in SetToSeqs(constructed \cap Done)
  BY DEF CtorCalls, Done
<1>3. calls \in Seq(constructed \cap Done) /\ IsInjective(calls)
      /\ ToSet(calls) = constructed \cap Done
  BY <1>1, <1>2, Orders
<1>4. ASSUME NEW i \in DOMAIN calls, NEW j \in DOMAIN calls,
             calls[j] = Allocator, i < j, AllocatesInTime(calls[i])
      PROVE  FALSE
  <2>1. Precedes(calls[i], Allocator)
    BY <1>4 DEF CtorCalls
  <2>2. calls[i] \in constructed \cap Done /\ i \in Nat /\ j \in Nat
    BY <1>3
  <2>3. calls[i] # Allocator
    BY <1>3, <1>4, <2>2 DEF IsInjective
  <2>4. calls[i] \notin early
    <3>1. Allocates(calls[i])
      BY <1>4, <2>2, InTimeAllocates DEF LinkInv, ProgramOK
    <3>2. QED  BY <3>1 DEF LinkInv, ProgramOK
  <2>5. PICK k, a \in DOMAIN objectFiles :
           k < a /\ objectFiles[k] = calls[i] /\ objectFiles[a] = Allocator
    BY <2>1, <2>4 DEF Precedes
  <2>6. PICK b \in DOMAIN objectFiles : b < k /\ objectFiles[b] = Allocator
    BY <1>4, <2>2, <2>3, <2>5 DEF LinkInv, AllocatorDoneFirst
  <2>7. a = b
    BY <2>5, <2>6 DEF LinkInv, FilesOK, IsInjective
  <2>8. k \in Nat /\ a \in Nat
    BY DEF LinkInv, FilesOK
  <2>9. QED  BY <2>5, <2>6, <2>7, <2>8
<1>5. QED  BY <1>3, <1>4

\* What a linked file can reach is linked in.
LEMMA ReachesLinked ==
    ASSUME LinkInv, parsing = <<>>, queue = <<>>, NEW f \in Done
    PROVE  /\ Closure(f) \subseteq seen
           /\ seen = Done \cap Members
<1>1. Open = {} /\ ToSet(queue) = {}
  BY DEF Open, ToSet
<1>2. seen = Done \cap Members
  BY <1>1 DEF LinkInv, FilesOK
<1>3. \A g \in Done : needs[g] \subseteq seen
  BY <1>1 DEF LinkInv, NeedsMet
<1>4. seen \in SUBSET Members /\ seen \subseteq Done
  BY <1>2
<1>5. f \in Files
  BY DEF LinkInv, FilesOK, Done, ToSet
<1>6. QED  BY <1>2, <1>3, <1>4, <1>5, ClosureOfAll DEF LinkInv

-----------------------------------------------------------------------------
(* Every step *)

LEMMA InitStart == Init => StartInv
<1>1. Init => StageOK /\ CtorsOK
  BY DEF Init, StageOK, CtorsOK
<1>2. QED  BY <1>1, InitLink DEF StartInv

\* The call of a constructor leaves those behind it.
LEMMA CtorsShrink ==
    ASSUME CtorsOK, LinkInv, stage = "ctors", initFunctions # <<>>,
           UNCHANGED <<program, linker>>, initFunctions' = Tail(initFunctions)
    PROVE  CtorsOK'
<1>1. /\ constructed' = constructed /\ Done' = Done
      /\ \A f : AllocatesInTime(f)' <=> AllocatesInTime(f)
  BY ProgramKept DEF program, linker, Done
<1>2. /\ initFunctions \in Seq(constructed \cap Done) /\ IsInjective(initFunctions)
      /\ \A i, j \in DOMAIN initFunctions :
            initFunctions[j] = Allocator /\ i < j => ~AllocatesInTime(initFunctions[i])
  BY DEF CtorsOK, AllocatorFirst
<1>3. Tail(initFunctions) \in Seq(constructed \cap Done) /\ IsInjective(Tail(initFunctions))
  BY <1>2, HeadTail, TailOfInjective
<1>4. ASSUME NEW i \in DOMAIN Tail(initFunctions), NEW j \in DOMAIN Tail(initFunctions),
             Tail(initFunctions)[j] = Allocator, i < j
      PROVE  ~AllocatesInTime(Tail(initFunctions)[i])
  <2>. DEFINE n == Len(initFunctions)
  <2>1. /\ n \in Nat \ {0} /\ DOMAIN initFunctions = 1 .. n
        /\ DOMAIN Tail(initFunctions) = 1 .. n - 1
        /\ \A k \in 1 .. n - 1 : Tail(initFunctions)[k] = initFunctions[k + 1]
    BY <1>2, HeadTail
  <2>. HIDE DEF n
  <2>2. i + 1 \in 1 .. n /\ j + 1 \in 1 .. n /\ i + 1 < j + 1
    BY <1>4, <2>1
  <2>3. QED  BY <1>2, <1>4, <2>1, <2>2
<1>5. QED  BY <1>1, <1>3, <1>4 DEF CtorsOK, AllocatorFirst

LEMMA NextStart == StartInv /\ [Next]_vars => StartInv'
<1>. SUFFICES ASSUME StartInv, [Next]_vars PROVE StartInv'
  OBVIOUS
<1>. USE DEF StartInv
<1>1. CASE AddFile
  <2>1. StageOK' /\ CtorsOK'
    BY <1>1 DEF AddFile, StageOK, CtorsOK, mallocVars
  <2>2. QED  BY <1>1, <2>1, AddFileKeeps
<1>0. CASE AddLazy
  <2>1. StageOK' /\ CtorsOK'
    BY <1>0 DEF AddLazy, StageOK, CtorsOK, mallocVars
  <2>2. QED  BY <1>0, <2>1, AddLazyKeeps
<1>2. ASSUME NEW m \in Members, Resolve(m) PROVE StartInv'
  <2>1. StageOK' /\ CtorsOK'
    BY <1>2 DEF Resolve, StageOK, CtorsOK, mallocVars
  <2>2. QED  BY <1>2, <2>1, ResolveKeeps
<1>3. CASE Parsed
  <2>1. StageOK' /\ CtorsOK'
    BY <1>3 DEF Parsed, StageOK, CtorsOK, mallocVars
  <2>2. QED  BY <1>3, <2>1, ParsedKeeps
<1>4. ASSUME NEW data \in DataSizes, Layout(data) PROVE StartInv'
  <2>1. LinkInv'
    BY <1>4, LinkKept DEF Layout
  <2>2. StageOK' /\ CtorsOK'
    BY <1>4, StartAssumption DEF Layout, HeapBaseFor, StageOK, CtorsOK, mallocVars
  <2>3. QED  BY <2>1, <2>2
<1>5. CASE PostPass
  <2>1. LinkInv'
    BY <1>5, LinkKept DEF PostPass, linker
  <2>2. StageOK' /\ CtorsOK'
    BY <1>5 DEF PostPass, StageOK, CtorsOK, linker, mallocVars
  <2>3. QED  BY <2>1, <2>2
<1>6. CASE EnterApply
  <2>1. LinkInv' /\ constructed' = constructed /\ Done' = Done
    BY <1>6, LinkKept DEF EnterApply, linker, program, Done
  <2>2. StageOK'
    BY <1>6 DEF EnterApply, StageOK, linker
  <2>3. \A f : AllocatesInTime(f)' <=> AllocatesInTime(f)
    BY <1>6, ProgramKept DEF EnterApply
  <2>4. CtorsOK'
    <3>1. initFunctions' \in CtorCalls
      BY <1>6 DEF EnterApply
    <3>2. QED  BY <2>1, <2>3, <3>1, CallsInOrder DEF CtorsOK, AllocatorFirst
  <2>5. QED  BY <2>1, <2>2, <2>4
<1>7. CASE Construct
  <2>1. LinkInv'
    BY <1>7, LinkKept DEF Construct, linker
  <2>2. StageOK'
    BY <1>7 DEF Construct, StageOK, linker
  <2>3. CtorsOK'
    BY <1>7, CtorsShrink DEF Construct
  <2>4. QED  BY <2>1, <2>2, <2>3
<1>8. CASE UserConstruct
  <2>1. LinkInv'
    BY <1>8, LinkKept DEF UserConstruct, linker
  <2>2. StageOK'
    BY <1>8 DEF UserConstruct, StageOK, linker
  <2>3. CtorsOK'
    BY <1>8, CtorsShrink DEF UserConstruct
  <2>4. QED  BY <2>1, <2>2, <2>3
<1>9. CASE EnterBody \/ Return
  <2>1. LinkInv'
    BY <1>9, LinkKept DEF EnterBody, Return, linker
  <2>2. StageOK' /\ CtorsOK'
    BY <1>9 DEF EnterBody, Return, StageOK, CtorsOK, linker
  <2>3. QED  BY <2>1, <2>2
<1>10. CASE Body
  <2>1. LinkInv'
    BY <1>10, LinkKept DEF Body, linker
  <2>2. StageOK' /\ CtorsOK'
    BY <1>10 DEF Body, StageOK, CtorsOK, linker
  <2>3. QED  BY <2>1, <2>2
<1>11. CASE UNCHANGED vars
  <2>1. LinkInv'
    BY <1>11, LinkKept DEF vars, linker
  <2>2. /\ constructed' = constructed /\ Done' = Done
        /\ \A f : AllocatesInTime(f)' <=> AllocatesInTime(f)
    BY <1>11, ProgramKept DEF vars, linker, program, Done
  <2>3. StageOK' /\ CtorsOK'
    BY <1>11, <2>2 DEF vars, StageOK, CtorsOK, AllocatorFirst, linker, mallocVars
  <2>4. QED  BY <2>1, <2>3
<1>12. QED
  BY <1>0, <1>1, <1>2, <1>3, <1>4, <1>5, <1>6, <1>7, <1>8, <1>9, <1>10, <1>11 DEF Next

-----------------------------------------------------------------------------
(* The heap *)

\* What __wasm_call_ctors finds: memory as wasm-ld laid it out, and the allocator
\* still to be constructed when it is linked in.
LEMMA EnterApplyWaits ==
    ASSUME StartInv, EnterApply
    PROVE  Waiting'
<1>1. /\ stage = "linked" /\ stage' = "ctors" /\ initFunctions' \in CtorCalls
      /\ memory' = Dsm!LinkedPages(heapBase) /\ heapBase' = heapBase
      /\ blocks' = blocks /\ freed' = freed /\ status' = status /\ seen' = seen
  BY DEF EnterApply, NumMemoryPages, linker
<1>2. blocks = {} /\ freed = {} /\ status = "running" /\ parsing = <<>>
  BY <1>1 DEF StartInv, StageOK
<1>3. ToSet(initFunctions') = constructed \cap Done
  BY <1>1, CallsInOrder DEF StartInv
<1>4. Allocator \in constructed
  BY DEF StartInv, LinkInv, ProgramOK
<1>5. Allocator \in seen => Allocator \in Done
  <2>1. Open = {}
    BY <1>2 DEF Open
  <2>2. QED  BY <2>1 DEF StartInv, LinkInv, FilesOK
<1>6. Dsm!LinkedPages(heapBase)' = Dsm!LinkedPages(heapBase)
  BY <1>1 DEF Dsm!LinkedPages
<1>7. QED  BY <1>1, <1>2, <1>3, <1>4, <1>5, <1>6 DEF Waiting

\* The constants meet what DsMallocProofs assumes of them.
LEMMA MemoryAssumed ==
    /\ PageSize \in Nat \ {0} /\ PageLimit \in Nat \ {0} /\ Alignment \in Nat \ {0}
    /\ PageSize % Alignment = 0
    /\ HostMaxPages \in Nat /\ HostMaxPages <= PageLimit
    /\ Sizes \subseteq DsmP!SizeT
    /\ \A base \in HeapBases :
          /\ base \in Nat \ {0}
          /\ DsmP!LinkedPages(base) <= HostMaxPages
          /\ \/ base + Alignment <= DsmP!Bytes(DsmP!LinkedPages(base))
             \/ HostMaxPages + 1 < PageLimit
BY MemoryAssumption DEF Dsm!SizeT, Dsm!AddressSpace, Dsm!Bytes, Dsm!LinkedPages,
                        DsmP!SizeT, DsmP!AddressSpace, DsmP!Bytes, DsmP!LinkedPages

\* A request of a contract is a request DsMallocProofs speaks of.
LEMMA MallocKeeps ==
    ASSUME DsmP!IInv, freed = {}, NEW sz \in Sizes, Dsm!Malloc(sz)
    PROVE  /\ DsmP!IInv' /\ freed' = {} /\ heap' = heap
           /\ blocks' = {} /\ status' = "running" =>
                 /\ blocks = {} /\ status = "running"
                 /\ last_ptr' = last_ptr /\ memory' = memory
<1>1. DsmP!Malloc(sz)
  BY DEF Dsm!Malloc, Dsm!Allocate, Dsm!AllocateNothing, Dsm!CanGrow, Dsm!PagesToAlloc,
         Dsm!PageShort, Dsm!NextPage, Dsm!Cursor, Dsm!AlignUp, Dsm!Bytes, Dsm!AddressSpace,
         DsmP!Malloc, DsmP!Allocate, DsmP!AllocateNothing, DsmP!CanGrow, DsmP!PagesToAlloc,
         DsmP!PageShort, DsmP!NextPage, DsmP!Cursor, DsmP!AlignUp, DsmP!Bytes,
         DsmP!AddressSpace
<1>2. DsmP!Next
  BY <1>1 DEF DsmP!Next
<1>3. DsmP!IInv'
  BY <1>2, MemoryAssumed, DsmP!NextIInv
<1>4. QED  BY <1>1, <1>3 DEF DsmP!Malloc, DsmP!Allocate, DsmP!AllocateNothing

\* An allocator that is just constructed is in order.
LEMMA InitAllocator == DsmP!Init => DsmP!IInv
BY MemoryAssumed, DsmP!InitIInv

\* The constructor of _dsmalloc takes the word at address 0 for the start of the
\* heap (malloc.cpp: dsmalloc::dsmalloc).
LEMMA ConstructStarts ==
    ASSUME StartInv, Waiting \/ Started, cell0 = Dsm!AlignUp(heapBase), Construct
    PROVE  Started'
<1>1. /\ stage = "ctors" /\ stage' = "ctors" /\ initFunctions # <<>>
      /\ Head(initFunctions) = Allocator /\ initFunctions' = Tail(initFunctions)
      /\ heap' = Dsm!AlignUp(cell0) /\ last_ptr' = heap' /\ next_page' = memory
      /\ memory' = memory /\ blocks' = blocks /\ freed' = freed /\ status' = status
      /\ heapBase' = heapBase
  BY DEF Construct, linker
<1>2. /\ initFunctions \in Seq(constructed \cap Done) /\ IsInjective(initFunctions)
      /\ heapBase \in HeapBases
  BY <1>1 DEF StartInv, StageOK, CtorsOK
<1>3. Allocator \in ToSet(initFunctions) /\ Allocator \notin ToSet(initFunctions')
  BY <1>1, <1>2, TailOfInjective
<1>4. Waiting
  BY <1>1, <1>3 DEF Started
<1>5. heap' = Dsm!AlignUp(heapBase) /\ heap' = DsmP!AlignUp(heapBase)
  <2>1. DsmP!AlignUp(DsmP!AlignUp(heapBase)) = DsmP!AlignUp(heapBase)
    BY <1>2, MemoryAssumed, DsmP!HeapBaseRounds
  <2>2. \A x : Dsm!AlignUp(x) = DsmP!AlignUp(x)
    BY DEF Dsm!AlignUp, Dsm!AddressSpace, DsmP!AlignUp, DsmP!AddressSpace
  <2>3. QED  BY <1>1, <1>4, <2>1, <2>2
<1>6. memory' = DsmP!LinkedPages(heapBase) /\ memory' = Dsm!LinkedPages(heapBase)
  BY <1>1, <1>4 DEF Waiting, Dsm!LinkedPages, DsmP!LinkedPages
<1>7. DsmP!Init'
  BY <1>1, <1>2, <1>4, <1>5, <1>6 DEF DsmP!Init, DsmP!AlignUp, DsmP!AddressSpace,
                                      DsmP!LinkedPages, Waiting
<1>8. DsmP!IInv'
  <2>1. (DsmP!Init => DsmP!IInv)'
    BY InitAllocator, PTL
  <2>2. QED  BY <1>7, <2>1
<1>9. heap' = Dsm!AlignUp(heapBase') /\ memory' = Dsm!LinkedPages(heapBase')
  BY <1>1, <1>5, <1>6
<1>10. QED
  BY <1>1, <1>3, <1>4, <1>8, <1>9 DEF Started, Waiting, Dsm!AlignUp, Dsm!AddressSpace,
                                      Dsm!LinkedPages

\* A step that does not touch the allocator keeps it as it is, whether constructed
\* or not, provided that it does not skip its constructor.
LEMMA AllocatorKept ==
    ASSUME Waiting \/ Started, UNCHANGED <<mallocVars, heapBase, seen>>,
           stage' = "ctors" =>
               /\ stage = "ctors"
               /\ Allocator \in ToSet(initFunctions') <=> Allocator \in ToSet(initFunctions),
           stage' # "ctors" => stage # "ctors" \/ initFunctions = <<>>
    PROVE  Waiting' \/ Started'
<1>1. /\ Dsm!LinkedPages(heapBase)' = Dsm!LinkedPages(heapBase)
      /\ Dsm!AlignUp(heapBase)' = Dsm!AlignUp(heapBase)
  BY DEF Dsm!LinkedPages, Dsm!AlignUp, Dsm!AddressSpace
<1>2. /\ heap' = heap /\ last_ptr' = last_ptr /\ next_page' = next_page /\ memory' = memory
      /\ blocks' = blocks /\ freed' = freed /\ status' = status /\ seen' = seen
  BY DEF mallocVars
<1>3. CASE Waiting
  <2>1. Allocator \in seen => stage' = "ctors"
    BY <1>3 DEF Waiting, ToSet
  <2>2. QED  BY <1>1, <1>2, <1>3, <2>1 DEF Waiting
<1>4. CASE Started
  <2>1. DsmP!IInv'
    <3>1. UNCHANGED DsmP!vars
      BY <1>2 DEF DsmP!vars
    <3>2. QED  BY <1>4, <3>1, MemoryAssumed, DsmP!NextIInv DEF Started
  <2>2. QED  BY <1>1, <1>2, <1>4, <2>1 DEF Started
<1>5. QED  BY <1>3, <1>4

\* A constructor that allocates runs when the allocator is constructed, if every one
\* that may reaches malloc in time; if not, it may yet allocate nothing.
LEMMA UserConstructKeeps ==
    ASSUME StartInv, Waiting \/ Started, UserConstruct, Sound'
    PROVE  Waiting' \/ Started'
<1>1. /\ stage = "ctors" /\ stage' = "ctors" /\ initFunctions # <<>>
      /\ Head(initFunctions) # Allocator /\ initFunctions' = Tail(initFunctions)
      /\ heapBase' = heapBase /\ seen' = seen
  BY DEF UserConstruct, linker
<1>2. /\ initFunctions \in Seq(constructed \cap Done) /\ IsInjective(initFunctions)
      /\ AllocatorFirst /\ parsing = <<>> /\ queue = <<>>
  BY <1>1 DEF StartInv, StageOK, CtorsOK
<1>3. /\ Head(initFunctions) \in ToSet(initFunctions)
      /\ Head(initFunctions) \in constructed \cap Done
      /\ ToSet(initFunctions') = ToSet(initFunctions) \ {Head(initFunctions)}
  BY <1>1, <1>2, HeadTail, TailOfInjective
<1>4. CASE UNCHANGED mallocVars
  BY <1>1, <1>3, <1>4, AllocatorKept
<1>5. ASSUME NEW sz \in Sizes, Dsm!Malloc(sz), blocks' = {} /\ status' = "running"
      PROVE  Waiting' \/ Started'
  <2>1. UNCHANGED mallocVars
    BY <1>5 DEF Dsm!Malloc, Dsm!Allocate, Dsm!AllocateNothing, mallocVars
  <2>2. QED  BY <1>4, <2>1
<1>6. ASSUME Allocates(Head(initFunctions)), NEW sz \in Sizes, Dsm!Malloc(sz), InTime'
      PROVE  Started'
  <2>0. AllocatesInTime(Head(initFunctions))
    <3>1. /\ constructed' = constructed /\ Done' = Done
          /\ \A f : (Allocates(f)' <=> Allocates(f)) /\ (AllocatesInTime(f)' <=> AllocatesInTime(f))
      BY ProgramKept DEF UserConstruct, StartInv, program, linker, Done
    <3>2. QED  BY <1>3, <1>6, <3>1 DEF InTime
  <2>1. Started
    <3>. SUFFICES ASSUME Waiting PROVE FALSE
      OBVIOUS
    <3>1. Allocator \in seen
      BY <1>2, <1>3, <1>6, ReachesLinked DEF StartInv, Allocates
    <3>2. PICK j \in DOMAIN initFunctions : initFunctions[j] = Allocator
      BY <3>1 DEF Waiting, ToSet
    <3>3. 1 \in DOMAIN initFunctions /\ initFunctions[1] = Head(initFunctions) /\ 1 <= j
      BY <1>1, <1>2, HeadTail
    <3>4. j \in Nat /\ j # 1
      BY <1>1, <1>2, <3>2, <3>3, HeadTail
    <3>5. ~AllocatesInTime(initFunctions[1])
      BY <1>1, <1>2, <3>2, <3>3, <3>4 DEF AllocatorFirst
    <3>6. QED  BY <2>0, <3>3, <3>5
  <2>2. /\ DsmP!IInv' /\ freed' = {} /\ heap' = heap
        /\ blocks' = {} /\ status' = "running" =>
              /\ blocks = {} /\ status = "running"
              /\ last_ptr' = last_ptr /\ memory' = memory
    BY <1>6, <2>1, MallocKeeps DEF Started
  <2>3. QED
    BY <1>1, <1>3, <2>1, <2>2 DEF Started, Dsm!LinkedPages, Dsm!AlignUp, Dsm!AddressSpace
<1>7. QED  BY <1>4, <1>5, <1>6 DEF UserConstruct, Sound

\* What was not allocated after a step was not before it.
LEMMA SoundBefore ==
    ASSUME StartInv, Sound',
           Construct \/ UserConstruct \/ EnterBody \/ Body \/ Return \/ UNCHANGED vars
    PROVE  Sound
<1>1. UNCHANGED <<program, linker>>
  BY DEF Construct, UserConstruct, EnterBody, Body, Return, vars
<1>2. InTime' => InTime
  <2>1. /\ constructed' = constructed /\ Done' = Done
        /\ \A f : (Allocates(f)' <=> Allocates(f)) /\ (AllocatesInTime(f)' <=> AllocatesInTime(f))
    BY <1>1, ProgramKept DEF StartInv, program, linker, Done
  <2>2. QED  BY <2>1 DEF InTime
<1>3. blocks' = {} /\ status' = "running" => blocks = {} /\ status = "running"
  <2>1. CASE UNCHANGED <<blocks, status>>
    BY <2>1
  <2>2. CASE \E sz \in Sizes : Dsm!Malloc(sz)
    BY <2>2 DEF Dsm!Malloc, Dsm!Allocate, Dsm!AllocateNothing
  <2>3. QED
    BY <2>1, <2>2 DEF Construct, UserConstruct, EnterBody, Body, Return, vars, mallocVars
<1>4. QED  BY <1>2, <1>3 DEF Sound

LEMMA NextHeap ==
    ASSUME ~PostPassFails, StartInv, HeapOK, [Next]_vars
    PROVE  HeapOK'
<1>0. ASSUME heapBase' = heapBase
      PROVE  Dsm!AlignUp(heapBase)' = Dsm!AlignUp(heapBase)
  BY <1>0 DEF Dsm!AlignUp, Dsm!AddressSpace
<1>1. CASE AddFile \/ AddLazy \/ Parsed \/ \E m \in Members : Resolve(m)
  BY <1>1 DEF AddFile, AddLazy, Parsed, Resolve, HeapOK
<1>2. CASE \E data \in DataSizes : Layout(data)
  BY <1>2 DEF Layout, HeapOK
<1>3. CASE PostPass
  <2>1. cell0' = Dsm!AlignUp(heapBase) /\ heapBase' = heapBase /\ stage' = "linked"
    BY <1>3 DEF PostPass, HeapPointer, linker
  <2>2. QED  BY <1>0, <2>1 DEF HeapOK
<1>4. CASE EnterApply
  <2>1. stage = "linked" /\ cell0' = cell0 /\ heapBase' = heapBase
    BY <1>4 DEF EnterApply, linker
  <2>2. QED  BY <1>0, <1>4, <2>1, EnterApplyWaits DEF HeapOK
<1>5. CASE Construct
  <2>1. stage = "ctors" /\ cell0' = cell0 /\ heapBase' = heapBase
    BY <1>5 DEF Construct, linker
  <2>2. QED  BY <1>0, <1>5, <2>1, SoundBefore, ConstructStarts DEF HeapOK
<1>6. CASE UserConstruct
  <2>1. stage = "ctors" /\ cell0' = cell0 /\ heapBase' = heapBase
    BY <1>6 DEF UserConstruct, linker
  <2>2. QED  BY <1>0, <1>6, <2>1, SoundBefore, UserConstructKeeps DEF HeapOK
<1>7. CASE EnterBody \/ Return
  <2>1. /\ stage \in {"ctors", "body"} /\ stage' \in {"body", "done"}
        /\ stage = "ctors" => initFunctions = <<>>
        /\ cell0' = cell0 /\ heapBase' = heapBase /\ seen' = seen /\ UNCHANGED mallocVars
    BY <1>7 DEF EnterBody, Return, linker
  <2>2. Sound' => Waiting' \/ Started'
    BY <1>7, <2>1, SoundBefore, AllocatorKept DEF HeapOK
  <2>3. QED  BY <1>0, <2>1, <2>2 DEF HeapOK
<1>8. CASE Body
  <2>1. /\ stage = "body" /\ stage' = "body" /\ Allocator \in seen
        /\ cell0' = cell0 /\ heapBase' = heapBase
    BY <1>8 DEF Body, linker
  <2>2. PICK sz \in Sizes : Dsm!Malloc(sz)
    BY <1>8 DEF Body
  <2>. SUFFICES ASSUME Sound' PROVE Started'
    BY <1>0, <2>1 DEF HeapOK
  <2>3. Started
    BY <1>8, <2>1, SoundBefore DEF HeapOK, Waiting
  <2>4. /\ DsmP!IInv' /\ freed' = {} /\ heap' = heap
        /\ blocks' = {} /\ status' = "running" =>
              /\ blocks = {} /\ status = "running"
              /\ last_ptr' = last_ptr /\ memory' = memory
    BY <2>2, <2>3, MallocKeeps DEF Started
  <2>5. QED  BY <2>1, <2>3, <2>4 DEF Started, Dsm!LinkedPages, Dsm!AlignUp, Dsm!AddressSpace
<1>9. CASE UNCHANGED vars
  <2>1. /\ stage' = stage /\ initFunctions' = initFunctions /\ cell0' = cell0
        /\ heapBase' = heapBase /\ seen' = seen /\ UNCHANGED mallocVars
    BY <1>9 DEF vars, linker
  <2>2. stage \in {"ctors", "body", "done"} /\ Sound' => Waiting' \/ Started'
    BY <1>9, <2>1, SoundBefore, AllocatorKept DEF HeapOK
  <2>3. QED  BY <1>0, <2>1, <2>2 DEF HeapOK
<1>10. QED
  BY <1>1, <1>2, <1>3, <1>4, <1>5, <1>6, <1>7, <1>8, <1>9 DEF Next

-----------------------------------------------------------------------------
(* Theorems *)

LEMMA StartInvariance == Spec => []StartInv
BY InitStart, NextStart, PTL DEF Spec

LEMMA HeapInvariance ==
    ASSUME ~PostPassFails
    PROVE  Spec => [](StartInv /\ HeapOK)
<1>1. Init => HeapOK
  BY DEF Init, HeapOK
<1>2. StartInv /\ HeapOK /\ [Next]_vars => HeapOK'
  BY NextHeap
<1>3. QED  BY <1>1, <1>2, InitStart, NextStart, PTL DEF Spec

\* wasm-ld links every archive member once, in whatever circles the files need
\* each other, and nothing that is needed is left out.
THEOREM LinkedOnceAlways == Spec => []LinkedOnce
<1>1. StartInv => LinkedOnce
  BY DEF StartInv, LinkInv, StageOK, FilesOK, NeedsMet, Done, ToSet, LinkedOnce
<1>2. QED  BY <1>1, StartInvariance, PTL

\* malloc.cpp can rely on its constructor running before any that reaches malloc through
\* libc++, libc and libftl_malloc alone, for every program, number of objects and order
\* of the constructors wasm-ld may choose, and whatever libraries -l adds behind the
\* objects.
THEOREM AllocatorFirstAlways == Spec => []AllocatorFirst
<1>1. StartInv => AllocatorFirst
  BY DEF StartInv, CtorsOK, AllocatorFirst
<1>2. QED  BY <1>1, StartInvariance, PTL

\* Where fractal-pp succeeds, no block of the contract overlaps the stack or the
\* static data of any layout, in every program whose constructors reach malloc through
\* the archives before the objects if they reach it at all.
THEOREM HeapAboveImageAlways ==
    ASSUME ~PostPassFails
    PROVE  Spec => []HeapAboveImage
<1>1. StartInv /\ HeapOK => HeapAboveImage
  <2>. SUFFICES ASSUME StartInv, HeapOK, Sound, NEW b \in blocks
                PROVE  b.base >= heapBase /\ b.base + b.size <= memory * PageSize
    BY DEF HeapAboveImage, Sound, InTime, Done
  <2>1. Started /\ heapBase \in HeapBases
    BY DEF StartInv, StageOK, HeapOK, Waiting
  <2>2. heap = DsmP!AlignUp(heapBase)
    BY <2>1 DEF Started, Dsm!AlignUp, Dsm!AddressSpace, DsmP!AlignUp, DsmP!AddressSpace
  <2>3. heapBase <= heap
    BY <2>1, <2>2, MemoryAssumed, DsmP!HeapBaseRounds
  <2>4. /\ DsmP!TypeOK
        /\ heap <= b.base /\ b.base + b.size <= DsmP!Bytes(memory)
    BY <2>1 DEF Started, DsmP!IInv, DsmP!BlocksInMemory
  <2>5. b.base \in Int /\ heap \in Int /\ heapBase \in Int
    BY <2>1, <2>4, MemoryAssumption DEF DsmP!TypeOK, DsmP!SizeT
  <2>6. QED  BY <2>3, <2>4, <2>5 DEF DsmP!Bytes
<1>2. QED  BY <1>1, HeapInvariance, PTL

\* The allocator the action finds, if nothing has asked it for a block, is that of
\* DsMalloc, of which DsMallocProofs shows that its blocks are in memory and apart.
THEOREM StartsAsDsMallocAlways ==
    ASSUME ~PostPassFails
    PROVE  Spec => []StartsAsDsMalloc
<1>1. StartInv /\ HeapOK => StartsAsDsMalloc
  <2>. SUFFICES ASSUME StartInv, HeapOK, stage = "body", Allocator \in seen,
                       blocks = {}, status = "running"
                PROVE  Dsm!Init
    BY DEF StartsAsDsMalloc
  <2>1. Started /\ heapBase \in HeapBases
    BY DEF StartInv, StageOK, HeapOK, Sound, Waiting
  <2>2. next_page = memory
    BY <2>1 DEF Started, DsmP!IInv, DsmP!Room
  <2>3. QED  BY <2>1, <2>2 DEF Started, Dsm!Init
<1>2. QED  BY <1>1, HeapInvariance, PTL
=============================================================================
