------------------------------ MODULE LibraryProofs ------------------------------
(***************************************************************************)
(* The functions of the library that keep no state: those of Memory for    *)
(* every memory, call and size, the constructor of Address for every       *)
(* length of addresses and every string, the calls of Log, and both codecs *)
(* of Name for every width.                                                *)
(***************************************************************************)
EXTENDS Memory, Address, Log, Name, TLAPS, NaturalsInduction, WellFoundedInduction

-----------------------------------------------------------------------------
(* Induction and recursion *)

\* A set of natural numbers has a least one.
LEMMA LeastNat ==
    ASSUME NEW T, T \subseteq Nat, T # {}
    PROVE  \E x \in T : \A y \in T : x <= y
<1>. DEFINE R == OpToRel(<, Nat)
<1>1. \E x \in T : \A y \in T : ~(<<y, x>> \in R)
  <2>1. IsWellFoundedOn(R, Nat)
    BY NatLessThanWellFounded
  <2>. HIDE DEF R
  <2>2. QED  BY <2>1, WFMin
<1>2. \A x, y \in Nat : y < x => <<y, x>> \in R
  BY DEF OpToRel
<1>. HIDE DEF R
<1>3. PICK x \in T : \A y \in T : ~(<<y, x>> \in R)
  BY <1>1
<1>4. ASSUME NEW y \in T PROVE x <= y
  <2>1. x \in Nat /\ y \in Nat
    OBVIOUS
  <2>2. ~(y < x)
    BY <1>2, <1>3, <2>1
  <2>3. QED  BY <2>1, <2>2
<1>5. QED  BY <1>4

\* A set with 0 and the successors of its elements holds all natural numbers.
LEMMA Induct ==
    ASSUME NEW S, S \subseteq Nat, 0 \in S, \A n \in Nat : n \in S => n + 1 \in S
    PROVE  S = Nat
<1>1. SUFFICES ASSUME Nat \ S # {} PROVE FALSE
  OBVIOUS
<1>. DEFINE T == Nat \ S
<1>2. PICK x \in T : \A y \in T : x <= y
  <2>1. T \subseteq Nat /\ T # {}
    BY <1>1
  <2>. HIDE DEF T
  <2>2. QED  BY <2>1, LeastNat
<1>3. x \in Nat /\ x # 0 /\ x - 1 \in Nat /\ x = (x - 1) + 1 /\ ~(x <= x - 1)
  OBVIOUS
<1>4. x - 1 \in S
  BY <1>2, <1>3
<1>5. QED  BY <1>2, <1>3, <1>4

\* Each of the n functions in G maps X to X.
Closed(n, X, G) == \A k \in 1 .. n : \A x \in X : G[k][x] \in X

\* g starts with z and takes these steps.
Takes(g, n, X, z, G) ==
    g \in [0 .. n -> X] /\ g[0] = z /\ \A k \in 1 .. n : g[k] = G[k][g[k - 1]]

\* A function that is defined by recursion over 0 .. n exists: its values are in X,
\* and G[k] makes the one of k of the one before.
LEMMA Recursion ==
    ASSUME NEW n \in Nat, NEW X, NEW z \in X, NEW G, Closed(n, X, G)
    PROVE  \E g : Takes(g, n, X, z, G)
<1>. USE DEF Takes
<1>. DEFINE Makes(g, m) == Takes(g, m, X, z, G)
            S == {m \in Nat : m <= n => \E g : Makes(g, m)}
<1>1. 0 \in S
  <2>1. Makes([k \in 0 .. 0 |-> z], 0)
    OBVIOUS
  <2>2. QED  BY <2>1
<1>2. ASSUME NEW m \in Nat, m \in S PROVE m + 1 \in S
  <2>1. SUFFICES ASSUME m + 1 <= n PROVE \E g : Makes(g, m + 1)
    OBVIOUS
  <2>2. PICK g : Makes(g, m)
    BY <1>2, <2>1
  <2>. DEFINE more == [k \in 0 .. m + 1 |-> IF k <= m THEN g[k] ELSE G[m + 1][g[m]]]
  <2>3. m \in 0 .. m /\ m + 1 \in 1 .. n /\ m + 1 \in 0 .. m + 1 /\ ~(m + 1 <= m) /\ 0 \in 0 .. m
    BY <2>1
  <2>4. g[m] \in X
    BY <2>2, <2>3
  <2>5. G[m + 1][g[m]] \in X
    BY <2>3, <2>4 DEF Closed
  <2>6. more \in [0 .. m + 1 -> X]
    <3>1. ASSUME NEW k \in 0 .. m + 1, k <= m PROVE g[k] \in X
      <4>1. k \in 0 .. m
        BY <3>1
      <4>2. QED  BY <2>2, <4>1
    <3>2. QED  BY <2>5, <3>1
  <2>7. \A k \in 0 .. m : more[k] = g[k]
    OBVIOUS
  <2>8. more[m + 1] = G[m + 1][g[m]]
    BY <2>3
  <2>. HIDE DEF more
  <2>9. more[0] = z
    BY <2>2, <2>3, <2>7
  <2>10. ASSUME NEW k \in 1 .. m + 1 PROVE more[k] = G[k][more[k - 1]]
    <3>1. k - 1 \in 0 .. m
      OBVIOUS
    <3>2. CASE k = m + 1
      <4>1. k - 1 = m
        BY <3>2
      <4>2. QED  BY <2>3, <2>7, <2>8, <3>2, <4>1
    <3>3. CASE k \in 1 .. m
      <4>1. k \in 0 .. m
        BY <3>3
      <4>2. QED  BY <2>2, <2>7, <3>1, <3>3, <4>1
    <3>4. QED  BY <3>2, <3>3
  <2>11. Makes(more, m + 1)
    BY <2>6, <2>9, <2>10
  <2>12. QED  BY <2>11
<1>3. S \subseteq Nat
  OBVIOUS
<1>4. \E g : Makes(g, n)
  <2>. HIDE DEF S
  <2>1. S = Nat
    BY <1>1, <1>2, <1>3, Induct
  <2>2. QED  BY <2>1 DEF S
<1>5. QED  BY <1>4

-----------------------------------------------------------------------------
(* Memory: one loop invariant for each function, whose conjunction is inductive *)

MemOK ==
    /\ mem \in [Addrs -> Byte] /\ before \in [Addrs -> Byte]
    /\ call \in Calls
    /\ i \in 0 .. call.n
    /\ result \in {-1, 0, 1}
    /\ \/ loops = Loops(call)
       \/ call.f = "memmove" /\ loops = <<Copy(call.p1, call.p3)>>
       \/ loops = <<>>

Kept(area) == \A a \in Addrs \ area : mem[a] = before[a]

CopyInv ==
    call.f = "memcpy" =>
        /\ Kept(Area(call.p1, call.n))
        /\ loops = <<>> => i = call.n
        /\ call.p1 \notin Area(call.p2 + 1, call.n - 1) =>
              \A j \in 0 .. call.n - 1 :
                  /\ j < i => mem[call.p1 + j] = before[call.p2 + j]
                  /\ j >= i => mem[call.p2 + j] = before[call.p2 + j]

MoveInv ==
    call.f = "memmove" =>
        /\ loops = Loops(call) =>
              /\ Kept(Area(call.p3, call.n))
              /\ \A j \in 0 .. i - 1 : mem[call.p3 + j] = before[call.p2 + j]
        /\ loops = <<Copy(call.p1, call.p3)>> =>
              /\ \A j \in 0 .. call.n - 1 : mem[call.p3 + j] = before[call.p2 + j]
              /\ \A j \in 0 .. i - 1 : mem[call.p1 + j] = before[call.p2 + j]
        /\ loops = <<>> =>
              \A j \in 0 .. call.n - 1 : mem[call.p1 + j] = before[call.p2 + j]
        /\ Kept(Area(call.p1, call.n) \cup Area(call.p3, call.n))

SetInv ==
    call.f = "memset" =>
        /\ Kept(Area(call.p1, call.n))
        /\ loops = <<>> => i = call.n
        /\ \A j \in 0 .. i - 1 : mem[call.p1 + j] = call.c % ByteSize

CompareInv ==
    call.f = "memcmp" =>
        /\ mem = before
        /\ loops # <<>> =>
              result = 0 /\ \A j \in 0 .. i - 1 : mem[call.p1 + j] = mem[call.p2 + j]
        /\ Compared

IInv == MemOK /\ CopyInv /\ MoveInv /\ SetInv /\ CompareInv

-----------------------------------------------------------------------------

\* memcpy has already read what it writes over when its target does not lie behind its
\* source (memory.cpp:11-14).
LEMMA NotBehind ==
    ASSUME NEW to \in Nat, NEW from \in Nat, NEW n \in Nat,
           to \notin from + 1 .. from + 1 + (n - 1) - 1,
           NEW j \in 0 .. n - 1, NEW k \in 0 .. n - 1, j > k
    PROVE  from + j # to + k
OBVIOUS

\* A function has one loop or, memmove, two (memory.cpp:17-25).
LEMMA Sequences2 ==
    ASSUME NEW a, NEW b
    PROVE  /\ <<a, b>> # <<>> /\ <<a>> # <<>> /\ <<a, b>> # <<b>>
           /\ Head(<<a, b>>) = a /\ Head(<<a>>) = a
           /\ Tail(<<a, b>>) = <<b>> /\ Tail(<<a>>) = <<>>
<1>1. Len(<<a, b>>) = 2 /\ Len(<<a>>) = 1 /\ Len(<<>>) = 0
  OBVIOUS
<1>2. <<a, b>> # <<>> /\ <<a>> # <<>> /\ <<a, b>> # <<b>>
  BY <1>1
<1>3. Head(<<a, b>>) = a /\ Head(<<a>>) = a
  OBVIOUS
<1>4. Tail(<<a, b>>) = <<b>> /\ Tail(<<a>>) = <<>>
  OBVIOUS
<1>5. QED  BY <1>2, <1>3, <1>4

\* What the caller passes: areas inside memory, memmove's block apart from them (memory.cpp:18).
LEMMA CallTyped ==
    ASSUME NEW k \in Calls
    PROVE  /\ k.f \in {"memset", "memcpy", "memmove", "memcmp"}
           /\ k.p1 \in Nat /\ k.p2 \in Nat /\ k.p3 \in Nat /\ k.n \in Nat /\ k.c \in Int
           /\ \A j \in 0 .. k.n - 1 :
                 k.p1 + j \in Addrs /\ k.p2 + j \in Addrs /\ k.p3 + j \in Addrs
           /\ k.f = "memmove" =>
                 \A j \in 0 .. k.n - 1 : \A l \in 0 .. k.n - 1 :
                     k.p3 + j # k.p1 + l /\ k.p3 + j # k.p2 + l
<1>1. /\ k.f \in {"memset", "memcpy", "memmove", "memcmp"}
      /\ k.p1 \in Nat /\ k.p2 \in Nat /\ k.p3 \in Nat /\ k.n \in Nat /\ k.c \in Int
      /\ Area(k.p1, k.n) \cup Area(k.p2, k.n) \cup Area(k.p3, k.n) \subseteq Addrs
      /\ k.f = "memmove" => Apart(k.p3, k.p1, k.n) /\ Apart(k.p3, k.p2, k.n)
  BY CallsAssumption
<1>2. ASSUME NEW j \in 0 .. k.n - 1
      PROVE  /\ k.p1 + j \in Area(k.p1, k.n) /\ k.p2 + j \in Area(k.p2, k.n)
             /\ k.p3 + j \in Area(k.p3, k.n)
  BY <1>1 DEF Area
<1>3. QED  BY <1>1, <1>2 DEF Apart

\* Which loop runs, for each function.
LEMMA Stages ==
    ASSUME MemOK
    PROVE  /\ Running("copy") =>
                 \/ call.f = "memcpy" /\ loops = <<Copy(call.p1, call.p2)>>
                 \/ call.f = "memmove" /\ loops = <<Copy(call.p3, call.p2), Copy(call.p1, call.p3)>>
                 \/ call.f = "memmove" /\ loops = <<Copy(call.p1, call.p3)>>
           /\ Running("set") =>
                 call.f = "memset" /\ loops = Loops(call) /\ Head(loops).to = call.p1
           /\ Running("compare") =>
                 /\ call.f = "memcmp" /\ loops = Loops(call)
                 /\ Head(loops).to = call.p1 /\ Head(loops).from = call.p2
<1>. call.f \in {"memset", "memcpy", "memmove", "memcmp"}
  BY CallTyped DEF MemOK
<1>1. CASE loops = <<>>
  BY <1>1 DEF Running
<1>2. CASE call.f = "memmove" /\ loops = <<Copy(call.p1, call.p3)>>
  <2>1. Head(loops).does = "copy"
    BY <1>2, Sequences2 DEF Copy
  <2>2. QED  BY <1>2, <2>1 DEF Running
<1>3. CASE loops = Loops(call)
  <2>1. CASE call.f = "memcpy"
    BY <1>3, <2>1, Sequences2 DEF Running, Loops, Copy
  <2>2. CASE call.f = "memmove"
    BY <1>3, <2>2, Sequences2 DEF Running, Loops, Copy
  <2>3. CASE call.f = "memset"
    BY <1>3, <2>3, Sequences2 DEF Running, Loops
  <2>4. CASE call.f = "memcmp"
    BY <1>3, <2>4, Sequences2 DEF Running, Loops
  <2>5. QED  BY <2>1, <2>2, <2>3, <2>4
<1>4. QED  BY <1>1, <1>2, <1>3 DEF MemOK

-----------------------------------------------------------------------------

\* Before the first byte nothing is copied, set or compared.
THEOREM InitInv == Init => IInv
<1>. SUFFICES ASSUME Init PROVE IInv
  OBVIOUS
<1>1. call.f \in {"memset", "memcpy", "memmove", "memcmp"} /\ call.n \in Nat
  BY CallTyped DEF Init
<1>2. loops # <<>> /\ (call.f = "memmove" => loops # <<Copy(call.p1, call.p3)>>)
  <2>1. CASE call.f = "memmove"
    BY <2>1, Sequences2 DEF Init, Loops
  <2>2. CASE call.f # "memmove"
    BY <1>1, <2>2, Sequences2 DEF Init, Loops
  <2>3. QED  BY <2>1, <2>2
<1>3. MemOK
  BY <1>1 DEF Init, MemOK
<1>4. \A a \in Addrs : mem[a] = before[a]
  BY DEF Init
<1>5. 0 .. i - 1 = {} /\ i = 0 /\ mem = before /\ result = 0
  BY DEF Init
<1>6. CopyInv
  <2>. SUFFICES ASSUME call.f = "memcpy" PROVE CopyInv
    BY DEF CopyInv
  <2>1. \A j \in 0 .. call.n - 1 : ~(j < i)
    BY <1>1, <1>5
  <2>2. QED  BY <1>2, <1>4, <1>5, <2>1 DEF CopyInv, Kept
<1>7. MoveInv
  BY <1>2, <1>4, <1>5 DEF MoveInv, Kept
<1>8. SetInv
  BY <1>2, <1>4, <1>5 DEF SetInv, Kept
<1>9. CompareInv
  BY <1>2, <1>5 DEF CompareInv, Compared, Done
<1>10. QED  BY <1>3, <1>6, <1>7, <1>8, <1>9 DEF IInv

\* One assignment of a byte by memcpy or memmove (memory.cpp:11-24).
LEMMA CopyStep == IInv /\ CopyByte => IInv'
<1>. SUFFICES ASSUME IInv, CopyByte PROVE IInv'
  OBVIOUS
<1>. USE DEF IInv
<1>1. /\ call.f \in {"memset", "memcpy", "memmove", "memcmp"}
      /\ call.p1 \in Nat /\ call.p2 \in Nat /\ call.p3 \in Nat /\ call.n \in Nat
      /\ \A j \in 0 .. call.n - 1 :
            call.p1 + j \in Addrs /\ call.p2 + j \in Addrs /\ call.p3 + j \in Addrs
      /\ call.f = "memmove" =>
            \A j \in 0 .. call.n - 1 : \A l \in 0 .. call.n - 1 :
                call.p3 + j # call.p1 + l /\ call.p3 + j # call.p2 + l
  BY CallTyped DEF MemOK
<1>2. /\ i \in 0 .. call.n - 1 /\ i' = i + 1 /\ i' \in 0 .. call.n
      /\ call' = call /\ loops' = loops /\ result' = result /\ before' = before
      /\ mem' = [mem EXCEPT ![To] = mem[From]]
      /\ loops # <<>> /\ Running("copy")
  BY <1>1 DEF CopyByte, Running, MemOK
<1>3. ASSUME NEW to \in Nat, NEW from \in Nat, loops # <<>>, Head(loops) = Copy(to, from),
             to + i \in Addrs, from + i \in Addrs
      PROVE  /\ mem' \in [Addrs -> Byte]
             /\ mem'[to + i] = mem[from + i]
             /\ \A a \in Addrs : a # to + i => mem'[a] = mem[a]
  <2>1. To = to + i /\ From = from + i
    BY <1>3 DEF To, From, Copy
  <2>2. mem \in [Addrs -> Byte]
    BY DEF MemOK
  <2>3. QED  BY <1>2, <1>3, <2>1, <2>2
<1>4. CASE call.f = "memcpy" /\ loops = <<Copy(call.p1, call.p2)>>
  <2>1. /\ mem' \in [Addrs -> Byte]
        /\ mem'[call.p1 + i] = mem[call.p2 + i]
        /\ \A a \in Addrs : a # call.p1 + i => mem'[a] = mem[a]
    BY <1>1, <1>2, <1>3, <1>4, Sequences2
  <2>2. MemOK'
    BY <1>2, <2>1 DEF MemOK
  <2>3. Kept(Area(call.p1, call.n))'
    <3>1. call.p1 + i \in Area(call.p1, call.n)
      BY <1>1, <1>2 DEF Area
    <3>2. QED  BY <1>2, <1>4, <2>1, <3>1 DEF CopyInv, Kept
  <2>4. ASSUME call.p1 \notin Area(call.p2 + 1, call.n - 1), NEW j \in 0 .. call.n - 1
        PROVE  /\ j < i' => mem'[call.p1 + j] = before[call.p2 + j]
               /\ j >= i' => mem'[call.p2 + j] = before[call.p2 + j]
    <3>1. \A l \in 0 .. call.n - 1 :
             /\ l < i => mem[call.p1 + l] = before[call.p2 + l]
             /\ l >= i => mem[call.p2 + l] = before[call.p2 + l]
      BY <1>4, <2>4 DEF CopyInv
    <3>2. CASE j < i
      <4>1. call.p1 + j \in Addrs /\ call.p1 + j # call.p1 + i
        BY <1>1, <1>2, <3>2
      <4>2. QED  BY <1>2, <2>1, <3>1, <3>2, <4>1
    <3>3. CASE j = i
      <4>1. mem[call.p2 + i] = before[call.p2 + i]
        BY <1>2, <3>1
      <4>2. QED  BY <1>2, <2>1, <3>3, <4>1
    <3>4. CASE j > i
      <4>1. call.p2 + j # call.p1 + i
        BY <1>1, <1>2, <2>4, <3>4, NotBehind DEF Area
      <4>2. mem'[call.p2 + j] = mem[call.p2 + j]
        BY <1>1, <2>1, <4>1
      <4>3. mem[call.p2 + j] = before[call.p2 + j]
        BY <1>2, <3>1, <3>4
      <4>4. QED  BY <1>2, <3>4, <4>2, <4>3
    <3>5. QED  BY <1>2, <3>2, <3>3, <3>4
  <2>5. CopyInv'
    BY <1>2, <2>3, <2>4 DEF CopyInv
  <2>6. MoveInv' /\ SetInv' /\ CompareInv'
    BY <1>2, <1>4 DEF MoveInv, SetInv, CompareInv
  <2>7. QED  BY <2>2, <2>5, <2>6
<1>5. CASE call.f = "memmove" /\ loops = <<Copy(call.p3, call.p2), Copy(call.p1, call.p3)>>
  <2>1. /\ mem' \in [Addrs -> Byte]
        /\ mem'[call.p3 + i] = mem[call.p2 + i]
        /\ \A a \in Addrs : a # call.p3 + i => mem'[a] = mem[a]
    BY <1>1, <1>2, <1>3, <1>5, Sequences2
  <2>2. loops = Loops(call) /\ loops # <<Copy(call.p1, call.p3)>>
    BY <1>5, Sequences2 DEF Loops
  <2>3. MemOK'
    BY <1>2, <2>1 DEF MemOK
  <2>4. /\ Kept(Area(call.p3, call.n))
        /\ \A j \in 0 .. i - 1 : mem[call.p3 + j] = before[call.p2 + j]
    BY <1>5, <2>2 DEF MoveInv
  <2>5. call.p3 + i \in Area(call.p3, call.n) /\ call.p2 + i \notin Area(call.p3, call.n)
    <3>1. \A j \in 0 .. call.n - 1 : call.p3 + j # call.p2 + i
      BY <1>1, <1>2, <1>5
    <3>2. \A a \in Area(call.p3, call.n) : a - call.p3 \in 0 .. call.n - 1 /\ a = call.p3 + (a - call.p3)
      BY <1>1 DEF Area
    <3>3. call.p2 + i \notin Area(call.p3, call.n)
      BY <3>1, <3>2
    <3>4. call.p3 + i \in Area(call.p3, call.n)
      BY <1>1, <1>2 DEF Area
    <3>5. QED  BY <3>3, <3>4
  <2>6. Kept(Area(call.p3, call.n))'
    BY <1>2, <2>1, <2>4, <2>5 DEF Kept
  <2>7. ASSUME NEW j \in 0 .. i' - 1
        PROVE  mem'[call.p3 + j] = before[call.p2 + j]
    <3>1. CASE j = i
      <4>1. mem[call.p2 + i] = before[call.p2 + i]
        BY <1>1, <1>2, <2>4, <2>5 DEF Kept
      <4>2. QED  BY <2>1, <3>1, <4>1
    <3>2. CASE j # i
      <4>1. j \in 0 .. i - 1 /\ j \in 0 .. call.n - 1 /\ call.p3 + j # call.p3 + i
        <5>1. call.n \in Nat /\ call.p3 \in Nat /\ i \in 0 .. call.n - 1 /\ j \in 0 .. (i + 1) - 1
          BY <1>1, <1>2
        <5>2. QED  BY <3>2, <5>1
      <4>2. mem'[call.p3 + j] = mem[call.p3 + j]
        <5>1. call.p3 + j \in Addrs
          BY <1>1, <4>1
        <5>2. QED  BY <2>1, <4>1, <5>1
      <4>3. QED  BY <2>4, <4>1, <4>2
    <3>3. QED  BY <3>1, <3>2
  <2>8. Kept(Area(call.p1, call.n) \cup Area(call.p3, call.n))'
    BY <1>2, <2>6 DEF Kept
  <2>9. MoveInv'
    BY <1>2, <2>2, <2>6, <2>7, <2>8 DEF MoveInv
  <2>10. CopyInv' /\ SetInv' /\ CompareInv'
    BY <1>2, <1>5 DEF CopyInv, SetInv, CompareInv
  <2>11. QED  BY <2>3, <2>9, <2>10
<1>6. CASE call.f = "memmove" /\ loops = <<Copy(call.p1, call.p3)>>
  <2>1. /\ mem' \in [Addrs -> Byte]
        /\ mem'[call.p1 + i] = mem[call.p3 + i]
        /\ \A a \in Addrs : a # call.p1 + i => mem'[a] = mem[a]
    BY <1>1, <1>2, <1>3, <1>6, Sequences2
  <2>2. loops # Loops(call)
    BY <1>6, Sequences2 DEF Loops
  <2>3. MemOK'
    BY <1>2, <2>1 DEF MemOK
  <2>4. /\ \A j \in 0 .. call.n - 1 : mem[call.p3 + j] = before[call.p2 + j]
        /\ \A j \in 0 .. i - 1 : mem[call.p1 + j] = before[call.p2 + j]
        /\ Kept(Area(call.p1, call.n) \cup Area(call.p3, call.n))
    BY <1>6 DEF MoveInv
  <2>5. \A j \in 0 .. call.n - 1 : mem'[call.p3 + j] = before[call.p2 + j]
    BY <1>1, <1>2, <1>6, <2>1, <2>4
  <2>6. ASSUME NEW j \in 0 .. i' - 1
        PROVE  mem'[call.p1 + j] = before[call.p2 + j]
    <3>1. CASE j = i
      BY <1>2, <2>1, <2>4, <3>1
    <3>2. CASE j # i
      <4>1. j \in 0 .. i - 1 /\ j \in 0 .. call.n - 1 /\ call.p1 + j # call.p1 + i
        <5>1. call.n \in Nat /\ call.p1 \in Nat /\ i \in 0 .. call.n - 1 /\ j \in 0 .. (i + 1) - 1
          BY <1>1, <1>2
        <5>2. QED  BY <3>2, <5>1
      <4>2. mem'[call.p1 + j] = mem[call.p1 + j]
        <5>1. call.p1 + j \in Addrs
          BY <1>1, <4>1
        <5>2. QED  BY <2>1, <4>1, <5>1
      <4>3. mem[call.p1 + j] = before[call.p2 + j]
        <5>1. \A k \in 0 .. i - 1 : mem[call.p1 + k] = before[call.p2 + k]
          BY <2>4
        <5>2. QED  BY <4>1, <5>1
      <4>4. QED  BY <4>2, <4>3
    <3>3. QED  BY <3>1, <3>2
  <2>7. Kept(Area(call.p1, call.n) \cup Area(call.p3, call.n))'
    <3>1. call.p1 + i \in Area(call.p1, call.n)
      BY <1>1, <1>2 DEF Area
    <3>2. QED  BY <1>2, <2>1, <2>4, <3>1 DEF Kept
  <2>8. MoveInv'
    BY <1>2, <2>2, <2>5, <2>6, <2>7 DEF MoveInv
  <2>9. CopyInv' /\ SetInv' /\ CompareInv'
    BY <1>2, <1>6 DEF CopyInv, SetInv, CompareInv
  <2>10. QED  BY <2>3, <2>8, <2>9
<1>7. QED  BY <1>2, <1>4, <1>5, <1>6, Stages

\* One assignment of a byte by memset (memory.cpp:5-8).
LEMMA SetStep == IInv /\ SetByte => IInv'
<1>. SUFFICES ASSUME IInv, SetByte PROVE IInv'
  OBVIOUS
<1>. USE DEF IInv
<1>1. /\ call.f = "memset" /\ Head(loops).to = call.p1 /\ loops # <<>>
      /\ call.p1 \in Nat /\ call.n \in Nat /\ call.c \in Int
      /\ \A j \in 0 .. call.n - 1 : call.p1 + j \in Addrs
  BY CallTyped, Stages DEF MemOK, SetByte, Running
<1>2. /\ i \in 0 .. call.n - 1 /\ i' = i + 1 /\ i' \in 0 .. call.n
      /\ call' = call /\ loops' = loops /\ result' = result /\ before' = before
      /\ mem' = [mem EXCEPT ![call.p1 + i] = call.c % ByteSize]
  <2>1. i \in 0 .. call.n /\ i < call.n
    BY DEF SetByte, Running, MemOK
  <2>2. i \in 0 .. call.n - 1 /\ i' = i + 1 /\ i' \in 0 .. call.n
    BY <1>1, <2>1 DEF SetByte
  <2>3. To = call.p1 + i
    BY <1>1 DEF To
  <2>4. mem' = [mem EXCEPT ![To] = call.c % ByteSize]
    BY DEF SetByte
  <2>5. call' = call /\ loops' = loops /\ result' = result /\ before' = before
    BY DEF SetByte
  <2>6. QED  BY <2>2, <2>3, <2>4, <2>5
<1>3. call.c % ByteSize \in Byte
  BY <1>1, ByteSizeAssumption DEF Byte
<1>4. /\ mem' \in [Addrs -> Byte]
      /\ mem'[call.p1 + i] = call.c % ByteSize
      /\ \A a \in Addrs : a # call.p1 + i => mem'[a] = mem[a]
  BY <1>1, <1>2, <1>3 DEF MemOK
<1>5. MemOK'
  BY <1>2, <1>4 DEF MemOK
<1>6. Kept(Area(call.p1, call.n))'
  <2>1. call.p1 + i \in Area(call.p1, call.n)
    BY <1>1, <1>2 DEF Area
  <2>2. QED  BY <1>1, <1>2, <1>4, <2>1 DEF SetInv, Kept
<1>7. ASSUME NEW j \in 0 .. i' - 1 PROVE mem'[call.p1 + j] = call.c % ByteSize
  <2>1. CASE j = i
    BY <1>4, <2>1
  <2>2. CASE j # i
    <3>1. j \in 0 .. i - 1 /\ j \in 0 .. call.n - 1 /\ call.p1 + j # call.p1 + i
      BY <1>1, <1>2, <2>2
    <3>2. QED  BY <1>1, <1>4, <3>1 DEF SetInv
  <2>3. QED  BY <2>1, <2>2
<1>8. SetInv'
  BY <1>1, <1>2, <1>6, <1>7 DEF SetInv
<1>9. CopyInv' /\ MoveInv' /\ CompareInv'
  BY <1>1, <1>2 DEF CopyInv, MoveInv, CompareInv
<1>10. QED  BY <1>5, <1>8, <1>9

\* One comparison of memcmp (memory.cpp:29-34).
LEMMA CompareStep == IInv /\ CompareByte => IInv'
<1>. SUFFICES ASSUME IInv, CompareByte PROVE IInv'
  OBVIOUS
<1>. USE DEF IInv
<1>1. /\ call.f = "memcmp" /\ loops # <<>>
      /\ Head(loops).to = call.p1 /\ Head(loops).from = call.p2
      /\ call.p1 \in Nat /\ call.p2 \in Nat /\ call.n \in Nat
      /\ \A j \in 0 .. call.n - 1 : call.p1 + j \in Addrs /\ call.p2 + j \in Addrs
  BY CallTyped, Stages DEF MemOK, CompareByte, Running
<1>2. /\ i \in 0 .. call.n - 1
      /\ call' = call /\ mem' = mem /\ before' = before
      /\ To = call.p1 + i /\ From = call.p2 + i
      /\ mem \in [Addrs -> Byte]
  BY <1>1 DEF CompareByte, Running, MemOK, To, From
<1>3. mem = before /\ result = 0
      /\ \A j \in 0 .. i - 1 : mem[call.p1 + j] = mem[call.p2 + j]
  BY <1>1 DEF CompareInv
<1>4. CopyInv' /\ MoveInv' /\ SetInv'
  BY <1>1, <1>2 DEF CopyInv, MoveInv, SetInv
<1>5. mem[call.p1 + i] \in Int /\ mem[call.p2 + i] \in Int
  BY <1>1, <1>2, ByteSizeAssumption DEF Byte
<1>6. CASE mem[To] < mem[From] /\ result' = -1 /\ loops' = <<>> /\ i' = i
  <2>1. MemOK'
    BY <1>2, <1>6 DEF MemOK
  <2>2. Compared'
    BY <1>2, <1>3, <1>5, <1>6 DEF Compared, Done
  <2>3. CompareInv'
    BY <1>2, <1>3, <1>6, <2>2 DEF CompareInv
  <2>4. QED  BY <1>4, <2>1, <2>3
<1>7. CASE mem[To] > mem[From] /\ result' = 1 /\ loops' = <<>> /\ i' = i
  <2>1. MemOK'
    BY <1>2, <1>7 DEF MemOK
  <2>2. Compared'
    BY <1>2, <1>3, <1>5, <1>7 DEF Compared, Done
  <2>3. CompareInv'
    BY <1>2, <1>3, <1>7, <2>2 DEF CompareInv
  <2>4. QED  BY <1>4, <2>1, <2>3
<1>8. CASE mem[To] = mem[From] /\ i' = i + 1 /\ UNCHANGED <<result, loops>>
  <2>1. MemOK'
    BY <1>1, <1>2, <1>8 DEF MemOK
  <2>2. \A j \in 0 .. i' - 1 : mem'[call.p1 + j] = mem'[call.p2 + j]
    BY SMTT(30), <1>1, <1>2, <1>3, <1>8
  <2>3. CompareInv'
    BY <1>1, <1>2, <1>3, <1>8, <2>2 DEF CompareInv, Compared, Done
  <2>4. QED  BY <1>4, <2>1, <2>3
<1>9. QED  BY <1>6, <1>7, <1>8 DEF CompareByte

\* A loop has run to n: memmove's second one starts, or the function returns.
LEMMA EndStep == IInv /\ EndLoop => IInv'
<1>. SUFFICES ASSUME IInv, EndLoop PROVE IInv'
  OBVIOUS
<1>. USE DEF IInv
<1>1. /\ call.f \in {"memset", "memcpy", "memmove", "memcmp"}
      /\ call.n \in Nat
  BY CallTyped DEF MemOK
<1>2. /\ loops # <<>> /\ i = call.n /\ loops' = Tail(loops)
      /\ call' = call /\ mem' = mem /\ before' = before /\ result' = result
      /\ i' = IF Tail(loops) = <<>> THEN i ELSE 0
  BY DEF EndLoop
<1>3. CASE call.f # "memmove"
  <2>1. loops = Loops(call) /\ loops' = <<>> /\ i' = call.n
    <3>1. loops = Loops(call)
      BY <1>2, <1>3 DEF MemOK
    <3>2. Tail(loops) = <<>>
      <4>1. CASE call.f = "memcpy"
        BY <3>1, <4>1, Sequences2 DEF Loops
      <4>2. CASE call.f = "memset"
        BY <3>1, <4>2, Sequences2 DEF Loops
      <4>3. CASE call.f = "memcmp"
        BY <3>1, <4>3, Sequences2 DEF Loops
      <4>4. QED  BY <1>1, <1>3, <4>1, <4>2, <4>3
    <3>3. QED  BY <1>2, <3>1, <3>2
  <2>2. MemOK'
    BY <1>1, <1>2, <2>1 DEF MemOK
  <2>3. CopyInv' /\ MoveInv' /\ SetInv'
    BY <1>2, <1>3, <2>1 DEF CopyInv, MoveInv, SetInv, Kept
  <2>4. CompareInv'
    BY <1>1, <1>2, <2>1 DEF CompareInv, Compared, Done
  <2>5. QED  BY <2>2, <2>3, <2>4
<1>4. CASE call.f = "memmove" /\ loops = Loops(call)
  <2>1. /\ loops' = <<Copy(call.p1, call.p3)>> /\ loops' # <<>> /\ i' = 0
        /\ loops' # Loops(call)
    BY <1>2, <1>4, Sequences2 DEF Loops
  <2>2. MemOK'
    <3>1. i' \in 0 .. call'.n
      BY <1>1, <1>2, <2>1
    <3>2. call'.f = "memmove" /\ loops' = <<Copy(call'.p1, call'.p3)>>
      BY <1>2, <1>4, <2>1
    <3>3. /\ mem' \in [Addrs -> Byte] /\ before' \in [Addrs -> Byte]
          /\ call' \in Calls /\ result' \in {-1, 0, 1}
      BY <1>2 DEF MemOK
    <3>4. (\/ loops = Loops(call)
           \/ call.f = "memmove" /\ loops = <<Copy(call.p1, call.p3)>>
           \/ loops = <<>>)'
      BY <3>2
    <3>5. QED  BY <3>1, <3>3, <3>4 DEF MemOK
  <2>3. /\ \A j \in 0 .. call.n - 1 : mem[call.p3 + j] = before[call.p2 + j]
        /\ Kept(Area(call.p1, call.n) \cup Area(call.p3, call.n))
    BY <1>2, <1>4 DEF MoveInv
  <2>4. MoveInv'
    BY <1>2, <2>1, <2>3 DEF MoveInv, Kept
  <2>5. CopyInv' /\ SetInv' /\ CompareInv'
    BY <1>2, <1>4 DEF CopyInv, SetInv, CompareInv
  <2>6. QED  BY <2>2, <2>4, <2>5
<1>5. CASE call.f = "memmove" /\ loops = <<Copy(call.p1, call.p3)>>
  <2>1. loops' = <<>> /\ i' = call.n
    BY <1>2, <1>5, Sequences2
  <2>2. MemOK'
    BY <1>1, <1>2, <1>5, <2>1 DEF MemOK
  <2>3. /\ \A j \in 0 .. call.n - 1 : mem[call.p1 + j] = before[call.p2 + j]
        /\ Kept(Area(call.p1, call.n) \cup Area(call.p3, call.n))
    BY <1>2, <1>5 DEF MoveInv
  <2>4. loops' # Loops(call) /\ loops' # <<Copy(call.p1, call.p3)>>
    BY <1>5, <2>1, Sequences2 DEF Loops
  <2>5. MoveInv'
    BY <1>2, <2>1, <2>3, <2>4 DEF MoveInv, Kept
  <2>6. CopyInv' /\ SetInv' /\ CompareInv'
    BY <1>2, <1>5 DEF CopyInv, SetInv, CompareInv
  <2>7. QED  BY <2>2, <2>5, <2>6
<1>6. QED  BY <1>2, <1>3, <1>4, <1>5 DEF MemOK

\* No step of a function breaks the loop invariants.
THEOREM StepInv == IInv /\ [Next]_vars => IInv'
<1>. SUFFICES ASSUME IInv, [Next]_vars PROVE IInv'
  OBVIOUS
<1>1. CASE UNCHANGED vars
  BY <1>1 DEF vars, IInv, MemOK, CopyInv, MoveInv, SetInv, CompareInv, Kept, Compared, Done
<1>2. QED  BY <1>1, CopyStep, SetStep, CompareStep, EndStep DEF Next

\* The loop invariants hold throughout every call of memory.cpp.
THEOREM Invariance == Spec => []IInv
BY InitInv, StepInv, PTL DEF Spec

\* memmove and, where the target does not lie behind the source within it, memcpy
\* leave at p1 what was at p2 (memory.cpp:10-25).
THEOREM MovedAlways == Spec => []Moved
<1>1. IInv => Moved
  <2>. SUFFICES ASSUME IInv, NEW j \in 0 .. call.n - 1,
                       \/ Done("memmove")
                       \/ Done("memcpy") /\ call.p1 \notin Area(call.p2 + 1, call.n - 1)
                PROVE  mem[call.p1 + j] = before[call.p2 + j]
    BY DEF Moved
  <2>1. CASE Done("memmove")
    BY <2>1 DEF IInv, MoveInv, Done
  <2>2. CASE Done("memcpy") /\ call.p1 \notin Area(call.p2 + 1, call.n - 1)
    <3>1. i = call.n /\ j < i
      <4>1. i = call.n
        BY <2>2 DEF IInv, CopyInv, Done
      <4>2. call.n \in Nat
        BY CallTyped DEF IInv, MemOK
      <4>3. QED  BY <4>1, <4>2
    <3>2. QED  BY <2>2, <3>1 DEF IInv, CopyInv, Done
  <2>3. QED  BY <2>1, <2>2
<1>2. QED  BY <1>1, Invariance, PTL

\* memset leaves the byte its int argument is cut to in all of its area, for
\* every int (memory.cpp:4-9).
THEOREM WasSetAlways == Spec => []WasSet
<1>1. IInv => WasSet
  <2>. SUFFICES ASSUME IInv, Done("memset"), NEW a \in Area(call.p1, call.n)
                PROVE  mem[a] = call.c % ByteSize
    BY DEF WasSet
  <2>1. call.p1 \in Nat /\ call.n \in Nat
    BY CallTyped DEF IInv, MemOK
  <2>2. a - call.p1 \in 0 .. call.n - 1 /\ a = call.p1 + (a - call.p1)
    BY <2>1 DEF Area
  <2>3. i = call.n /\ \A j \in 0 .. i - 1 : mem[call.p1 + j] = call.c % ByteSize
    BY DEF IInv, SetInv, Done
  <2>4. QED  BY <2>2, <2>3
<1>2. QED  BY <1>1, Invariance, PTL

\* memcmp orders by the first byte that differs (memory.cpp:26-36).
THEOREM ComparedAlways == Spec => []Compared
<1>1. IInv => Compared
  BY DEF IInv, CompareInv, Compared, Done
<1>2. QED  BY <1>1, Invariance, PTL

\* What the three theorems above say of the functions' results, together.
THEOREM ResultsAlways == Spec => []Results
<1>1. Moved /\ WasSet /\ Compared => Results
  BY DEF Results
<1>2. QED  BY <1>1, MovedAlways, WasSetAlways, ComparedAlways, PTL

\* No function writes outside its target and memmove's own block, at any time.
THEOREM NothingElseWrittenAlways == Spec => []NothingElseWritten
<1>1. IInv => NothingElseWritten
  <2>. SUFFICES ASSUME IInv, NEW a \in Addrs, mem[a] # before[a]
                PROVE  \/ call.f # "memcmp" /\ a \in Area(call.p1, call.n)
                       \/ call.f = "memmove" /\ a \in Area(call.p3, call.n)
    BY DEF NothingElseWritten
  <2>1. call.f \in {"memset", "memcpy", "memmove", "memcmp"}
    BY CallTyped DEF IInv, MemOK
  <2>2. QED  BY <2>1 DEF IInv, CopyInv, MoveInv, SetInv, CompareInv, Kept
<1>2. QED  BY <1>1, Invariance, PTL

-----------------------------------------------------------------------------
(* Address *)

\* v holds what the first k digits are, for every k up to n.
Steps(v, base, digits, n) ==
    v[0] = 0 /\ \A k \in 1 .. n : v[k] = v[k - 1] * base + digits[k]

\* A number is made from its digits one after the other.
LEMMA NumberSteps ==
    ASSUME NEW base, NEW digits, Len(digits) \in Nat
    PROVE  \E v : Number(base, digits) = v[Len(digits)] /\ Steps(v, base, digits, Len(digits))
<1>. DEFINE E(k, v) == v * base + digits[k]
            Solves(g, n) == g = [k \in 0 .. n |-> IF k = 0 THEN 0 ELSE E(k, g[k - 1])]
            S == {n \in Nat : \E g : Solves(g, n)}
            N == Len(digits)
            v == CHOOSE g : Solves(g, N)
<1>1. S = Nat
  <2>. HIDE DEF E
  <2>1. 0 \in S
    <3>. DEFINE g == [k \in 0 .. 0 |-> 0]
    <3>1. Solves(g, 0)
      OBVIOUS
    <3>2. QED  BY <3>1
  <2>2. ASSUME NEW n \in Nat, n \in S PROVE n + 1 \in S
    <3>1. PICK g : Solves(g, n)
      BY <2>2
    <3>. DEFINE gg == [k \in 0 .. n + 1 |-> IF k <= n THEN g[k] ELSE E(n + 1, g[n])]
    <3>2. \A k \in 0 .. n : gg[k] = g[k]
      OBVIOUS
    <3>3. ASSUME NEW k \in 0 .. n + 1
          PROVE  gg[k] = IF k = 0 THEN 0 ELSE E(k, gg[k - 1])
      <4>1. CASE k = 0
        BY <3>1, <3>2, <4>1
      <4>2. CASE k \in 1 .. n
        <5>1. g[k] = E(k, g[k - 1])
          BY <3>1, <4>2
        <5>2. k \in 0 .. n /\ k - 1 \in 0 .. n /\ k # 0
          BY <4>2
        <5>. HIDE DEF gg
        <5>3. QED  BY <3>2, <5>1, <5>2
      <4>3. CASE k = n + 1
        <5>1. gg[k] = E(n + 1, g[n])
          BY <4>3
        <5>2. k - 1 = n /\ n \in 0 .. n /\ k # 0
          BY <4>3
        <5>. HIDE DEF gg
        <5>3. QED  BY <3>2, <4>3, <5>1, <5>2
      <4>4. QED  BY <4>1, <4>2, <4>3
    <3>4. gg = [k \in 0 .. n + 1 |-> gg[k]]
      OBVIOUS
    <3>. HIDE DEF gg
    <3>5. Solves(gg, n + 1)
      BY <3>3, <3>4
    <3>6. QED  BY <3>5
  <2>. HIDE DEF S
  <2>3. S \subseteq Nat
    BY DEF S
  <2>4. QED  BY <2>1, <2>2, <2>3, Induct
<1>2. Number(base, digits) = v[N]
  BY DEF Number
<1>. HIDE DEF E
<1>3. Solves(v, N)
  <2>1. \E g : Solves(g, N)
    BY <1>1
  <2>. HIDE DEF Solves
  <2>2. QED  BY <2>1
<1>4. N \in Nat
  OBVIOUS
<1>. HIDE DEF v, N
<1>5. v[0] = 0 /\ \A k \in 1 .. N : v[k] = E(k, v[k - 1])
  BY <1>3, <1>4
<1>6. Steps(v, base, digits, N)
  BY <1>5 DEF E, Steps
<1>7. QED  BY <1>2, <1>6 DEF N

\* more is less, of n digits, and one more.
OneMore(less, more, n) ==
    /\ Len(less) = n /\ Len(more) = n + 1
    /\ \A k \in 1 .. n : less[k] = more[k] /\ more[k] \in Int

\* One more digit: the number is multiplied by the base and the digit is added.
LEMMA NumberMore ==
    ASSUME NEW base \in Int, NEW n \in Nat, NEW less, NEW more, OneMore(less, more, n)
    PROVE  Number(base, less) \in Int /\ Number(base, more) = Number(base, less) * base + more[n + 1]
<1>0. /\ Len(less) = n /\ Len(more) = n + 1
      /\ \A k \in 1 .. n : less[k] = more[k] /\ more[k] \in Int
  BY DEF OneMore
<1>1. PICK v : Number(base, less) = v[n] /\ Steps(v, base, less, n)
  BY <1>0, NumberSteps
<1>2. PICK w : Number(base, more) = w[n + 1] /\ Steps(w, base, more, n + 1)
  BY <1>0, NumberSteps
<1>. DEFINE S == {k \in Nat : k <= n => v[k] = w[k] /\ v[k] \in Int}
<1>3. S = Nat
  <2>1. 0 \in S
    BY <1>1, <1>2 DEF Steps
  <2>2. ASSUME NEW k \in Nat, k \in S PROVE k + 1 \in S
    <3>1. CASE k + 1 <= n
      <4>1. k + 1 \in 1 .. n /\ k + 1 \in 1 .. n + 1 /\ (k + 1) - 1 = k /\ k <= n
        BY <3>1
      <4>2. v[k] = w[k] /\ v[k] \in Int /\ less[k + 1] = more[k + 1] /\ more[k + 1] \in Int
        BY <1>0, <2>2, <4>1
      <4>3. v[k + 1] = v[k] * base + less[k + 1] /\ w[k + 1] = w[k] * base + more[k + 1]
        BY <1>1, <1>2, <4>1 DEF Steps
      <4>4. v[k] * base + less[k + 1] \in Int
        BY <4>2
      <4>5. QED  BY <4>2, <4>3, <4>4
    <3>2. QED  BY <3>1
  <2>. HIDE DEF S
  <2>3. S \subseteq Nat
    BY DEF S
  <2>4. QED  BY <2>1, <2>2, <2>3, Induct
<1>4. v[n] = w[n] /\ v[n] \in Int
  BY <1>3
<1>5. w[n + 1] = w[n] * base + more[n + 1]
  <2>1. n + 1 \in 1 .. n + 1 /\ (n + 1) - 1 = n
    OBVIOUS
  <2>2. QED  BY <1>2, <2>1 DEF Steps
<1>6. QED  BY <1>1, <1>2, <1>4, <1>5

\* Nothing is 0.
LEMMA NumberNone ==
    ASSUME NEW base, NEW digits, Len(digits) = 0 PROVE Number(base, digits) = 0
<1>1. PICK v : Number(base, digits) = v[0] /\ Steps(v, base, digits, 0)
  BY NumberSteps
<1>2. QED  BY <1>1 DEF Steps

\* char2uint8 is the place of a digit in the alphabet (address.hpp:9-18).
LEMMA CharIsDigit ==
    ASSUME NEW c \in 0 .. 255
    PROVE  Char2uint8(c) = Digit(c) /\ Digit(c) \in 0 .. 15
<1>1. Len(Digits) = 16 /\ Len(UpperDigits) = 6 /\ DOMAIN Digits = 1 .. 16 /\ DOMAIN UpperDigits = 1 .. 6
  BY DEF Digits, UpperDigits
<1>2. \A k \in 1 .. 16 : Digits[k] = IF k <= 10 THEN 47 + k ELSE 86 + k
  BY DEF Digits
<1>3. \A k \in 1 .. 6 : UpperDigits[k] = 64 + k
  BY DEF UpperDigits
<1>4. Contains(Digits, c) <=> c \in 48 .. 57 \/ c \in 97 .. 102
  <2>1. ASSUME c \in 48 .. 57 PROVE Contains(Digits, c)
    <3>1. c - 47 \in 1 .. 16 /\ Digits[c - 47] = c
      BY <1>2, <2>1
    <3>2. QED  BY <1>1, <3>1 DEF Contains
  <2>2. ASSUME c \in 97 .. 102 PROVE Contains(Digits, c)
    <3>1. c - 86 \in 1 .. 16 /\ Digits[c - 86] = c
      BY <1>2, <2>2
    <3>2. QED  BY <1>1, <3>1 DEF Contains
  <2>3. ASSUME Contains(Digits, c) PROVE c \in 48 .. 57 \/ c \in 97 .. 102
    <3>1. PICK k \in 1 .. 16 : Digits[k] = c
      BY <1>1, <2>3 DEF Contains
    <3>2. QED  BY <1>2, <3>1
  <2>4. QED  BY <2>1, <2>2, <2>3
<1>5. Contains(UpperDigits, c) <=> c \in 65 .. 70
  <2>1. ASSUME c \in 65 .. 70 PROVE Contains(UpperDigits, c)
    <3>1. c - 64 \in 1 .. 6 /\ UpperDigits[c - 64] = c
      BY <1>3, <2>1
    <3>2. QED  BY <1>1, <3>1 DEF Contains
  <2>2. ASSUME Contains(UpperDigits, c) PROVE c \in 65 .. 70
    <3>1. PICK k \in 1 .. 6 : UpperDigits[k] = c
      BY <1>1, <2>2 DEF Contains
    <3>2. QED  BY <1>3, <3>1
  <2>3. QED  BY <2>1, <2>2
<1>6. ASSUME NEW digits, NEW k \in DOMAIN digits, digits[k] = c
      PROVE  Place(c, digits) \in DOMAIN digits /\ digits[Place(c, digits)] = c
  BY <1>6 DEF Place
<1>7. CASE c \in 48 .. 57
  <2>1. c - 47 \in 1 .. 16 /\ Digits[c - 47] = c
    BY <1>2, <1>7
  <2>2. Place(c, Digits) \in 1 .. 16 /\ Digits[Place(c, Digits)] = c
    BY <1>1, <1>6, <2>1
  <2>3. Place(c, Digits) = c - 47
    BY <1>2, <1>7, <2>2
  <2>4. QED  BY <1>4, <1>7, <2>3 DEF Digit, Char2uint8
<1>8. CASE c \in 97 .. 102
  <2>1. c - 86 \in 1 .. 16 /\ Digits[c - 86] = c
    BY <1>2, <1>8
  <2>2. Place(c, Digits) \in 1 .. 16 /\ Digits[Place(c, Digits)] = c
    BY <1>1, <1>6, <2>1
  <2>3. Place(c, Digits) = c - 86
    BY <1>2, <1>8, <2>2
  <2>4. QED  BY <1>4, <1>8, <2>3 DEF Digit, Char2uint8
<1>9. CASE c \in 65 .. 70
  <2>1. c - 64 \in 1 .. 6 /\ UpperDigits[c - 64] = c
    BY <1>3, <1>9
  <2>2. Place(c, UpperDigits) \in 1 .. 6 /\ UpperDigits[Place(c, UpperDigits)] = c
    BY <1>1, <1>6, <2>1
  <2>3. Place(c, UpperDigits) = c - 64
    BY <1>3, <1>9, <2>2
  <2>4. QED  BY <1>4, <1>5, <1>9, <2>3 DEF Digit, Char2uint8
<1>10. CASE ~(c \in 48 .. 57 \/ c \in 97 .. 102 \/ c \in 65 .. 70)
  BY <1>4, <1>5, <1>10 DEF Digit, Char2uint8
<1>11. QED  BY <1>7, <1>8, <1>9, <1>10

\* The bytes stored so far, as a number, are the pairs read so far.
Stored == Number(256, [k \in 1 .. idx |-> addr[k - 1]]) = Number(16, [k \in 1 .. p |-> Digit(s[k])])

\* The counter is half of what was read, nothing from it on was written, and the
\* bytes before it are the number that was read; a pair is stored past the address
\* only when the address is full and the pair is there.
AddressInv ==
    /\ Stored
    /\ given \in Strings /\ s \in Skipped(given) /\ s \in Seq(1 .. 255)
    /\ p \in Nat /\ idx \in Nat /\ p = 2 * idx /\ p <= Len(s) /\ idx <= AddrLen
    /\ addr \in [0 .. AddrLen - 1 -> Int]
    /\ \A k \in idx .. AddrLen - 1 : addr[k] = 0
    /\ past \in BOOLEAN /\ (past => More /\ idx = AddrLen)

\* Half of a length.
LEMMA Halves ==
    ASSUME NEW n \in Nat, NEW k \in Nat, 2 * k <= n, ~(2 * k + 2 <= n)
    PROVE  k = n \div 2
OBVIOUS

\* A pair more than there are bytes is one more than half the length.
LEMMA PairTooMany ==
    ASSUME NEW n \in Nat, NEW k \in Nat, 2 * k + 2 <= n
    PROVE  ~(n \div 2 <= k)
OBVIOUS

\* A character of a string is a code.
LEMMA Element ==
    ASSUME NEW T, NEW t \in Seq(T), NEW k \in 1 .. Len(t)
    PROVE  t[k] \in T
OBVIOUS

\* A character counts as an integer.
LEMMA CharTyped ==
    ASSUME NEW c \in Int
    PROVE  Char2uint8(c) \in Int
BY DEF Char2uint8

\* What follows the first two characters of a string.
LEMMA FromThird ==
    ASSUME NEW T, NEW t \in Seq(T), Len(t) >= 2
    PROVE  /\ SubSeq(t, 3, Len(t)) \in Seq(T)
           /\ Len(SubSeq(t, 3, Len(t))) = Len(t) - 2
           /\ \A k \in 1 .. Len(t) - 2 : SubSeq(t, 3, Len(t))[k] = t[k + 2]
<1>. DEFINE r == SubSeq(t, 3, Len(t))
<1>1. Len(t) \in Nat
  OBVIOUS
<1>2. r = [k \in 1 .. Len(t) - 2 |-> t[k + 2]]
  <2>1. (1 + Len(t)) - 3 = Len(t) - 2 /\ \A k \in 1 .. Len(t) - 2 : (k + 3) - 1 = k + 2
    BY <1>1
  <2>2. QED  BY <1>1, <2>1
<1>3. \A k \in 1 .. Len(t) - 2 : t[k + 2] \in T
  <2>1. \A k \in 1 .. Len(t) - 2 : k + 2 \in 1 .. Len(t)
    BY <1>1
  <2>2. QED  BY <2>1, Element
<1>. HIDE DEF r
<1>4. Len(t) - 2 \in Nat
  BY <1>1
<1>5. r \in Seq(T) /\ Len(r) = Len(t) - 2
  BY <1>2, <1>3, <1>4
<1>6. QED  BY <1>2, <1>5 DEF r

\* Before the first pair the address is cleared (address.hpp:28-30).
LEMMA AddressInitInv == AddressInit => AddressInv
<1>. SUFFICES ASSUME AddressInit PROVE AddressInv
  OBVIOUS
<1>1. s \in Seq(1 .. 255) /\ Len(s) \in Nat
  <2>1. given \in Seq(1 .. 255) /\ Behind \subseteq Seq(1 .. 255) /\ s \in Skipped(given)
    BY AddressAssumption DEF AddressInit
  <2>2. CASE Len(given) >= 2
    <3>1. s = SubSeq(given, 3, Len(given))
      BY <2>1, <2>2 DEF Skipped
    <3>2. SubSeq(given, 3, Len(given)) \in Seq(1 .. 255)
      BY <2>1, <2>2, FromThird
    <3>3. s \in Seq(1 .. 255)
      BY <3>1, <3>2
    <3>4. QED  BY <3>3
  <2>3. CASE ~(Len(given) >= 2)
    BY <2>1, <2>3 DEF Skipped
  <2>4. QED  BY <2>2, <2>3
<1>2. Stored
  <2>. DEFINE bytes == [k \in 1 .. idx |-> addr[k - 1]]
              digits == [k \in 1 .. p |-> Digit(s[k])]
  <2>1. Len(bytes) = 0 /\ Len(digits) = 0
    BY DEF AddressInit
  <2>. HIDE DEF bytes, digits
  <2>2. Number(256, bytes) = 0 /\ Number(16, digits) = 0
    BY <2>1, NumberNone
  <2>3. QED  BY <2>2 DEF bytes, digits, Stored
<1>3. AddrLen \in Nat
  BY AddressAssumption
<1>4. past = FALSE /\ p = 0 /\ idx = 0
  BY DEF AddressInit
<1>5. addr \in [0 .. AddrLen - 1 -> Int] /\ \A k \in idx .. AddrLen - 1 : addr[k] = 0
  BY <1>3, <1>4 DEF AddressInit
<1>6. p \in Nat /\ idx \in Nat /\ p = 2 * idx /\ p <= Len(s) /\ idx <= AddrLen
  BY <1>1, <1>3, <1>4
<1>7. QED  BY <1>1, <1>2, <1>4, <1>5, <1>6 DEF AddressInit, AddressInv

\* One turn of the loop (address.hpp:31-38).
LEMMA PairStep ==
    ASSUME AddressInv, ReadPair
    PROVE  AddressInv'
<1>1. /\ s \in Seq(1 .. 255) /\ Len(s) \in Nat /\ AddrLen \in Nat
      /\ s' = s /\ idx' = idx + 1 /\ p' = p + 2 /\ p + 2 <= Len(s)
      /\ p \in Nat /\ idx \in Nat /\ p = 2 * idx
  BY AddressAssumption DEF AddressInv, ReadPair, More
<1>2. idx < AddrLen
  BY DEF ReadPair
<1>3. idx \in 0 .. AddrLen - 1
  BY <1>1, <1>2
<1>4. s[p + 1] \in 0 .. 255 /\ s[p + 2] \in 0 .. 255
  <2>1. p + 1 \in 1 .. Len(s) /\ p + 2 \in 1 .. Len(s)
    <3>1. p \in Nat /\ Len(s) \in Nat /\ p + 2 <= Len(s)
      BY <1>1
    <3>2. QED  BY <3>1
  <2>2. s[p + 1] \in 1 .. 255 /\ s[p + 2] \in 1 .. 255
    BY <1>1, <2>1, Element
  <2>3. QED  BY <2>2
<1>. DEFINE byte == (Char2uint8(s[p + 1]) * 16 + Char2uint8(s[p + 2])) % 256
<1>5. byte \in Int
  <2>1. Char2uint8(s[p + 1]) \in Int /\ Char2uint8(s[p + 2]) \in Int
    BY <1>4, CharTyped
  <2>2. QED  BY <2>1
<1>6. addr' = [addr EXCEPT ![idx] = byte]
  BY DEF ReadPair
<1>. HIDE DEF byte
<1>7. addr' \in [0 .. AddrLen - 1 -> Int]
  BY <1>5, <1>6 DEF AddressInv
<1>8. \A k \in idx' .. AddrLen - 1 : addr'[k] = 0
  BY <1>1, <1>3, <1>6 DEF AddressInv
<1>. DEFINE x == Digit(s[p + 1])
            y == Digit(s[p + 2])
            bytes(n, a) == [k \in 1 .. n |-> a[k - 1]]
            digits(n) == [k \in 1 .. n |-> Digit(s[k])]
<1>9. byte = x * 16 + y /\ x \in Int /\ y \in Int
  <2>1. /\ Char2uint8(s[p + 1]) = x /\ x \in 0 .. 15
        /\ Char2uint8(s[p + 2]) = y /\ y \in 0 .. 15
    BY <1>4, CharIsDigit
  <2>. HIDE DEF x, y
  <2>2. (x * 16 + y) % 256 = x * 16 + y
    BY <2>1
  <2>3. QED  BY <2>1, <2>2 DEF byte
<1>10. ASSUME NEW k \in 1 .. Len(s) PROVE Digit(s[k]) \in Int
  <2>1. s[k] \in 1 .. 255 /\ s[k] \in 0 .. 255
    BY <1>1, Element
  <2>2. Digit(s[k]) \in 0 .. 15
    BY <2>1, CharIsDigit
  <2>3. QED  BY <2>2
<1>. HIDE DEF x, y
<1>11. Number(256, bytes(idx + 1, addr')) = Number(256, bytes(idx, addr)) * 256 + byte
      /\ Number(256, bytes(idx, addr)) \in Int
  <2>. DEFINE less == bytes(idx, addr)
              more == bytes(idx + 1, addr')
  <2>1. Len(less) = idx /\ Len(more) = idx + 1
    BY <1>1
  <2>2. ASSUME NEW k \in 1 .. idx PROVE less[k] = more[k] /\ more[k] \in Int
    <3>1. k - 1 \in 0 .. AddrLen - 1 /\ k - 1 # idx /\ k \in 1 .. idx + 1
      BY <1>1, <1>2
    <3>2. addr'[k - 1] = addr[k - 1] /\ addr[k - 1] \in Int
      BY <1>6, <3>1 DEF AddressInv
    <3>3. QED  BY <3>1, <3>2
  <2>3. more[idx + 1] = byte
    <3>1. idx + 1 \in 1 .. idx + 1 /\ (idx + 1) - 1 = idx
      BY <1>1
    <3>2. addr'[idx] = byte
      BY <1>3, <1>6 DEF AddressInv
    <3>3. QED  BY <3>1, <3>2
  <2>. HIDE DEF less, more
  <2>4. OneMore(less, more, idx) /\ idx \in Nat
    BY <1>1, <2>1, <2>2 DEF OneMore
  <2>5. 256 \in Int
    OBVIOUS
  <2>6. Number(256, less) \in Int /\ Number(256, more) = Number(256, less) * 256 + more[idx + 1]
    BY <2>4, <2>5, NumberMore
  <2>7. QED  BY <2>3, <2>6 DEF less, more
<1>12. ASSUME NEW n \in 0 .. Len(s) - 1
       PROVE  /\ Number(16, digits(n + 1)) = Number(16, digits(n)) * 16 + Digit(s[n + 1])
              /\ Number(16, digits(n)) \in Int
  <2>. DEFINE less == digits(n)
              more == digits(n + 1)
  <2>1. n \in Nat /\ Len(less) = n /\ Len(more) = n + 1
    OBVIOUS
  <2>2. ASSUME NEW k \in 1 .. n PROVE less[k] = more[k] /\ more[k] \in Int
    <3>1. k \in 1 .. n + 1 /\ k \in 1 .. Len(s)
      BY <1>1
    <3>2. QED  BY <1>10, <3>1
  <2>3. more[n + 1] = Digit(s[n + 1])
    OBVIOUS
  <2>. HIDE DEF less, more
  <2>4. OneMore(less, more, n) /\ n \in Nat
    BY <2>1, <2>2 DEF OneMore
  <2>5. 16 \in Int
    OBVIOUS
  <2>6. Number(16, less) \in Int /\ Number(16, more) = Number(16, less) * 16 + more[n + 1]
    BY <2>4, <2>5, NumberMore
  <2>7. QED  BY <2>3, <2>6 DEF less, more
<1>13. Number(256, bytes(idx + 1, addr')) = Number(16, digits(p + 2))
  <2>. DEFINE N == Number(256, bytes(idx, addr))
              M == Number(256, bytes(idx + 1, addr'))
              n0 == Number(16, digits(p))
              n1 == Number(16, digits(p + 1))
              n2 == Number(16, digits(p + 2))
  <2>1. N = n0
    BY DEF AddressInv, Stored
  <2>2. p \in 0 .. Len(s) - 1 /\ p + 1 \in 0 .. Len(s) - 1 /\ (p + 1) + 1 = p + 2
    BY <1>1
  <2>3. n1 = n0 * 16 + x
    BY <1>12, <2>2 DEF x
  <2>4. n2 = n1 * 16 + y
    <3>1. Number(16, digits((p + 1) + 1)) = n1 * 16 + Digit(s[(p + 1) + 1])
      BY <1>12, <2>2
    <3>2. QED  BY <2>2, <3>1 DEF y
  <2>5. M = N * 256 + byte /\ N \in Int
    BY <1>11
  <2>. HIDE DEF N, M, n0, n1, n2
  <2>6. M = n2
    BY <1>9, <2>1, <2>3, <2>4, <2>5
  <2>7. QED  BY <2>6 DEF M, n2
<1>14. Stored'
  BY <1>1, <1>13 DEF Stored
<1>15. given' = given /\ past' = past /\ ~past
  <2>1. past => idx = AddrLen
    BY DEF AddressInv
  <2>2. QED  BY <1>1, <1>2, <2>1 DEF ReadPair
<1>16. given' \in Strings /\ (s \in Skipped(given))' /\ past' \in BOOLEAN
  BY <1>1, <1>15 DEF AddressInv, Skipped
<1>17. idx' <= AddrLen /\ p' \in Nat /\ idx' \in Nat /\ p' = 2 * idx' /\ p' <= Len(s)
  BY <1>1, <1>2
<1>18. QED  BY <1>1, <1>7, <1>8, <1>14, <1>15, <1>16, <1>17 DEF AddressInv

\* The pair for which there is no byte left.
LEMMA PastStep ==
    ASSUME AddressInv, StorePast
    PROVE  AddressInv'
<1>1. s' = s /\ idx' = idx /\ p' = p /\ addr' = addr /\ given' = given /\ past' = TRUE
  BY DEF StorePast
<1>2. Stored' /\ More'
  BY <1>1 DEF AddressInv, Stored, StorePast, More
<1>3. idx = AddrLen
  BY AddressAssumption DEF AddressInv, StorePast
<1>4. QED  BY <1>1, <1>2, <1>3 DEF AddressInv, Skipped

\* The invariant holds throughout the constructor.
THEOREM AddressInvariance == AddressSpec => []AddressInv
<1>1. AddressInv /\ [AddressNext]_addressVars => AddressInv'
  <2>1. ASSUME AddressInv, UNCHANGED addressVars PROVE AddressInv'
    BY <2>1 DEF addressVars, AddressInv, Stored, Skipped, More
  <2>2. QED  BY <2>1, PairStep, PastStep DEF AddressNext
<1>2. QED  BY <1>1, AddressInitInv, PTL DEF AddressSpec

\* The string that is read, when it has the two characters that are skipped.
LEMMA RestOfGiven ==
    ASSUME AddressInv, Len(given) >= 2
    PROVE  /\ Len(s) = Len(given) - 2 /\ Len(s) \in Nat
           /\ \A k \in 1 .. Len(s) : s[k] = given[k + 2]
<1>1. given \in Seq(1 .. 255) /\ s = SubSeq(given, 3, Len(given)) /\ s \in Seq(1 .. 255)
  BY AddressAssumption DEF AddressInv, Skipped
<1>2. /\ Len(SubSeq(given, 3, Len(given))) = Len(given) - 2
      /\ \A k \in 1 .. Len(given) - 2 : SubSeq(given, 3, Len(given))[k] = given[k + 2]
  BY <1>1, FromThird
<1>3. Len(s) \in Nat
  BY <1>1
<1>4. QED  BY <1>1, <1>2, <1>3

\* A string of two characters and up to AddrLen pairs writes no byte outside the
\* address, though the loop does not look at its index (address.hpp:31-37).
THEOREM WritesInsideAlways == AddressSpec => []WritesInside
<1>1. AddressInv => WritesInside
  <2>. SUFFICES ASSUME AddressInv, Fits, past PROVE FALSE
    BY DEF WritesInside, AddressInv
  <2>1. Len(s) = Len(given) - 2 /\ Len(s) \in Nat
    BY RestOfGiven DEF Fits
  <2>2. idx \in Nat /\ 2 * idx + 2 <= Len(s) /\ idx = AddrLen
    BY DEF AddressInv, More
  <2>3. ~(Len(s) \div 2 <= idx)
    BY <2>1, <2>2, PairTooMany
  <2>4. QED  BY <2>1, <2>2, <2>3 DEF Fits
<1>2. QED  BY <1>1, AddressInvariance, PTL

\* The loop comes to an end inside the address for the strings that fit and for no
\* others; they leave the rest of it 0, and an odd digit is all that is not read.
THEOREM EndsInsideAlways == AddressSpec => []EndsInside
<1>1. AddressInv => EndsInside
  <2>. SUFFICES ASSUME AddressInv, Len(given) >= 2, ~More
                PROVE  Fits /\ idx = (Len(given) - 2) \div 2 /\ \A k \in idx .. AddrLen - 1 : addr[k] = 0
    BY DEF EndsInside
  <2>1. Len(s) = Len(given) - 2 /\ Len(s) \in Nat
    BY RestOfGiven
  <2>2. idx \in Nat /\ 2 * idx <= Len(s) /\ ~(2 * idx + 2 <= Len(s)) /\ idx <= AddrLen
    BY DEF AddressInv, More
  <2>3. idx = Len(s) \div 2
    BY <2>1, <2>2, Halves
  <2>4. idx = (Len(given) - 2) \div 2
    BY <2>1, <2>3
  <2>5. QED  BY <2>2, <2>4 DEF AddressInv, Fits
<1>2. QED  BY <1>1, AddressInvariance, PTL

\* The bytes of the address are the number that the string is in base 16, whichever
\* digits and other characters it has.
THEOREM ReadsNumberAlways == AddressSpec => []ReadsNumber
<1>1. AddressInv => ReadsNumber
  <2>. SUFFICES ASSUME AddressInv, Len(given) >= 2
                PROVE  Number(256, [k \in 1 .. idx |-> addr[k - 1]])
                           = Number(16, [k \in 1 .. 2 * idx |-> Digit(given[k + 2])])
    BY DEF ReadsNumber
  <2>1. Len(s) \in Nat /\ \A k \in 1 .. Len(s) : s[k] = given[k + 2]
    BY RestOfGiven
  <2>2. p = 2 * idx /\ p \in Nat /\ p <= Len(s)
    BY DEF AddressInv
  <2>3. [k \in 1 .. p |-> Digit(s[k])] = [k \in 1 .. p |-> Digit(given[k + 2])]
    <3>1. \A k \in 1 .. p : k \in 1 .. Len(s)
      BY <2>1, <2>2
    <3>2. QED  BY <2>1, <3>1
  <2>4. Stored
    BY DEF AddressInv
  <2>5. QED  BY <2>2, <2>3, <2>4 DEF Stored
<1>2. QED  BY <1>1, AddressInvariance, PTL

\* Both of WritesInside and EndsInside together: the constructor of address stays in
\* the address for exactly the strings that fit.
THEOREM StaysInsideAlways == AddressSpec => []StaysInside
<1>1. WritesInside /\ EndsInside => StaysInside
  BY DEF StaysInside
<1>2. QED  BY <1>1, WritesInsideAlways, EndsInsideAlways, PTL

-----------------------------------------------------------------------------
(* Log *)

\* The name and the arguments.
All == <<toLog.name>> \o toLog.args

\* The blocks lie in the order of the hashes: the data, then for each value the
\* buffer it was serialised to, freed if malloc gave it, and its hash.
Laid ==
    /\ blocks[1] = Buffer(toLog.data)
    /\ \A k \in 1 .. Len(hashes) :
          /\ blocks[2 * k] = IF All[k] \in Large THEN Freed(Buffer(All[k])) ELSE Buffer(All[k])
          /\ blocks[2 * k + 1] = Block(Hash(All[k]), TRUE)

Placed ==
    /\ hashes \in Seq(Nat) /\ Len(hashes) <= Len(toLog.args) + 1
    /\ \E T : blocks \in Seq(T)
    /\ Len(blocks) = 2 * Len(hashes) + 1 /\ buffer = 1
    /\ \A k \in 1 .. Len(hashes) : hashes[k] = 2 * k + 1

Handed ==
    Len(toLog.args) <= MaxTopics =>
        entry = [data |-> toLog.data, topics |-> [k \in 1 .. Len(toLog.args) + 1 |-> Hash(All[k])]]

LogInv ==
    /\ toLog \in LogCalls
    /\ pc \in {"data", "hash", "emit", "free", "done", "stopped"}
    /\ pc = "data" => blocks = <<>> /\ hashes = <<>>
    /\ pc \in {"hash", "emit", "free"} => Placed /\ Laid
    /\ pc = "hash" => Len(hashes) <= Len(toLog.args)
    /\ pc \in {"emit", "free"} => Len(hashes) = Len(toLog.args) + 1
    /\ pc \in {"free", "done"} => Handed
    /\ FreedOnce

\* Two more elements.
LEMMA TwoMore ==
    ASSUME NEW T, NEW t \in Seq(T), NEW a, NEW b
    PROVE  LET u == t \o <<a, b>>
           IN  /\ u \in Seq(T \cup {a, b}) /\ Len(u) = Len(t) + 2
               /\ \A k \in 1 .. Len(t) : u[k] = t[k]
               /\ u[Len(t) + 1] = a /\ u[Len(t) + 2] = b
<1>1. t \in Seq(T \cup {a, b}) /\ <<a, b>> \in Seq(T \cup {a, b}) /\ Len(<<a, b>>) = 2
  <2>1. t \in Seq(T \cup {a, b})
    OBVIOUS
  <2>2. a \in T \cup {a, b} /\ b \in T \cup {a, b}
    OBVIOUS
  <2>3. QED  BY <2>1, <2>2
<1>. DEFINE ab == <<a, b>>
<1>2. ab[1] = a /\ ab[2] = b
  OBVIOUS
<1>. HIDE DEF ab
<1>3. \A k \in 1 .. Len(t) + Len(ab) :
         (t \o ab)[k] = IF k <= Len(t) THEN t[k] ELSE ab[k - Len(t)]
  BY <1>1 DEF ab
<1>4. t \o ab \in Seq(T \cup {a, b}) /\ Len(t \o ab) = Len(t) + 2
  BY <1>1 DEF ab
<1>5. Len(t) \in Nat /\ Len(ab) = 2
  BY <1>1 DEF ab
<1>. DEFINE n == Len(t)
<1>. HIDE DEF n
<1>6. (t \o ab)[n + 1] = a /\ (t \o ab)[n + 2] = b
  <2>1. n + 1 \in 1 .. n + 2 /\ n + 2 \in 1 .. n + 2 /\ (n + 1) - n = 1 /\ (n + 2) - n = 2
        /\ ~(n + 1 <= n) /\ ~(n + 2 <= n)
    BY <1>5 DEF n
  <2>2. QED  BY <1>2, <1>3, <1>5, <2>1 DEF n
<1>7. \A k \in 1 .. Len(t) : (t \o ab)[k] = t[k]
  BY <1>3, <1>5
<1>8. QED  BY <1>4, <1>6, <1>7 DEF ab, n

\* What is known of a call.
LEMMA LogTyped ==
    ASSUME toLog \in LogCalls
    PROVE  /\ toLog.args \in Seq(Values) /\ Len(toLog.args) \in Nat
           /\ All \in Seq(Values) /\ Len(All) = Len(toLog.args) + 1
<1>1. toLog.args \in Seq(Values) /\ toLog.name \in Values
  BY LogAssumption
<1>2. <<toLog.name>> \in Seq(Values) /\ Len(<<toLog.name>>) = 1
  BY <1>1
<1>. DEFINE a == toLog.args
            b == <<toLog.name>>
<1>. HIDE DEF a, b
<1>3. b \o a \in Seq(Values) /\ Len(b \o a) = Len(b) + Len(a) /\ Len(a) \in Nat
  BY <1>1, <1>2 DEF a, b
<1>4. QED  BY <1>1, <1>2, <1>3 DEF All, a, b

LEMMA LogInitInv == LogInit => LogInv
  BY DEF LogInit, LogInv, FreedOnce

LEMMA PackStep == ASSUME LogInv, Pack PROVE LogInv'
<1>1. /\ toLog \in LogCalls /\ toLog' = toLog /\ pc' = "hash" /\ hashes = <<>> /\ hashes' = hashes
      /\ blocks' = <<Buffer(toLog.data)>> /\ buffer' = 1
  BY DEF LogInv, Pack
<1>2. Len(toLog.args) \in Nat
  BY <1>1, LogTyped
<1>3. hashes' \in Seq(Nat) /\ Len(hashes') = 0
  BY <1>1
<1>4. blocks' \in Seq({Buffer(toLog.data)}) /\ Len(blocks') = 1 /\ blocks'[1] = Buffer(toLog.data)
  <2>. DEFINE b == Buffer(toLog.data)
  <2>. HIDE DEF b
  <2>1. <<b>> \in Seq({b}) /\ Len(<<b>>) = 1 /\ <<b>>[1] = b
    OBVIOUS
  <2>2. QED  BY <1>1, <2>1 DEF b
<1>5. Placed'
  <2>1. \A k \in 1 .. Len(hashes') : hashes'[k] = 2 * k + 1
    BY <1>3
  <2>2. Len(hashes') <= Len(toLog.args) + 1 /\ Len(blocks') = 2 * Len(hashes') + 1
    BY <1>2, <1>3, <1>4
  <2>3. QED  BY <1>1, <1>3, <1>4, <2>1, <2>2 DEF Placed
<1>6. Laid'
  BY <1>1, <1>3, <1>4 DEF Laid, Buffer, Block
<1>7. QED  BY <1>1, <1>2, <1>3, <1>5, <1>6 DEF LogInv, FreedOnce

LEMMA LogHashStep == ASSUME LogInv, LogHash PROVE LogInv'
<1>. DEFINE n == Len(hashes)
            v == Hashed
            a == IF v \in Large THEN Freed(Buffer(v)) ELSE Buffer(v)
            b == Block(Hash(v), TRUE)
<1>1. /\ toLog \in LogCalls /\ toLog' = toLog /\ buffer' = buffer
      /\ Placed /\ Laid /\ n <= Len(toLog.args)
      /\ blocks' = blocks \o <<a, b>> /\ hashes' = Append(hashes, Len(blocks'))
      /\ pc' = After(Len(hashes'))
  BY DEF LogInv, LogHash
<1>2. Len(toLog.args) \in Nat /\ n \in Nat /\ v = All[n + 1] /\ Len(blocks) = 2 * n + 1
  BY <1>1, LogTyped DEF Placed, Hashed, All
<1>3. PICK T : blocks \in Seq(T)
  BY <1>1 DEF Placed
<1>. HIDE DEF v, a, b
<1>4. /\ blocks' \in Seq(T \cup {a, b}) /\ Len(blocks') = 2 * n + 3
      /\ \A k \in 1 .. 2 * n + 1 : blocks'[k] = blocks[k]
      /\ blocks'[2 * n + 2] = a /\ blocks'[2 * n + 3] = b
  <2>1. LET u == blocks \o <<a, b>>
        IN  /\ u \in Seq(T \cup {a, b}) /\ Len(u) = Len(blocks) + 2
            /\ \A k \in 1 .. Len(blocks) : u[k] = blocks[k]
            /\ u[Len(blocks) + 1] = a /\ u[Len(blocks) + 2] = b
    BY <1>3, TwoMore
  <2>2. (2 * n + 1) + 2 = 2 * n + 3 /\ (2 * n + 1) + 1 = 2 * n + 2
    BY <1>2
  <2>3. QED  BY <1>1, <1>2, <2>1, <2>2
<1>5. /\ hashes' \in Seq(Nat) /\ Len(hashes') = n + 1
      /\ hashes'[n + 1] = 2 * (n + 1) + 1 /\ \A k \in 1 .. n : hashes'[k] = hashes[k]
  <2>. DEFINE x == 2 * n + 3
  <2>1. hashes \in Seq(Nat) /\ x \in Nat /\ hashes' = Append(hashes, x) /\ x = 2 * (n + 1) + 1
    BY <1>1, <1>2, <1>4 DEF Placed
  <2>. HIDE DEF x
  <2>2. /\ Append(hashes, x) \in Seq(Nat) /\ Len(Append(hashes, x)) = Len(hashes) + 1
        /\ Append(hashes, x)[Len(hashes) + 1] = x
        /\ \A k \in 1 .. Len(hashes) : Append(hashes, x)[k] = hashes[k]
    BY <2>1
  <2>3. QED  BY <2>1, <2>2
<1>. HIDE DEF n
<1>6. Placed'
  <2>1. \A k \in 1 .. n + 1 : hashes'[k] = 2 * k + 1
    <3>1. \A k \in 1 .. n : hashes[k] = 2 * k + 1
      BY <1>1 DEF Placed, n
    <3>2. \A k \in 1 .. n + 1 : k = n + 1 \/ k \in 1 .. n
      BY <1>2
    <3>3. QED  BY <1>5, <3>1, <3>2
  <2>2. Len(blocks') = 2 * (n + 1) + 1 /\ n + 1 <= Len(toLog.args) + 1
    BY <1>1, <1>2, <1>4
  <2>3. buffer' = 1
    BY <1>1 DEF Placed
  <2>4. QED  BY <1>1, <1>4, <1>5, <2>1, <2>2, <2>3 DEF Placed
<1>7. Laid'
  <2>1. All' = All
    BY <1>1 DEF All
  <2>2. blocks'[1] = Buffer(toLog.data)
    <3>1. 1 \in 1 .. 2 * n + 1
      BY <1>2
    <3>2. QED  BY <1>1, <1>4, <3>1 DEF Laid
  <2>3. ASSUME NEW k \in 1 .. n + 1
        PROVE  /\ blocks'[2 * k] = IF All[k] \in Large THEN Freed(Buffer(All[k])) ELSE Buffer(All[k])
               /\ blocks'[2 * k + 1] = Block(Hash(All[k]), TRUE)
    <3>1. CASE k = n + 1
      <4>1. 2 * k = 2 * n + 2 /\ 2 * k + 1 = 2 * n + 3
        BY <1>2, <3>1
      <4>2. QED  BY <1>2, <1>4, <3>1, <4>1 DEF a, b
    <3>2. CASE k # n + 1
      <4>1. k \in 1 .. n /\ 2 * k \in 1 .. 2 * n + 1 /\ 2 * k + 1 \in 1 .. 2 * n + 1
        BY <1>2, <3>2
      <4>2. QED  BY <1>1, <1>4, <4>1 DEF Laid, n
    <3>3. QED  BY <3>1, <3>2
  <2>4. QED  BY <1>1, <1>5, <2>1, <2>2, <2>3 DEF Laid, Buffer, Block
<1>8. /\ pc' \in {"hash", "emit"}
      /\ pc' = "hash" => Len(hashes') <= Len(toLog.args)
      /\ pc' = "emit" => Len(hashes') = Len(toLog.args) + 1
  BY <1>1, <1>2, <1>5 DEF After
<1>9. QED  BY <1>1, <1>6, <1>7, <1>8 DEF LogInv, FreedOnce

LEMMA EmitStep == ASSUME LogInv, Emit PROVE LogInv'
<1>. DEFINE n == Len(hashes)
<1>1. /\ toLog \in LogCalls /\ Placed /\ Laid /\ n = Len(toLog.args) + 1
      /\ pc' = "free" /\ UNCHANGED <<toLog, blocks, buffer, hashes>>
  BY DEF LogInv, Emit
<1>2. n \in Nat /\ DOMAIN hashes = 1 .. n /\ Len(toLog.args) \in Nat /\ buffer = 1
  BY <1>1, LogTyped DEF Placed
<1>3. Handed'
  <2>. SUFFICES ASSUME Len(toLog.args) <= MaxTopics
                PROVE  entry' = [data |-> toLog.data, topics |-> [k \in 1 .. n |-> Hash(All[k])]]
    BY <1>1 DEF Handed, All
  <2>1. entry' = [data |-> Read(buffer), topics |-> [k \in 1 .. n |-> Read(hashes[k])]]
    <3>1. ~(Len(toLog.args) > MaxTopics)
      BY <1>2, LogAssumption
    <3>2. QED  BY <1>2, <3>1 DEF Emit
  <2>2. Read(buffer) = toLog.data
    BY <1>1, <1>2 DEF Laid, Read, Buffer, Block
  <2>3. ASSUME NEW k \in 1 .. n PROVE Read(hashes[k]) = Hash(All[k])
    <3>1. hashes[k] = 2 * k + 1 /\ blocks[2 * k + 1] = Block(Hash(All[k]), TRUE)
      BY <1>1 DEF Placed, Laid
    <3>2. QED  BY <3>1 DEF Read, Block
  <2>. HIDE DEF n
  <2>4. QED  BY <2>1, <2>2, <2>3
<1>4. Placed' /\ Laid' /\ Len(hashes') = Len(toLog'.args) + 1
  BY <1>1 DEF Placed, Laid, All, Buffer, Block
<1>5. QED  BY <1>1, <1>3, <1>4 DEF LogInv, FreedOnce

LEMMA FreeStep == ASSUME LogInv, Free PROVE LogInv'
<1>. DEFINE n == Len(hashes)
<1>1. /\ toLog \in LogCalls /\ Placed /\ Laid /\ Handed
      /\ pc' = "done" /\ UNCHANGED <<toLog, buffer, hashes, entry>>
      /\ blocks' = [a \in DOMAIN blocks |->
                      IF a = buffer \/ \E k \in DOMAIN hashes : hashes[k] = a
                      THEN Freed(blocks[a]) ELSE blocks[a]]
  BY DEF LogInv, Free
<1>2. n \in Nat /\ DOMAIN hashes = 1 .. n /\ DOMAIN blocks = 1 .. 2 * n + 1 /\ buffer = 1
  BY <1>1 DEF Placed
<1>. HIDE DEF n
<1>3. ASSUME NEW a \in DOMAIN blocks', blocks'[a].heap PROVE blocks'[a].frees = 1
  <2>1. a \in 1 .. 2 * n + 1
    BY <1>1, <1>2
  <2>2. CASE a = 1
    <3>1. blocks'[a] = Freed(Buffer(toLog.data))
      BY <1>1, <1>2, <2>1, <2>2 DEF Laid
    <3>2. QED  BY <3>1 DEF Freed, Buffer, Block
  <2>3. ASSUME NEW k \in 1 .. n, a = 2 * k + 1 PROVE blocks'[a].frees = 1
    <3>1. hashes[k] = a /\ blocks[a] = Block(Hash(All[k]), TRUE)
      BY <1>1, <2>3 DEF Placed, Laid, n
    <3>2. blocks'[a] = Freed(blocks[a])
      BY <1>1, <1>2, <2>1, <3>1
    <3>3. QED  BY <3>1, <3>2 DEF Freed, Block
  <2>4. ASSUME NEW k \in 1 .. n, a = 2 * k PROVE blocks'[a].frees = 1
    <3>1. a # buffer /\ \A j \in 1 .. n : hashes[j] # a
      <4>1. \A j \in 1 .. n : hashes[j] = 2 * j + 1
        BY <1>1 DEF Placed, n
      <4>2. QED  BY <1>2, <2>4, <4>1
    <3>2. blocks'[a] = blocks[a]
      BY <1>1, <1>2, <2>1, <3>1
    <3>3. blocks[a] = IF All[k] \in Large THEN Freed(Buffer(All[k])) ELSE Buffer(All[k])
      BY <1>1, <2>4 DEF Laid, n
    <3>4. CASE All[k] \in Large
      BY <3>2, <3>3, <3>4 DEF Freed, Buffer, Block
    <3>5. CASE All[k] \notin Large
      <4>1. blocks'[a] = Buffer(All[k])
        BY <3>2, <3>3, <3>5
      <4>2. Buffer(All[k]).heap = (All[k] \in Large)
        BY DEF Buffer, Block
      <4>3. QED  BY <1>3, <3>5, <4>1, <4>2, Zenon
    <3>6. QED  BY <3>4, <3>5
  <2>5. a = 1 \/ \E k \in 1 .. n : a = 2 * k \/ a = 2 * k + 1
    <3>1. a # 1 => a \div 2 \in 1 .. n /\ (a = 2 * (a \div 2) \/ a = 2 * (a \div 2) + 1)
      BY <1>2, <2>1
    <3>2. QED  BY <3>1
  <2>6. QED  BY <2>2, <2>3, <2>4, <2>5
<1>4. Handed'
  BY <1>1 DEF Handed, All
<1>5. QED  BY <1>1, <1>3, <1>4 DEF LogInv, FreedOnce

\* The invariant holds throughout a call of log.
LEMMA LogInvariance == LogSpec => []LogInv
<1>1. ASSUME LogInv, NoMemory PROVE LogInv'
  BY <1>1 DEF LogInv, NoMemory, FreedOnce
<1>2. ASSUME LogInv, UNCHANGED logVars PROVE LogInv'
  BY <1>2 DEF LogInv, logVars, Placed, Laid, Handed, FreedOnce, All, Buffer, Block
<1>3. LogInv /\ [LogNext]_logVars => LogInv'
  BY <1>1, <1>2, PackStep, LogHashStep, EmitStep, FreeStep DEF LogNext
<1>4. QED  BY <1>3, LogInitInv, PTL DEF LogSpec

\* For every call, the node is handed the data and the hashes of the name and the
\* arguments in their order, and each block of the heap is freed once.
THEOREM LogsCleanlyAlways == LogSpec => []LogsCleanly
<1>1. LogInv => LogsCleanly
  BY DEF LogInv, LogsCleanly, Logged, Handed, All
<1>2. QED  BY <1>1, LogInvariance, PTL

-----------------------------------------------------------------------------
(* Name: its characters are the digits of its value *)

\* Powers of two, up to the width of a name.
LEMMA Widths ==
    /\ Width \in Nat /\ LastBits \in Nat /\ CharBits \in Nat /\ FullChars \in Nat
    /\ LastBits >= 1 /\ LastBits = CharBits - 1 /\ FullChars >= 1 /\ Chars = FullChars + 1
    /\ \A k \in 0 .. FullChars :
          /\ CharBits * k \in 0 .. Width /\ Width - CharBits * k \in 0 .. Width
          /\ CharBits * k <= CharBits * FullChars
          /\ CharBits * (FullChars - k) \in Nat
          /\ LastBits + CharBits * (FullChars - k) = Width - CharBits * k
    /\ CharBits <= Width /\ LastBits <= Width
<1>1. /\ LastBits \in Nat /\ CharBits \in Nat /\ FullChars \in Nat
      /\ LastBits >= 1 /\ LastBits = CharBits - 1 /\ FullChars >= 1 /\ Chars = FullChars + 1
  BY NameAssumption DEF LastBits, Chars
<1>2. CharBits * FullChars \in Nat
  BY <1>1
<1>3. Width = CharBits * FullChars + LastBits
  BY DEF Width
<1>4. ASSUME NEW k \in 0 .. FullChars
      PROVE  /\ CharBits * k \in Nat /\ CharBits * (FullChars - k) \in Nat
             /\ CharBits * k + CharBits * (FullChars - k) = CharBits * FullChars
  BY <1>1
<1>5. CharBits * 1 <= CharBits * FullChars
  BY <1>1
<1>6. QED  BY <1>1, <1>2, <1>3, <1>4, <1>5

\* The powers are positive, and each is twice the one before.
LEMMA Powers ==
    /\ \A n \in 0 .. Width : Pow2[n] \in Nat /\ Pow2[n] >= 1
    /\ Pow2[0] = 1
    /\ \A n \in 1 .. Width : Pow2[n] = 2 * Pow2[n - 1]
<1>. DEFINE X == Nat \ {0}
            one == 1
            G == [k \in 1 .. Width |-> [x \in X |-> 2 * x]]
            Solves(g) == g = [n \in 0 .. Width |-> IF n = 0 THEN 1 ELSE 2 * g[n - 1]]
            v == CHOOSE g : Solves(g)
<1>0. Width \in Nat
  BY Widths
<1>1. \A k \in 1 .. Width : \A x \in X : G[k][x] = 2 * x
  OBVIOUS
<1>2. PICK g : Takes(g, Width, X, one, G)
  <2>1. Closed(Width, X, G)
    BY <1>1 DEF Closed
  <2>2. one \in X
    OBVIOUS
  <2>. HIDE DEF G, X, one
  <2>3. QED  BY <1>0, <2>1, <2>2, Recursion
<1>. HIDE DEF G
<1>3. \A k \in 1 .. Width : g[k] = 2 * g[k - 1]
  <2>. USE DEF Takes
  <2>1. ASSUME NEW k \in 1 .. Width PROVE k - 1 \in 0 .. Width
    BY <1>0
  <2>2. QED  BY <1>1, <1>2, <2>1
<1>4. Solves(g)
  <2>1. g = [n \in 0 .. Width |-> g[n]]
    BY <1>2 DEF Takes
  <2>2. \A n \in 0 .. Width : n = 0 \/ n \in 1 .. Width
    BY <1>0
  <2>3. QED  BY <1>2, <1>3, <2>1, <2>2 DEF Takes
<1>5. Solves(v)
  <2>. HIDE DEF Solves
  <2>1. QED  BY <1>4
<1>6. Pow2 = v
  BY DEF Pow2
<1>. HIDE DEF v
<1>7. /\ v[0] = 1 /\ \A n \in 1 .. Width : v[n] = 2 * v[n - 1]
  <2>1. 0 \in 0 .. Width /\ \A n \in 1 .. Width : n \in 0 .. Width /\ n # 0
    BY <1>0
  <2>2. QED  BY <1>5, <2>1
<1>. DEFINE S == {n \in Nat : n <= Width => v[n] \in Nat /\ v[n] >= 1}
<1>8. S = Nat
  <2>1. 0 \in S
    BY <1>7
  <2>2. ASSUME NEW n \in Nat, n \in S PROVE n + 1 \in S
    <3>1. CASE n + 1 <= Width
      <4>1. n + 1 \in 1 .. Width /\ (n + 1) - 1 = n /\ n <= Width
        BY <1>0, <3>1
      <4>2. v[n + 1] = 2 * v[n]
        BY <1>7, <4>1
      <4>3. QED  BY <2>2, <4>1, <4>2
    <3>2. QED  BY <3>1
  <2>. HIDE DEF S
  <2>3. S \subseteq Nat
    BY DEF S
  <2>4. QED  BY <2>1, <2>2, <2>3, Induct
<1>9. ASSUME NEW n \in 0 .. Width PROVE v[n] \in Nat /\ v[n] >= 1
  <2>1. n \in Nat /\ n <= Width
    BY <1>0
  <2>2. QED  BY <1>8, <2>1
<1>10. QED  BY <1>6, <1>7, <1>9

\* The product of two powers.
LEMMA PowerSum ==
    ASSUME NEW m \in Nat, NEW n \in Nat, m + n <= Width
    PROVE  Pow2[m + n] = Pow2[m] * Pow2[n]
<1>. DEFINE S == {k \in Nat : m + k <= Width => Pow2[m + k] = Pow2[m] * Pow2[k]}
<1>1. S = Nat
  <2>1. 0 \in S
    <3>1. ASSUME m + 0 <= Width PROVE Pow2[m] \in Nat
      BY <3>1, Powers, Widths
    <3>2. m + 0 = m
      OBVIOUS
    <3>3. QED  BY <3>1, <3>2, Powers
  <2>2. ASSUME NEW k \in Nat, k \in S PROVE m + (k + 1) \in Nat /\ k + 1 \in S
    <3>1. CASE m + (k + 1) <= Width
      <4>1. /\ k + 1 \in 1 .. Width /\ m + (k + 1) \in 1 .. Width /\ m + k <= Width
            /\ (k + 1) - 1 = k /\ (m + (k + 1)) - 1 = m + k
            /\ m \in 0 .. Width /\ k \in 0 .. Width
        BY <3>1, Widths
      <4>2. Pow2[m + k] = Pow2[m] * Pow2[k]
        BY <2>2, <4>1
      <4>3. Pow2[k + 1] = 2 * Pow2[k] /\ Pow2[m + (k + 1)] = 2 * Pow2[m + k]
        BY <4>1, Powers
      <4>4. Pow2[m] \in Nat /\ Pow2[k] \in Nat
        BY <4>1, Powers
      <4>5. Pow2[m + (k + 1)] = Pow2[m] * Pow2[k + 1]
        BY <4>2, <4>3, <4>4
      <4>6. QED  BY <4>5
    <3>2. QED  BY <3>1
  <2>. HIDE DEF S
  <2>3. S \subseteq Nat
    BY DEF S
  <2>4. QED  BY <2>1, <2>2, <2>3, Induct
<1>2. QED  BY <1>1

Base == Pow2[CharBits]
Low == Pow2[LastBits]
Modulus == Pow2[Width]

\* What a character at place k counts, and what shifting it out counts.
Below(k) == Pow2[Width - CharBits * k]
Above(k) == Pow2[CharBits * k]

\* A place counts the base times the next; the last counts what the last character has.
LEMMA Weights ==
    /\ Base \in Nat /\ Low \in Nat /\ Low >= 1 /\ Base = 2 * Low /\ Modulus \in Nat /\ Modulus >= 1
    /\ \A k \in 0 .. FullChars :
          /\ Below(k) \in Nat /\ Below(k) >= 1 /\ Above(k) \in Nat /\ Above(k) >= 1
          /\ Above(k) * Below(k) = Modulus
    /\ Below(0) = Modulus /\ Below(FullChars) = Low /\ Above(0) = 1
    /\ \A k \in 1 .. FullChars : Below(k - 1) = Base * Below(k) /\ Above(k) = Above(k - 1) * Base
<1>1. /\ CharBits \in 1 .. Width /\ LastBits \in 0 .. Width /\ CharBits - 1 = LastBits
      /\ Width \in 0 .. Width /\ CharBits \in 0 .. Width
  BY Widths
<1>2. Base \in Nat /\ Low \in Nat /\ Low >= 1 /\ Base = 2 * Low /\ Modulus \in Nat /\ Modulus >= 1
  BY <1>1, Powers DEF Base, Low, Modulus
<1>3. ASSUME NEW k \in 0 .. FullChars
      PROVE  /\ Below(k) \in Nat /\ Below(k) >= 1 /\ Above(k) \in Nat /\ Above(k) >= 1
             /\ Above(k) * Below(k) = Modulus
  <2>. DEFINE n == CharBits * k
  <2>1. n \in 0 .. Width /\ Width - n \in 0 .. Width
    BY Widths
  <2>. HIDE DEF n
  <2>2. n \in Nat /\ Width - n \in Nat /\ n + (Width - n) = Width /\ Width <= Width
    BY <2>1, Widths
  <2>3. Pow2[n + (Width - n)] = Pow2[n] * Pow2[Width - n]
    BY <2>2, PowerSum
  <2>4. /\ Pow2[n] \in Nat /\ Pow2[n] >= 1 /\ Pow2[Width - n] \in Nat /\ Pow2[Width - n] >= 1
    BY <2>1, Powers
  <2>5. QED  BY <2>2, <2>3, <2>4 DEF n, Below, Above, Modulus
<1>4. Below(0) = Modulus /\ Below(FullChars) = Low /\ Above(0) = 1
  <2>1. /\ CharBits * 0 = 0 /\ Width - 0 = Width /\ Width - CharBits * FullChars = LastBits
    <3>1. CharBits * FullChars \in Nat
      BY Widths
    <3>2. QED  BY <3>1, Widths DEF Width
  <2>2. QED  BY <2>1, Powers DEF Below, Above, Low, Modulus
<1>5. ASSUME NEW k \in 1 .. FullChars
      PROVE  Below(k - 1) = Base * Below(k) /\ Above(k) = Above(k - 1) * Base
  <2>. DEFINE n == CharBits * k
              m == CharBits * (k - 1)
  <2>1. n \in 0 .. Width /\ m \in 0 .. Width /\ n = m + CharBits
    <3>1. k \in 0 .. FullChars /\ k - 1 \in 0 .. FullChars
      BY Widths
    <3>2. n \in 0 .. Width /\ m \in 0 .. Width
      BY <3>1, Widths
    <3>3. n = m + CharBits
      BY Widths
    <3>4. QED  BY <3>2, <3>3
  <2>. HIDE DEF n, m
  <2>2. /\ m \in Nat /\ CharBits \in Nat /\ m + CharBits <= Width
        /\ Width - n \in Nat /\ CharBits + (Width - n) = Width - m /\ Width - m <= Width
    BY <2>1, Widths
  <2>3. Pow2[m + CharBits] = Pow2[m] * Pow2[CharBits]
    BY <2>2, PowerSum
  <2>4. Pow2[CharBits + (Width - n)] = Pow2[CharBits] * Pow2[Width - n]
    BY <2>2, PowerSum
  <2>5. QED  BY <2>1, <2>2, <2>3, <2>4 DEF n, m, Below, Above, Base
<1>6. QED  BY <1>2, <1>3, <1>4, <1>5

\* A quotient and a remainder that fit are the quotient and the remainder.
LEMMA Divided ==
    ASSUME NEW q \in Nat, NEW b \in Nat, NEW r \in Nat, r < b
    PROVE  (q * b + r) \div b = q /\ (q * b + r) % b = r
<1>1. (q * b + r) \div b = q
  OBVIOUS
<1>2. (q * b + r) % b = r
  OBVIOUS
<1>3. QED  BY <1>1, <1>2

\* A quotient and a remainder make the number.
LEMMA Division ==
    ASSUME NEW v \in Nat, NEW b \in Nat, b >= 1
    PROVE  v \div b \in Nat /\ v % b \in Nat /\ v % b < b /\ v = (v \div b) * b + (v % b)
<1>1. v \div b \in Nat /\ v % b \in Nat /\ v % b < b
  OBVIOUS
<1>2. v = (v \div b) * b + (v % b)
  OBVIOUS
<1>3. QED  BY <1>1, <1>2

NameValues == 0 .. Modulus - 1

High(v, k) == v \div Below(k)
Rest(v, k) == v % Below(k)

\* A value from above: one character more is what was there times the base, and the
\* character; from below: what the character counts and what is left.
LEMMA Chain ==
    ASSUME NEW v \in NameValues
    PROVE  /\ v \in Nat
           /\ High(v, 0) = 0 /\ Rest(v, 0) = v
           /\ \A k \in 0 .. FullChars : High(v, k) \in Nat /\ Rest(v, k) \in Nat /\ Rest(v, k) < Below(k)
           /\ \A k \in 1 .. FullChars :
                 /\ CharAt(v, k) \in Nat /\ CharAt(v, k) < Base
                 /\ High(v, k) = High(v, k - 1) * Base + CharAt(v, k)
                 /\ Rest(v, k - 1) = CharAt(v, k) * Below(k) + Rest(v, k)
           /\ LastChar(v) = Rest(v, FullChars) /\ v = High(v, FullChars) * Low + LastChar(v)
<1>1. v \in Nat /\ v < Modulus
  BY Weights DEF NameValues
<1>2. ASSUME NEW k \in 0 .. FullChars
      PROVE  /\ High(v, k) \in Nat /\ Rest(v, k) \in Nat /\ Rest(v, k) < Below(k)
             /\ v = High(v, k) * Below(k) + Rest(v, k)
  BY <1>1, Division, Weights DEF High, Rest
<1>3. High(v, 0) = 0 /\ Rest(v, 0) = v
  <2>1. v = 0 * Modulus + v /\ Modulus \in Nat
    BY <1>1, Weights
  <2>2. (0 * Modulus + v) \div Modulus = 0 /\ (0 * Modulus + v) % Modulus = v
    BY <1>1, <2>1, Divided
  <2>3. QED  BY <2>1, <2>2, Weights DEF High, Rest
<1>4. ASSUME NEW k \in 1 .. FullChars
      PROVE  /\ CharAt(v, k) \in Nat /\ CharAt(v, k) < Base
             /\ High(v, k) = High(v, k - 1) * Base + CharAt(v, k)
             /\ Rest(v, k - 1) = CharAt(v, k) * Below(k) + Rest(v, k)
  <2>. DEFINE h == High(v, k)
              g == High(v, k - 1)
              b == Below(k)
              r == Rest(v, k)
              c == CharAt(v, k)
              t == Rest(v, k - 1)
  <2>1. k \in 0 .. FullChars /\ k - 1 \in 0 .. FullChars
    BY Widths
  <2>2. /\ h \in Nat /\ r \in Nat /\ v = h * b + r
        /\ g \in Nat /\ t \in Nat /\ v = g * (Base * b) + t /\ b \in Nat /\ b >= 1
    BY <1>2, <2>1, Weights
  <2>3. c = h % Base
    BY DEF CharAt, Shr, High, Base, Below
  <2>4. c \in Nat /\ c < Base /\ h = (h \div Base) * Base + c
    <3>. HIDE DEF h, c
    <3>1. Base \in Nat /\ Base >= 1
      BY Weights
    <3>2. QED  BY <2>2, <2>3, <3>1, Division
  <2>5. h \div Base = g
    <3>1. h \div Base = (v \div b) \div Base /\ g = v \div (b * Base)
      <4>1. Below(k - 1) = b * Base
        BY <2>2, Weights
      <4>2. QED  BY <4>1 DEF High
    <3>. HIDE DEF h, b, g
    <3>2. (v \div b) \div Base = v \div (b * Base)
      BY <1>1, <2>2, Weights
    <3>3. QED  BY <3>1, <3>2
  <2>6. t = c * b + r
    <3>. HIDE DEF h, b, g, r, c, t
    <3>1. Base \in Nat
      BY Weights
    <3>2. h * b = (g * Base + c) * b
      BY <2>4, <2>5
    <3>3. (g * Base + c) * b = g * (Base * b) + c * b
      BY <2>2, <2>4, <3>1
    <3>4. g * (Base * b) \in Nat /\ c * b \in Nat
      BY <2>2, <2>4, <3>1
    <3>5. g * (Base * b) + t = (g * (Base * b) + c * b) + r
      BY <2>2, <3>2, <3>3
    <3>. DEFINE x == g * (Base * b)
                y == c * b
    <3>. HIDE DEF x, y
    <3>6. x + t = (x + y) + r /\ x \in Nat /\ y \in Nat
      BY <3>4, <3>5 DEF x, y
    <3>7. t = y + r
      BY <2>2, <3>6
    <3>8. QED  BY <3>7 DEF y
  <2>7. QED  BY <2>4, <2>5, <2>6
<1>5. LastChar(v) = Rest(v, FullChars) /\ v = High(v, FullChars) * Low + LastChar(v)
  <2>1. FullChars \in 0 .. FullChars /\ Below(FullChars) = Low
    BY Widths, Weights
  <2>2. LastChar(v) = Rest(v, FullChars)
    BY <2>1 DEF LastChar, Rest, Low
  <2>3. QED  BY <1>2, <2>1, <2>2
<1>6. QED  BY <1>1, <1>2, <1>3, <1>4, <1>5

\* Nothing is left after k characters if the others are dots.
LEMMA NothingLeft ==
    ASSUME NEW v \in NameValues, NEW k \in 0 .. FullChars
    PROVE  Rest(v, k) = 0 <=> LastChar(v) = 0 /\ \A j \in k + 1 .. FullChars : CharAt(v, j) = 0
<1>. DEFINE Dots(n) == LastChar(v) = 0 /\ \A j \in n + 1 .. FullChars : CharAt(v, j) = 0
            S == {n \in Nat : n <= FullChars => (Rest(v, FullChars - n) = 0 <=> Dots(FullChars - n))}
<1>0. FullChars \in Nat
  BY Widths
<1>1. 0 \in S
  <2>1. FullChars - 0 = FullChars /\ ~(\E j \in FullChars + 1 .. FullChars : TRUE)
    BY <1>0
  <2>2. Rest(v, FullChars) = LastChar(v)
    BY Chain
  <2>3. Dots(FullChars) <=> LastChar(v) = 0
    BY <2>1
  <2>4. QED  BY <2>1, <2>2, <2>3
<1>2. ASSUME NEW n \in Nat, n \in S PROVE n + 1 \in S
  <2>1. CASE n + 1 <= FullChars
    <3>. DEFINE m == FullChars - n
    <3>1. m \in 1 .. FullChars /\ FullChars - (n + 1) = m - 1 /\ n <= FullChars /\ m \in 0 .. FullChars
      BY <1>0, <2>1
    <3>2. Rest(v, m) = 0 <=> Dots(m)
      BY <1>2, <3>1
    <3>. HIDE DEF m
    <3>3. /\ Rest(v, m - 1) = CharAt(v, m) * Below(m) + Rest(v, m)
          /\ Rest(v, m) \in Nat /\ CharAt(v, m) \in Nat /\ Below(m) \in Nat /\ Below(m) >= 1
      BY <3>1, Chain, Weights
    <3>4. Rest(v, m - 1) = 0 <=> CharAt(v, m) = 0 /\ Rest(v, m) = 0
      <4>. DEFINE c == CharAt(v, m)
                  b == Below(m)
                  r == Rest(v, m)
      <4>1. c \in Nat /\ b \in Nat /\ b >= 1 /\ r \in Nat
        BY <3>3
      <4>. HIDE DEF c, b, r
      <4>2. c * b + r = 0 <=> c = 0 /\ r = 0
        <5>1. CASE c = 0
          BY <4>1, <5>1
        <5>2. CASE c >= 1
          <6>1. c * b >= 1 /\ c * b \in Nat
            BY <4>1, <5>2
          <6>2. QED  BY <4>1, <5>2, <6>1
        <5>3. QED  BY <4>1, <5>1, <5>2
      <4>3. QED  BY <3>3, <4>2 DEF c, b, r
    <3>5. Dots(m - 1) <=> CharAt(v, m) = 0 /\ Dots(m)
      <4>1. \A j : j \in (m - 1) + 1 .. FullChars <=> j = m \/ j \in m + 1 .. FullChars
        BY <1>0, <3>1
      <4>2. QED  BY <4>1
    <3>. HIDE DEF Dots
    <3>6. QED  BY <3>1, <3>2, <3>4, <3>5
  <2>2. QED  BY <2>1
<1>3. S = Nat
  <2>. HIDE DEF S
  <2>1. S \subseteq Nat
    BY DEF S
  <2>2. QED  BY <1>1, <1>2, <2>1, Induct
<1>4. FullChars - k \in Nat /\ FullChars - k <= FullChars /\ FullChars - (FullChars - k) = k
  BY <1>0
<1>5. FullChars - k \in S
  <2>. HIDE DEF S
  <2>1. QED  BY <1>3, <1>4
<1>. HIDE DEF Dots
<1>6. Rest(v, k) = 0 <=> Dots(k)
  BY <1>4, <1>5
<1>7. QED  BY <1>6 DEF Dots

\* The characters of a value.
Spellings ==
    {d \in [1 .. Chars -> Nat] : (\A k \in 1 .. FullChars : d[k] < Base) /\ d[Chars] < Low}

\* a is what the characters of d count from above.
Sums(a, d) ==
    /\ a \in [0 .. FullChars -> Nat] /\ a[0] = 0
    /\ \A k \in 1 .. FullChars : a[k] = a[k - 1] * Base + d[k]

\* What validate_name and name_to_string spell of a value (utils.hpp:57-65).
LEMMA SpelledTyped ==
    ASSUME NEW v \in NameValues
    PROVE  /\ Spelled(v) \in Spellings
           /\ Spelled(v)[Chars] = LastChar(v)
           /\ \A k \in 1 .. FullChars : Spelled(v)[k] = CharAt(v, k)
<1>1. \A k \in 1 .. Chars : k = Chars \/ k \in 1 .. FullChars
  BY Widths
<1>2. Chars \in 1 .. Chars /\ \A k \in 1 .. FullChars : k \in 1 .. Chars /\ k # Chars
  BY Widths
<1>3. /\ LastChar(v) \in Nat /\ LastChar(v) < Low
      /\ \A k \in 1 .. FullChars : CharAt(v, k) \in Nat /\ CharAt(v, k) < Base
  <2>1. FullChars \in 0 .. FullChars /\ Below(FullChars) = Low
    BY Widths, Weights
  <2>2. QED  BY <2>1, Chain
<1>4. /\ Spelled(v)[Chars] = LastChar(v)
      /\ \A k \in 1 .. FullChars : Spelled(v)[k] = CharAt(v, k)
      /\ Spelled(v) \in [1 .. Chars -> Nat]
  BY <1>1, <1>2, <1>3 DEF Spelled
<1>5. QED  BY <1>3, <1>4 DEF Spellings

\* The sums of the characters of a value give the value.
LEMMA SumsOfValue ==
    ASSUME NEW v \in NameValues, NEW a, Sums(a, Spelled(v))
    PROVE  (\A k \in 0 .. FullChars : a[k] = High(v, k)) /\ v = a[FullChars] * Low + LastChar(v)
<1>. DEFINE S == {k \in Nat : k <= FullChars => a[k] = High(v, k)}
<1>1. 0 \in S
  BY Chain DEF Sums
<1>2. ASSUME NEW k \in Nat, k \in S PROVE k + 1 \in S
  <2>1. CASE k + 1 <= FullChars
    <3>1. k + 1 \in 1 .. FullChars /\ (k + 1) - 1 = k /\ k <= FullChars
      BY <2>1, Widths
    <3>2. a[k + 1] = a[k] * Base + Spelled(v)[k + 1]
      BY <3>1 DEF Sums
    <3>3. Spelled(v)[k + 1] = CharAt(v, k + 1) /\ High(v, k + 1) = High(v, k) * Base + CharAt(v, k + 1)
      BY <3>1, SpelledTyped, Chain
    <3>4. QED  BY <1>2, <3>1, <3>2, <3>3
  <2>2. QED  BY <2>1
<1>3. S = Nat
  <2>. HIDE DEF S
  <2>1. S \subseteq Nat
    BY DEF S
  <2>2. QED  BY <1>1, <1>2, <2>1, Induct
<1>4. \A k \in 0 .. FullChars : a[k] = High(v, k)
  <2>1. \A k \in 0 .. FullChars : k \in Nat /\ k <= FullChars
    BY Widths
  <2>2. QED  BY <1>3, <2>1
<1>5. QED  BY <1>4, Chain, Widths

\* Characters have sums, which what they count bounds.
LEMMA SumsExist ==
    ASSUME NEW d \in Spellings
    PROVE  \E a : Sums(a, d) /\ \A k \in 0 .. FullChars : a[k] < Above(k)
<1>. DEFINE G == [k \in 1 .. FullChars |-> [x \in Nat |-> x * Base + d[k]]]
            zero == 0
<1>1. \A k \in 1 .. FullChars : d[k] \in Nat /\ d[k] < Base
  BY Widths DEF Spellings
<1>2. \A k \in 1 .. FullChars : \A x \in Nat : G[k][x] = x * Base + d[k] /\ G[k][x] \in Nat
  BY <1>1, Weights
<1>3. PICK a : Takes(a, FullChars, Nat, zero, G)
  <2>1. Closed(FullChars, Nat, G) /\ zero \in Nat /\ FullChars \in Nat
    BY <1>2, Widths DEF Closed
  <2>. HIDE DEF G, zero
  <2>2. QED  BY <2>1, Recursion
<1>. HIDE DEF G
<1>4. Sums(a, d)
  <2>1. \A k \in 1 .. FullChars : k - 1 \in 0 .. FullChars
    BY Widths
  <2>2. QED  BY <1>2, <1>3, <2>1 DEF Takes, Sums
<1>. DEFINE S == {k \in Nat : k <= FullChars => a[k] < Above(k)}
<1>5. 0 \in S
  BY <1>4, Weights DEF Sums
<1>6. ASSUME NEW k \in Nat, k \in S PROVE k + 1 \in S
  <2>1. CASE k + 1 <= FullChars
    <3>1. k + 1 \in 1 .. FullChars /\ (k + 1) - 1 = k /\ k <= FullChars /\ k \in 0 .. FullChars
      BY <2>1, Widths
    <3>2. a[k + 1] = a[k] * Base + d[k + 1] /\ a[k] \in Nat
      BY <1>4, <3>1 DEF Sums
    <3>3. a[k] < Above(k) /\ Above(k + 1) = Above(k) * Base /\ Above(k) \in Nat
      BY <1>6, <3>1, Weights
    <3>4. d[k + 1] \in Nat /\ d[k + 1] < Base /\ Base \in Nat
      BY <1>1, <3>1, Weights
    <3>5. (a[k] + 1) * Base <= Above(k) * Base
      BY <3>2, <3>3, <3>4
    <3>6. (a[k] + 1) * Base = a[k] * Base + Base /\ a[k] * Base \in Nat /\ Above(k) * Base \in Nat
      BY <3>2, <3>3, <3>4
    <3>7. QED  BY <3>2, <3>3, <3>4, <3>5, <3>6
  <2>2. QED  BY <2>1
<1>7. S = Nat
  <2>. HIDE DEF S
  <2>1. S \subseteq Nat
    BY DEF S
  <2>2. QED  BY <1>5, <1>6, <2>1, Induct
<1>8. \A k \in 0 .. FullChars : a[k] < Above(k)
  <2>1. \A k \in 0 .. FullChars : k \in Nat /\ k <= FullChars
    BY Widths
  <2>2. QED  BY <1>7, <2>1
<1>9. QED  BY <1>4, <1>8

\* Characters make a value that is spelled like them.
LEMMA Composed ==
    ASSUME NEW d \in Spellings, NEW a, Sums(a, d), \A k \in 0 .. FullChars : a[k] < Above(k)
    PROVE  /\ a[FullChars] * Low + d[Chars] \in NameValues
           /\ Spelled(a[FullChars] * Low + d[Chars]) = d
<1>. DEFINE v == a[FullChars] * Low + d[Chars]
<1>1. FullChars \in 0 .. FullChars /\ Chars \in 1 .. Chars
  BY Widths
<1>2. /\ a[FullChars] \in Nat /\ a[FullChars] < Above(FullChars) /\ Above(FullChars) * Low = Modulus
      /\ Above(FullChars) \in Nat /\ Low \in Nat /\ d[Chars] \in Nat /\ d[Chars] < Low /\ Modulus \in Nat
  BY <1>1, Weights DEF Sums, Spellings
<1>3. v \in NameValues
  <2>1. (a[FullChars] + 1) * Low <= Above(FullChars) * Low
    BY <1>2
  <2>2. (a[FullChars] + 1) * Low = a[FullChars] * Low + Low /\ a[FullChars] * Low \in Nat
    BY <1>2
  <2>3. QED  BY <1>2, <2>1, <2>2 DEF NameValues
<1>4. High(v, FullChars) = a[FullChars] /\ LastChar(v) = d[Chars]
  <2>1. v \div Low = a[FullChars] /\ v % Low = d[Chars]
    BY <1>2, Divided
  <2>. HIDE DEF v
  <2>2. Below(FullChars) = Low
    BY Weights
  <2>3. QED  BY <2>1, <2>2 DEF High, LastChar, Low
<1>. HIDE DEF v
<1>. DEFINE S == {n \in Nat : n <= FullChars => High(v, FullChars - n) = a[FullChars - n]}
<1>5. 0 \in S
  BY <1>4, Widths
<1>6. ASSUME NEW n \in Nat, n \in S PROVE n + 1 \in S
  <2>1. CASE n + 1 <= FullChars
    <3>. DEFINE m == FullChars - n
    <3>1. m \in 1 .. FullChars /\ FullChars - (n + 1) = m - 1 /\ n <= FullChars /\ m - 1 \in 0 .. FullChars
      BY <2>1, Widths
    <3>2. High(v, m) = a[m]
      BY <1>6, <3>1
    <3>. HIDE DEF m
    <3>3. a[m] = a[m - 1] * Base + d[m] /\ a[m - 1] \in Nat /\ d[m] \in Nat /\ d[m] < Base
      BY <3>1, Widths DEF Sums, Spellings
    <3>4. /\ High(v, m) = High(v, m - 1) * Base + CharAt(v, m) /\ High(v, m - 1) \in Nat
          /\ CharAt(v, m) \in Nat /\ CharAt(v, m) < Base
      BY <1>3, <3>1, Chain
    <3>5. High(v, m) \div Base = High(v, m - 1) /\ a[m] \div Base = a[m - 1]
      <4>1. Base \in Nat
        BY Weights
      <4>2. (High(v, m - 1) * Base + CharAt(v, m)) \div Base = High(v, m - 1)
        BY <3>4, <4>1, Divided
      <4>3. (a[m - 1] * Base + d[m]) \div Base = a[m - 1]
        BY <3>3, <4>1, Divided
      <4>4. QED  BY <3>3, <3>4, <4>2, <4>3
    <3>6. QED  BY <3>1, <3>2, <3>5
  <2>2. QED  BY <2>1
<1>7. S = Nat
  <2>. HIDE DEF S
  <2>1. S \subseteq Nat
    BY DEF S
  <2>2. QED  BY <1>5, <1>6, <2>1, Induct
<1>8. ASSUME NEW k \in 0 .. FullChars PROVE High(v, k) = a[k]
  <2>1. FullChars - k \in Nat /\ FullChars - k <= FullChars /\ FullChars - (FullChars - k) = k
    BY Widths
  <2>2. QED  BY <1>7, <2>1
<1>9. ASSUME NEW k \in 1 .. FullChars PROVE CharAt(v, k) = d[k]
  <2>1. k \in 0 .. FullChars /\ k - 1 \in 0 .. FullChars /\ k \in 1 .. Chars
    BY Widths
  <2>2. High(v, k) = a[k] /\ High(v, k - 1) = a[k - 1]
    BY <1>8, <2>1
  <2>3. /\ a[k] = a[k - 1] * Base + d[k] /\ a[k] = a[k - 1] * Base + CharAt(v, k)
        /\ a[k - 1] \in Nat /\ d[k] \in Nat /\ CharAt(v, k) \in Nat
    BY <1>3, <2>1, <2>2, Chain DEF Sums, Spellings
  <2>. DEFINE x == a[k - 1] * Base
              c == CharAt(v, k)
              e == d[k]
  <2>4. x \in Nat /\ c \in Nat /\ e \in Nat /\ x + c = x + e
    BY <2>3, Weights
  <2>. HIDE DEF x, c, e
  <2>5. c = e
    BY <2>4
  <2>6. QED  BY <2>5 DEF c, e
<1>10. Spelled(v) = d
  <2>1. Spelled(v) \in [1 .. Chars -> Nat] /\ d \in [1 .. Chars -> Nat]
    BY <1>3, SpelledTyped DEF Spellings
  <2>2. ASSUME NEW k \in 1 .. Chars PROVE Spelled(v)[k] = d[k]
    <3>1. k = Chars \/ k \in 1 .. FullChars
      BY Widths
    <3>2. QED  BY <1>3, <1>4, <1>9, <3>1, SpelledTyped
  <2>. DEFINE e == Spelled(v)
  <2>. HIDE DEF e
  <2>3. e = [k \in 1 .. Chars |-> e[k]] /\ d = [k \in 1 .. Chars |-> d[k]]
    BY <2>1 DEF e
  <2>4. e = d
    BY <2>2, <2>3 DEF e
  <2>5. QED  BY <2>4 DEF e
<1>11. QED  BY <1>3, <1>10 DEF v

\* NameValues are spelled differently.
LEMMA SpelledOnce ==
    ASSUME NEW u \in NameValues, NEW v \in NameValues, Spelled(u) = Spelled(v)
    PROVE  u = v
<1>1. PICK a : Sums(a, Spelled(v))
  BY SpelledTyped, SumsExist
<1>2. u = a[FullChars] * Low + LastChar(u) /\ v = a[FullChars] * Low + LastChar(v)
  BY <1>1, SumsOfValue
<1>3. LastChar(u) = LastChar(v)
  BY SpelledTyped
<1>4. QED  BY <1>2, <1>3

\* Shifting k characters out: what is left moves up, and the next character is on top.
LEMMA Shifted ==
    ASSUME NEW v \in NameValues, NEW k \in 0 .. FullChars
    PROVE  /\ Shl(v, CharBits * k) = Rest(v, k) * Above(k)
           /\ Shl(v, CharBits * k) = 0 <=> Rest(v, k) = 0
           /\ k < FullChars => Top(Shl(v, CharBits * k)) = CharAt(v, k + 1)
           /\ k = FullChars => /\ Shr(Shl(v, CharBits * k), Width - LastBits) = LastChar(v)
                               /\ Top(Shl(v, CharBits * k)) = 2 * LastChar(v)
<1>. DEFINE h == High(v, k)
            r == Rest(v, k)
            a == Above(k)
            b == Below(k)
            one == Below(1)
<1>1. /\ h \in Nat /\ r \in Nat /\ r < b /\ v = h * b + r
      /\ a \in Nat /\ a >= 1 /\ b \in Nat /\ b >= 1 /\ a * b = Modulus
      /\ Base \in Nat /\ Base >= 1 /\ Low \in Nat /\ Low >= 1 /\ Base = 2 * Low
  <2>1. h \in Nat /\ r \in Nat /\ r < b
    BY Chain
  <2>2. /\ a \in Nat /\ a >= 1 /\ b \in Nat /\ b >= 1 /\ a * b = Modulus
        /\ Base \in Nat /\ Low \in Nat /\ Low >= 1 /\ Base = 2 * Low
    BY Weights
  <2>3. v = h * b + r
    <3>1. v \in Nat
      BY Chain
    <3>2. QED  BY <2>2, <3>1, Division DEF High, Rest
  <2>. HIDE DEF h, r, a, b
  <2>4. QED  BY <2>1, <2>2, <2>3
<1>2. one \in Nat /\ one >= 1 /\ Base * one = Modulus
  <2>1. 1 \in 0 .. FullChars /\ 1 \in 1 .. FullChars /\ 1 - 1 = 0
    BY Widths
  <2>2. QED  BY <2>1, Weights
<1>3. Shl(v, CharBits * k) = (v * a) % Modulus
  BY DEF Shl, Above, Modulus
<1>4. \A x : Top(x) = x \div one
  <2>1. CharBits * 1 = CharBits
    BY Widths
  <2>2. QED  BY <2>1 DEF Top, Shr, Below
<1>5. (v * a) % Modulus = r * a
  <2>. HIDE DEF h, r, a, b, one
  <2>1. v * a = h * Modulus + r * a
    <3>1. (h * b + r) * a = h * (a * b) + r * a
      BY <1>1
    <3>2. QED  BY <1>1, <3>1
  <2>2. r * a \in Nat /\ r * a < Modulus
    <3>1. (r + 1) * a <= b * a
      BY <1>1
    <3>2. (r + 1) * a = r * a + a /\ b * a = a * b /\ r * a \in Nat
      BY <1>1
    <3>3. QED  BY <1>1, <3>1, <3>2
  <2>3. Modulus \in Nat
    BY Weights
  <2>4. (h * Modulus + r * a) % Modulus = r * a
    BY <1>1, <2>2, <2>3, Divided
  <2>5. QED  BY <2>1, <2>4
<1>6. r * a = 0 <=> r = 0
  <2>. HIDE DEF h, r, a, b, one
  <2>1. QED  BY <1>1
<1>7. ASSUME k < FullChars PROVE (r * a) \div one = CharAt(v, k + 1)
  <2>. DEFINE c == CharAt(v, k + 1)
              t == Rest(v, k + 1)
              d == Below(k + 1)
  <2>1. k + 1 \in 1 .. FullChars /\ k + 1 \in 0 .. FullChars /\ (k + 1) - 1 = k
    BY <1>7, Widths
  <2>2. /\ c \in Nat /\ t \in Nat /\ t < d /\ r = c * d + t
        /\ d \in Nat /\ d >= 1 /\ b = Base * d
    BY <2>1, Chain, Weights
  <2>. HIDE DEF h, r, a, b, one, c, t, d
  <2>3. a * d = one
    <3>1. Base * (a * d) = Base * one
      <4>1. a * (Base * d) = Base * (a * d)
        BY <1>1, <2>2
      <4>2. QED  BY <1>1, <1>2, <2>2, <4>1
    <3>2. a * d \in Nat
      BY <1>1, <2>2
    <3>. DEFINE x == a * d
    <3>3. x \in Nat /\ Base * x = Base * one
      BY <3>1, <3>2
    <3>. HIDE DEF x
    <3>4. x = one
      BY <1>1, <1>2, <3>3
    <3>5. QED  BY <3>4 DEF x
  <2>4. r * a = c * one + t * a
    <3>1. (c * d + t) * a = c * (a * d) + t * a
      BY <1>1, <2>2
    <3>2. QED  BY <2>2, <2>3, <3>1
  <2>5. t * a \in Nat /\ t * a < one
    <3>1. (t + 1) * a <= d * a
      BY <1>1, <2>2
    <3>2. (t + 1) * a = t * a + a /\ d * a = a * d /\ t * a \in Nat
      BY <1>1, <2>2
    <3>3. QED  BY <1>1, <1>2, <2>3, <3>1, <3>2
  <2>6. (c * one + t * a) \div one = c
    BY <1>2, <2>2, <2>5, Divided
  <2>7. QED  BY <2>4, <2>6 DEF c
<1>8. ASSUME k = FullChars
      PROVE  /\ (r * a) \div a = LastChar(v) /\ (r * a) \div one = 2 * LastChar(v)
             /\ Pow2[Width - LastBits] = a
  <2>1. r = LastChar(v) /\ b = Low
    BY <1>8, Chain, Weights
  <2>2. Pow2[Width - LastBits] = a
    <3>1. CharBits * FullChars \in Nat
      BY Widths
    <3>2. Width - LastBits = CharBits * FullChars
      BY <3>1, Widths DEF Width
    <3>3. QED  BY <1>8, <3>2 DEF Above
  <2>. HIDE DEF h, r, a, b, one
  <2>3. a = 2 * one
    <3>1. Low * a = Low * (2 * one)
      <4>1. (2 * Low) * one = Low * (2 * one) /\ a * Low = Low * a
        BY <1>1, <1>2
      <4>2. QED  BY <1>1, <1>2, <2>1, <4>1
    <3>. DEFINE x == 2 * one
    <3>2. x \in Nat /\ Low * a = Low * x
      BY <1>2, <3>1
    <3>. HIDE DEF x
    <3>3. a = x
      BY <1>1, <3>2
    <3>4. QED  BY <3>3 DEF x
  <2>4. r * a = r * a + 0 /\ r * a \in Nat
    BY <1>1
  <2>5. r * a = (2 * r) * one + 0
    BY <1>1, <1>2, <2>3
  <2>6. (r * a + 0) \div a = r
    BY <1>1, Divided
  <2>7. ((2 * r) * one + 0) \div one = 2 * r
    BY <1>1, <1>2, Divided
  <2>8. QED  BY <2>1, <2>2, <2>4, <2>5, <2>6, <2>7
<1>. HIDE DEF r, a, b, h, one
<1>9. Shl(v, CharBits * k) = r * a
  BY <1>3, <1>5
<1>10. QED  BY <1>4, <1>6, <1>7, <1>8, <1>9 DEF r, a, Shr

\* n is the place of the last one of m characters that is not a dot.
Ends(w, m, n) == n \in 0 .. m /\ (n > 0 => w[n] # 0) /\ \A k \in n + 1 .. m : w[k] = 0

\* There is such a place, 0 if all are dots.
LEMMA EndExists ==
    ASSUME NEW m \in Nat, NEW w
    PROVE  \E n : Ends(w, m, n)
<1>. DEFINE T == {n \in 0 .. m : \A k \in n + 1 .. m : w[k] = 0}
<1>1. T \subseteq Nat
  OBVIOUS
<1>2. m \in T
  OBVIOUS
<1>3. PICK n \in T : \A x \in T : n <= x
  <2>. HIDE DEF T
  <2>1. QED  BY <1>1, <1>2, LeastNat
<1>4. ASSUME n > 0, w[n] = 0 PROVE FALSE
  <2>1. n - 1 \in 0 .. m /\ ~(n <= n - 1)
    BY <1>4
  <2>2. \A k \in (n - 1) + 1 .. m : k = n \/ k \in n + 1 .. m
    BY <1>4
  <2>3. n - 1 \in T
    BY <1>4, <2>1, <2>2
  <2>. HIDE DEF T
  <2>4. QED  BY <1>3, <2>1, <2>3
<1>5. QED  BY <1>4 DEF Ends

\* Among the characters of a name.
LEMMA CharsEnd ==
    ASSUME NEW w
    PROVE  \E n : Ends(w, Chars, n)
<1>1. Chars \in Nat
  BY Widths
<1>2. QED  BY <1>1, EndExists

\* There is no other.
LEMMA OneEnd ==
    ASSUME NEW m \in Nat, NEW w, NEW n, Ends(w, m, n), NEW x, Ends(w, m, x)
    PROVE  n = x
<1>1. ~(n < x)
  <2>1. n < x => x \in n + 1 .. m /\ x > 0
    BY DEF Ends
  <2>2. QED  BY <2>1 DEF Ends
<1>2. ~(x < n)
  <2>1. x < n => n \in x + 1 .. m /\ n > 0
    BY DEF Ends
  <2>2. QED  BY <2>1 DEF Ends
<1>3. QED  BY <1>1, <1>2 DEF Ends

\* The first n characters of w.
Prefix(w, n) == [k \in 1 .. n |-> w[k]]

\* trim keeps what is up to that place (utils.hpp:67-74).
LEMMA TrimmedIs ==
    ASSUME NEW m \in Nat, NEW w, Len(w) = m, NEW n, Ends(w, m, n)
    PROVE  Trimmed(w) = Prefix(w, n)
<1>. DEFINE e == CHOOSE x \in 0 .. Len(w) : (x > 0 => w[x] # 0) /\ \A k \in x + 1 .. Len(w) : w[k] = 0
<1>1. Trimmed(w) = SubSeq(w, 1, e)
  BY DEF Trimmed
<1>2. Ends(w, m, e)
  BY DEF Ends
<1>. HIDE DEF e
<1>3. e = n
  BY <1>2, OneEnd
<1>4. n \in Nat
  BY DEF Ends
<1>5. SubSeq(w, 1, n) = Prefix(w, n)
  BY <1>4 DEF Prefix
<1>6. QED  BY <1>1, <1>3, <1>5

\* A value is written as it is spelled, up to the last character that is not a dot.
LEMMA Written ==
    ASSUME NEW v \in NameValues, NEW n, Ends(Spelled(v), Chars, n)
    PROVE  WriteAsString(v) = Prefix(Spelled(v), n)
<1>. DEFINE rest == [k \in 0 .. FullChars |-> Shl(v, CharBits * k)]
            char(k) == IF k = FullChars THEN Shr(rest[k], Width - LastBits) ELSE Top(rest[k])
            IsEnd(x) == (x < Chars => rest[x] = 0) /\ \A k \in 0 .. x - 1 : rest[k] # 0
            e == CHOOSE x \in 0 .. Chars : IsEnd(x)
            d == Spelled(v)
<1>1. WriteAsString(v) = [k \in 1 .. e |-> char(k - 1)]
  BY DEF WriteAsString
<1>2. n \in 0 .. Chars /\ n \in Nat
  BY DEF Ends
<1>3. ASSUME NEW k \in 0 .. FullChars PROVE rest[k] = 0 <=> n <= k
  <2>1. rest[k] = 0 <=> LastChar(v) = 0 /\ \A j \in k + 1 .. FullChars : CharAt(v, j) = 0
    BY Shifted, NothingLeft
  <2>2. \A j \in k + 1 .. FullChars : j \in 1 .. FullChars
    OBVIOUS
  <2>3. d[Chars] = LastChar(v) /\ \A j \in k + 1 .. FullChars : d[j] = CharAt(v, j)
    BY <2>2, SpelledTyped
  <2>. HIDE DEF rest, d
  <2>4. \A j : j \in k + 1 .. Chars <=> j = Chars \/ j \in k + 1 .. FullChars
    BY Widths
  <2>5. rest[k] = 0 <=> \A j \in k + 1 .. Chars : d[j] = 0
    BY <2>1, <2>3, <2>4
  <2>6. n <= k => \A j \in k + 1 .. Chars : d[j] = 0
    <3>1. n <= k => \A j \in k + 1 .. Chars : j \in n + 1 .. Chars
      BY <1>2
    <3>2. QED  BY <3>1 DEF Ends, d
  <2>7. ~(n <= k) => n \in k + 1 .. Chars /\ d[n] # 0
    BY <1>2 DEF Ends, d
  <2>8. QED  BY <2>5, <2>6, <2>7
<1>. HIDE DEF rest
<1>4. IsEnd(n)
  <2>1. n < Chars => n \in 0 .. FullChars /\ n <= n
    BY <1>2, Widths
  <2>2. ASSUME NEW k \in 0 .. n - 1 PROVE k \in 0 .. FullChars /\ ~(n <= k)
    BY <1>2, Widths
  <2>3. QED  BY <1>3, <2>1, <2>2
<1>5. ASSUME NEW x \in 0 .. Chars, IsEnd(x) PROVE x = n
  <2>1. ~(n < x)
    <3>1. n < x => n \in 0 .. x - 1 /\ n \in 0 .. FullChars /\ n <= n
      BY <1>2, Widths
    <3>2. QED  BY <1>3, <1>5, <3>1
  <2>2. ~(x < n)
    <3>1. x < n => x < Chars /\ x \in 0 .. FullChars /\ ~(n <= x)
      BY <1>2, Widths
    <3>2. QED  BY <1>3, <1>5, <3>1
  <2>3. QED  BY <1>2, <2>1, <2>2
<1>6. e = n
  <2>. HIDE DEF IsEnd
  <2>1. e \in 0 .. Chars /\ IsEnd(e)
    BY <1>2, <1>4
  <2>2. QED  BY <1>5, <2>1
<1>7. ASSUME NEW k \in 1 .. n PROVE char(k - 1) = d[k]
  <2>1. k - 1 \in 0 .. FullChars /\ (k - 1) + 1 = k /\ (k - 1 = FullChars => k = Chars)
        /\ (k - 1 # FullChars => k - 1 < FullChars /\ k \in 1 .. FullChars)
    BY <1>2, Widths
  <2>2. rest[k - 1] = Shl(v, CharBits * (k - 1))
    BY <2>1 DEF rest
  <2>3. k - 1 = FullChars => Shr(Shl(v, CharBits * (k - 1)), Width - LastBits) = LastChar(v)
    BY <2>1, Shifted
  <2>4. k - 1 # FullChars => Top(Shl(v, CharBits * (k - 1))) = CharAt(v, k)
    BY <2>1, Shifted
  <2>5. d[Chars] = LastChar(v) /\ (k \in 1 .. FullChars => d[k] = CharAt(v, k))
    BY SpelledTyped
  <2>. HIDE DEF d
  <2>6. QED  BY <2>1, <2>2, <2>3, <2>4, <2>5
<1>. HIDE DEF e, char, d
<1>8. QED  BY <1>1, <1>6, <1>7 DEF Prefix, d

\* The characters of a string, and dots.
Pad(w) == [k \in 1 .. Chars |-> IF k <= Len(w) THEN w[k] ELSE 0]

\* What the contract accepts.
Accepted(w) ==
    /\ Len(w) <= Chars
    /\ \A k \in 1 .. Len(w) : w[k] # Foreign
    /\ Len(w) = Chars => w[Chars] <= Low - 1

Letters == Alphabet \cup {Foreign}

\* The letters are what a character of CharBits bits holds, and the foreign one.
LEMMA Letter == /\ \A c \in Letters : c = Foreign \/ (c \in Nat /\ c < Base)
                /\ \A c \in Nat : c < Base => c \in Letters
                /\ Foreign \notin Nat
BY Weights DEF Letters, Alphabet, Base, Foreign

\* An accepted string, with dots, spells a value.
LEMMA Padded ==
    ASSUME NEW w \in Seq(Letters), Accepted(w)
    PROVE  Pad(w) \in Spellings
<1>1. Len(w) \in Nat /\ \A k \in 1 .. Len(w) : w[k] \in Letters
  OBVIOUS
<1>2. \A k \in 1 .. Len(w) : w[k] \in Nat /\ w[k] < Base
  BY <1>1, Letter DEF Accepted
<1>3. /\ Low \in Nat /\ Low >= 1 /\ Base \in Nat /\ Base >= 1
      /\ Chars \in 1 .. Chars /\ \A k \in 1 .. FullChars : k \in 1 .. Chars
  BY Weights, Widths
<1>4. \A k \in 1 .. Chars : k <= Len(w) => k \in 1 .. Len(w)
  BY <1>1
<1>5. \A k \in 1 .. Chars : Pad(w)[k] = IF k <= Len(w) THEN w[k] ELSE 0
  BY DEF Pad
<1>6. Pad(w) \in [1 .. Chars -> Nat]
  BY <1>2, <1>4 DEF Pad
<1>7. \A k \in 1 .. FullChars : Pad(w)[k] < Base
  BY <1>2, <1>3, <1>4, <1>5
<1>8. Pad(w)[Chars] < Low
  <2>1. CASE Chars <= Len(w)
    <3>1. Len(w) = Chars
      BY <2>1, <1>1, Widths DEF Accepted
    <3>2. Pad(w)[Chars] = w[Chars] /\ w[Chars] <= Low - 1 /\ w[Chars] \in Nat
      BY <1>2, <1>3, <1>5, <3>1, Widths DEF Accepted
    <3>3. QED  BY <1>3, <3>2
  <2>2. CASE ~(Chars <= Len(w))
    BY <1>3, <1>5, <2>2
  <2>3. QED  BY <2>1, <2>2
<1>9. QED  BY <1>6, <1>7, <1>8 DEF Spellings

\* The sums bounded as in SumsExist, in one name.
Bounded(a, d) == Sums(a, d) /\ \A k \in 0 .. FullChars : a[k] < Above(k)

\* A character more does not shift one out.
LEMMA NoneLost ==
    ASSUME NEW d \in Spellings, NEW a, Bounded(a, d)
    PROVE  /\ \A k \in 1 .. FullChars : a[k] = Shl(a[k - 1], CharBits) + d[k]
           /\ \A k \in 0 .. FullChars : Shl(a[k], Width - CharBits * k) = a[k] * Below(k)
<1>1. ASSUME NEW k \in 1 .. FullChars PROVE a[k] = Shl(a[k - 1], CharBits) + d[k]
  <2>. DEFINE x == a[k - 1] * Base
  <2>1. k \in 0 .. FullChars /\ k - 1 \in 0 .. FullChars /\ k \in 1 .. Chars
    BY Widths
  <2>2. a[k] = x + d[k] /\ a[k - 1] \in Nat /\ d[k] \in Nat /\ a[k] < Above(k) /\ x \in Nat
    <3>1. a[k] = x + d[k] /\ a[k - 1] \in Nat /\ a[k] < Above(k)
      BY <2>1 DEF Bounded, Sums
    <3>2. d[k] \in Nat
      BY <2>1 DEF Spellings
    <3>3. x \in Nat
      BY <3>1, Weights
    <3>4. QED  BY <3>1, <3>2, <3>3
  <2>3. Above(k) <= Modulus
    <3>. DEFINE up == Above(k)
                q == Below(k)
    <3>1. up \in Nat /\ q \in Nat /\ q >= 1 /\ up * q = Modulus
      BY <2>1, Weights
    <3>. HIDE DEF up, q
    <3>2. up <= up * q
      BY <3>1
    <3>3. QED  BY <3>1, <3>2 DEF up
  <2>4. Shl(a[k - 1], CharBits) = x % Modulus
    BY DEF Shl, Base, Modulus
  <2>5. x < Modulus
    <3>. HIDE DEF x
    <3>1. Above(k) \in Nat /\ Modulus \in Nat
      BY <2>1, Weights
    <3>2. QED  BY <2>2, <2>3, <3>1
  <2>. HIDE DEF x
  <2>6. x % Modulus = x
    BY <2>2, <2>5, Weights
  <2>7. QED  BY <2>2, <2>4, <2>6
<1>2. ASSUME NEW k \in 0 .. FullChars PROVE Shl(a[k], Width - CharBits * k) = a[k] * Below(k)
  <2>. DEFINE b == Below(k)
              up == Above(k)
              c == a[k]
  <2>1. c \in Nat /\ c < up /\ up \in Nat /\ b \in Nat /\ b >= 1 /\ up * b = Modulus
    BY Weights DEF Bounded, Sums
  <2>2. Shl(c, Width - CharBits * k) = (c * b) % Modulus
    BY DEF Shl, Below, Modulus
  <2>. HIDE DEF b, up, c
  <2>3. c * b \in Nat /\ c * b < up * b
    BY <2>1
  <2>4. (c * b) % Modulus = c * b
    BY <2>1, <2>3, Weights
  <2>5. QED  BY <2>2, <2>4 DEF b, c
<1>3. QED  BY <1>1, <1>2

\* What follows the last character counts nothing.
LEMMA DotsAdd ==
    ASSUME NEW d \in Spellings, NEW a, Bounded(a, d), NEW n \in 0 .. FullChars,
           \A k \in n + 1 .. FullChars : d[k] = 0
    PROVE  a[FullChars] * Low = a[n] * Below(n)
<1>. DEFINE S == {k \in Nat : n + k <= FullChars => a[n + k] * Below(n + k) = a[n] * Below(n)}
<1>1. 0 \in S
  OBVIOUS
<1>2. ASSUME NEW k \in Nat, k \in S PROVE k + 1 \in S
  <2>1. CASE n + (k + 1) <= FullChars
    <3>. DEFINE m == n + k
                b == Below(n + (k + 1))
                x == a[n + k]
    <3>1. /\ m + 1 = n + (k + 1) /\ m + 1 \in 1 .. FullChars /\ (m + 1) - 1 = m
          /\ m + 1 \in n + 1 .. FullChars
          /\ m <= FullChars /\ m + 1 \in 0 .. FullChars /\ m \in 0 .. FullChars
      BY <2>1, Widths
    <3>2. a[m + 1] = x * Base + 0 /\ x \in Nat
      BY <3>1 DEF Bounded, Sums
    <3>3. Below(m) = Base * b /\ b \in Nat /\ Base \in Nat
      BY <3>1, Weights
    <3>4. a[m] * Below(m) = a[n] * Below(n)
      BY <1>2, <3>1
    <3>5. a[m + 1] * b = x * (Base * b)
      <4>1. a[m + 1] = x * Base
        BY <3>2, <3>3
      <4>. HIDE DEF x, b, m
      <4>2. (x * Base) * b = x * (Base * b)
        BY <3>2, <3>3
      <4>3. QED  BY <4>1, <4>2
    <3>6. a[n + (k + 1)] * Below(n + (k + 1)) = a[n] * Below(n)
      BY <3>1, <3>3, <3>4, <3>5
    <3>7. QED  BY <3>6
  <2>2. QED  BY <2>1
<1>3. S = Nat
  <2>. HIDE DEF S
  <2>1. S \subseteq Nat
    BY DEF S
  <2>2. QED  BY <1>1, <1>2, <2>1, Induct
<1>4. FullChars - n \in Nat /\ n + (FullChars - n) = FullChars
  BY Widths
<1>5. FullChars - n \in S
  <2>. HIDE DEF S
  <2>1. QED  BY <1>3, <1>4
<1>6. QED  BY <1>4, <1>5, Weights, Widths

\* The name of a string is what its characters, and then dots, make.
LEMMA NameComposed ==
    ASSUME NEW w \in Seq(Letters), Accepted(w), NEW a, Bounded(a, Pad(w))
    PROVE  NameOf(w) = a[FullChars] * Low + Pad(w)[Chars]
<1>. DEFINE d == Pad(w)
            n == IF Len(w) < FullChars THEN Len(w) ELSE FullChars
            Solves(g) == g = [k \in 0 .. n |-> IF k = 0 THEN 0 ELSE Shl(g[k - 1], CharBits) + w[k]]
            packed == CHOOSE g : Solves(g)
            value == Shl(packed[n], LastBits + CharBits * (FullChars - n))
<1>0. /\ Len(w) \in Nat /\ n \in 0 .. FullChars /\ n <= Len(w) /\ n <= FullChars /\ n \in Nat
      /\ FullChars \in Nat /\ Chars = FullChars + 1 /\ Chars \in 1 .. Chars
      /\ (Len(w) < FullChars => n = Len(w)) /\ (~(Len(w) < FullChars) => n = FullChars)
  BY Widths
<1>1. NameOf(w) = IF Len(w) < Chars THEN value ELSE value + w[Chars]
  <2>1. ~(Len(w) > Chars)
    BY <1>0 DEF Accepted
  <2>2. Foreign \notin ToSet(w)
    BY DEF Accepted, ToSet
  <2>3. ~(Len(w) < Chars) => ~(w[Chars] > Pow2[LastBits] - 1)
    <3>1. ~(Len(w) < Chars) => Len(w) = Chars /\ w[Chars] \in Letters /\ w[Chars] # Foreign
      BY <1>0 DEF Accepted
    <3>2. ~(Len(w) < Chars) => w[Chars] <= Low - 1 /\ w[Chars] \in Nat /\ Low \in Nat
      BY <3>1, Letter, Weights DEF Accepted
    <3>3. QED  BY <3>2 DEF Low
  <2>4. NameOf(w) = IF Len(w) > Chars \/ Foreign \in ToSet(w) THEN Rejected
                    ELSE IF Len(w) < Chars THEN value
                    ELSE IF w[Chars] > Pow2[LastBits] - 1 THEN Rejected
                    ELSE value + w[Chars]
    BY DEF NameOf
  <2>. HIDE DEF value
  <2>5. QED  BY <2>1, <2>2, <2>3, <2>4
<1>2. /\ d \in Spellings
      /\ \A k \in 1 .. n : d[k] = w[k] /\ k \in 1 .. FullChars
      /\ \A k \in n + 1 .. FullChars : d[k] = 0
      /\ d[Chars] = IF Len(w) < Chars THEN 0 ELSE w[Chars]
  <2>1. d \in Spellings
    BY Padded
  <2>2. \A k \in 1 .. Chars : d[k] = IF k <= Len(w) THEN w[k] ELSE 0
    BY DEF Pad
  <2>. HIDE DEF d, n
  <2>3. \A k \in 1 .. n : k \in 1 .. Chars /\ k <= Len(w) /\ k \in 1 .. FullChars
    BY <1>0
  <2>4. \A k \in n + 1 .. FullChars : k \in 1 .. Chars /\ ~(k <= Len(w))
    BY <1>0
  <2>5. Chars <= Len(w) <=> ~(Len(w) < Chars)
    BY <1>0
  <2>6. QED  BY <1>0, <2>1, <2>2, <2>3, <2>4, <2>5
<1>. HIDE DEF d, n
<1>3. /\ a[0] = 0 /\ \A k \in 1 .. n : a[k] = Shl(a[k - 1], CharBits) + w[k]
  <2>1. \A k \in 1 .. FullChars : a[k] = Shl(a[k - 1], CharBits) + d[k]
    BY <1>2, NoneLost DEF d
  <2>2. a[0] = 0
    BY DEF Bounded, Sums
  <2>3. QED  BY <1>2, <2>1, <2>2
<1>4. Solves([k \in 0 .. n |-> a[k]])
  <2>1. \A k \in 0 .. n : k # 0 => k \in 1 .. n /\ k - 1 \in 0 .. n
    BY <1>0
  <2>2. QED  BY <1>3, <2>1
<1>5. Solves(packed)
  <2>. HIDE DEF Solves
  <2>1. QED  BY <1>4
<1>. HIDE DEF packed
<1>6. packed[n] = a[n]
  <2>1. packed[0] = 0 /\ \A k \in 1 .. n : packed[k] = Shl(packed[k - 1], CharBits) + w[k]
    <3>1. 0 \in 0 .. n /\ \A k \in 1 .. n : k \in 0 .. n /\ k # 0
      BY <1>0
    <3>2. QED  BY <1>5, <3>1
  <2>. DEFINE S == {k \in Nat : k <= n => packed[k] = a[k]}
  <2>2. 0 \in S
    BY <1>3, <2>1
  <2>3. ASSUME NEW k \in Nat, k \in S PROVE k + 1 \in S
    <3>1. k + 1 <= n => k + 1 \in 1 .. n /\ (k + 1) - 1 = k /\ k <= n
      BY <1>0
    <3>2. QED  BY <1>3, <2>1, <2>3, <3>1
  <2>4. S = Nat
    <3>. HIDE DEF S
    <3>1. S \subseteq Nat
      BY DEF S
    <3>2. QED  BY <2>2, <2>3, <3>1, Induct
  <2>5. QED  BY <1>0, <2>4
<1>7. value = a[FullChars] * Low
  <2>1. LastBits + CharBits * (FullChars - n) = Width - CharBits * n
    BY <1>0, Widths
  <2>2. Shl(a[n], Width - CharBits * n) = a[n] * Below(n)
    BY <1>0, <1>2, NoneLost DEF d
  <2>3. a[FullChars] * Low = a[n] * Below(n)
    BY <1>0, <1>2, DotsAdd DEF d
  <2>4. QED  BY <1>6, <2>1, <2>2, <2>3
<1>. HIDE DEF value
<1>8. a[FullChars] * Low \in Nat
  <2>1. a[FullChars] \in Nat
    BY <1>0 DEF Bounded, Sums
  <2>2. QED  BY <2>1, Weights
<1>9. QED  BY <1>1, <1>2, <1>7, <1>8 DEF d

\* The name of an accepted string is the value that it spells (name.hpp:63-84).
LEMMA Named ==
    ASSUME NEW w \in Seq(Letters), Accepted(w)
    PROVE  NameOf(w) \in NameValues /\ Spelled(NameOf(w)) = Pad(w)
<1>1. PICK a : Bounded(a, Pad(w))
  BY Padded, SumsExist DEF Bounded
<1>2. NameOf(w) = a[FullChars] * Low + Pad(w)[Chars]
  BY <1>1, NameComposed
<1>3. QED  BY <1>1, <1>2, Padded, Composed DEF Bounded

\* The checks of the constructor stop any other string (name.hpp:65-83, 101).
LEMMA NotNamed ==
    ASSUME NEW w \in Seq(Letters), ~Accepted(w)
    PROVE  NameOf(w) = Rejected
<1>1. Len(w) \in Nat /\ Chars \in Nat /\ Low \in Nat
  BY Widths, Weights
<1>2. Len(w) > Chars \/ Foreign \in ToSet(w) \/ (Len(w) = Chars /\ ~(w[Chars] <= Low - 1))
  BY <1>1 DEF Accepted, ToSet
<1>3. CASE Len(w) > Chars \/ Foreign \in ToSet(w)
  BY <1>3 DEF NameOf
<1>4. CASE ~(Len(w) > Chars \/ Foreign \in ToSet(w)) /\ Len(w) = Chars /\ ~(w[Chars] <= Low - 1)
  <2>1. Chars \in 1 .. Len(w) /\ w[Chars] \in Letters /\ w[Chars] # Foreign
    <3>1. Chars \in 1 .. Len(w)
      BY <1>4, Widths
    <3>2. QED  BY <1>4, <3>1 DEF ToSet
  <2>2. w[Chars] > Pow2[LastBits] - 1 /\ ~(Len(w) < Chars)
    BY <1>1, <1>4, <2>1, Letter DEF Low
  <2>3. QED  BY <1>4, <2>2 DEF NameOf
<1>5. QED  BY <1>2, <1>3, <1>4

\* What is trimmed is the prefix of what is padded.
LEMMA TrimmedPad ==
    ASSUME NEW w \in Seq(Letters), Len(w) <= Chars, NEW n, Ends(Pad(w), Chars, n)
    PROVE  Trimmed(w) = Prefix(Pad(w), n) /\ n \in 0 .. Len(w)
<1>. DEFINE m == Len(w)
            d == Pad(w)
<1>1. m \in Nat /\ m <= Chars /\ Chars \in Nat
  BY Widths
<1>2. \A k \in 1 .. Chars : d[k] = IF k <= m THEN w[k] ELSE 0
  BY DEF Pad
<1>. HIDE DEF d, m
<1>3. n \in 0 .. Chars /\ (n > 0 => d[n] # 0) /\ \A k \in n + 1 .. Chars : d[k] = 0
  BY DEF Ends, d
<1>4. n \in 0 .. m
  BY <1>1, <1>2, <1>3
<1>5. n > 0 => w[n] # 0
  BY <1>1, <1>2, <1>3, <1>4
<1>6. \A k \in n + 1 .. m : w[k] = 0
  <2>1. \A k \in n + 1 .. m : k \in n + 1 .. Chars /\ k \in 1 .. Chars /\ k <= m
    BY <1>1, <1>4
  <2>2. QED  BY <1>2, <1>3, <2>1
<1>7. Trimmed(w) = Prefix(w, n)
  BY <1>1, <1>4, <1>5, <1>6, TrimmedIs DEF Ends, m
<1>8. \A k \in 1 .. n : w[k] = d[k]
  BY <1>1, <1>2, <1>4
<1>9. QED  BY <1>4, <1>7, <1>8 DEF Prefix, d, m

\* A string that the contract accepts reads back the same but for trailing dots.
LEMMA StringReadsBack ==
    ASSUME NEW w \in Seq(Letters), Accepted(w)
    PROVE  WriteAsString(NameOf(w)) = Trimmed(w)
<1>1. PICK n : Ends(Pad(w), Chars, n)
  BY CharsEnd
<1>2. NameOf(w) \in NameValues /\ Spelled(NameOf(w)) = Pad(w)
  BY Named
<1>3. WriteAsString(NameOf(w)) = Prefix(Pad(w), n)
  BY <1>1, <1>2, Written
<1>4. Trimmed(w) = Prefix(Pad(w), n)
  BY <1>1, TrimmedPad DEF Accepted
<1>5. QED  BY <1>3, <1>4

\* What is written of a value is a string that is accepted and padded to its spelling.
LEMMA WrittenAccepted ==
    ASSUME NEW v \in NameValues
    PROVE  /\ WriteAsString(v) \in Seq(Letters)
           /\ Accepted(WriteAsString(v))
           /\ Pad(WriteAsString(v)) = Spelled(v)
           /\ Ends(Spelled(v), Chars, Len(WriteAsString(v)))
<1>1. PICK n : Ends(Spelled(v), Chars, n)
  BY CharsEnd
<1>. DEFINE d == Spelled(v)
            w == WriteAsString(v)
<1>2. w = Prefix(d, n)
  BY <1>1, Written
<1>3. /\ d \in [1 .. Chars -> Nat] /\ (\A k \in 1 .. FullChars : d[k] < Base) /\ d[Chars] < Low
  BY SpelledTyped DEF Spellings
<1>4. n \in 0 .. Chars /\ n \in Nat /\ \A k \in n + 1 .. Chars : d[k] = 0
  BY <1>1 DEF Ends
<1>5. Low \in Nat /\ Base \in Nat /\ Low <= Base /\ Chars \in 1 .. Chars /\ FullChars = Chars - 1
  BY Weights, Widths
<1>. HIDE DEF d, w
<1>6. Len(w) = n /\ \A k \in 1 .. n : w[k] = d[k]
  BY <1>2, <1>4 DEF Prefix
<1>7. ASSUME NEW k \in 1 .. n PROVE d[k] \in Letters /\ d[k] # Foreign
  <2>1. k \in 1 .. Chars /\ (k = Chars \/ k \in 1 .. FullChars)
    BY <1>4, <1>5
  <2>2. d[k] \in Nat /\ d[k] < Base
    BY <1>3, <1>5, <2>1
  <2>3. QED  BY <2>2, Letter
<1>8. w \in Seq(Letters)
  BY <1>2, <1>4, <1>7 DEF Prefix
<1>9. Accepted(w)
  <2>1. n = Chars => w[Chars] = d[Chars] /\ d[Chars] \in Nat
    BY <1>3, <1>5, <1>6
  <2>2. n = Chars => w[Chars] <= Low - 1
    BY <1>3, <1>5, <2>1
  <2>3. QED  BY <1>4, <1>6, <1>7, <2>2 DEF Accepted
<1>10. Pad(w) = d
  <2>1. \A k \in 1 .. Chars : IF k <= n THEN w[k] = d[k] ELSE d[k] = 0
    <3>1. \A k \in 1 .. Chars : IF k <= n THEN k \in 1 .. n ELSE k \in n + 1 .. Chars
      BY <1>4
    <3>2. QED  BY <1>4, <1>6, <3>1
  <2>2. d = [k \in 1 .. Chars |-> d[k]]
    BY <1>3
  <2>3. Pad(w) = [k \in 1 .. Chars |-> d[k]]
    BY <1>6, <2>1 DEF Pad
  <2>4. QED  BY <2>2, <2>3
<1>11. QED  BY <1>1, <1>6, <1>8, <1>9, <1>10 DEF d, w

\* A value is the name of what is written of it.
LEMMA ValueReadsBack ==
    ASSUME NEW v \in NameValues
    PROVE  NameOf(WriteAsString(v)) = v
<1>1. WriteAsString(v) \in Seq(Letters) /\ Accepted(WriteAsString(v)) /\ Pad(WriteAsString(v)) = Spelled(v)
  BY WrittenAccepted
<1>2. NameOf(WriteAsString(v)) \in NameValues /\ Spelled(NameOf(WriteAsString(v))) = Spelled(v)
  BY <1>1, Named
<1>3. QED  BY <1>2, SpelledOnce

\* The tools spell a value the same way (utils.hpp:82-100).
LEMMA SpelledTrimmed ==
    ASSUME NEW v \in NameValues
    PROVE  Trimmed(Spelled(v)) = WriteAsString(v) /\ Len(Spelled(v)) = Chars
<1>1. PICK n : Ends(Spelled(v), Chars, n)
  BY CharsEnd
<1>2. Len(Spelled(v)) = Chars
  BY Widths DEF Spelled
<1>3. Trimmed(Spelled(v)) = Prefix(Spelled(v), n)
  BY <1>1, <1>2, TrimmedIs, Widths
<1>4. QED  BY <1>1, <1>2, <1>3, Written

\* What the tools take a string for: a foreign character is a dot, and of the last one
\* the low bits count.
Symbols(w) ==
    [k \in 1 .. Chars |->
        LET c == IF k <= Len(w) THEN Symbol(w[k]) ELSE 0
        IN  IF k = Chars THEN LastChar(c) ELSE c]

\* The symbols of every string spell a value.
LEMMA SymbolsTyped ==
    ASSUME NEW w \in Seq(Letters)
    PROVE  /\ Symbols(w) \in Spellings
           /\ \A k \in 1 .. FullChars : Symbols(w)[k] = IF k <= Len(w) THEN Symbol(w[k]) ELSE 0
           /\ Symbols(w)[Chars] = LastChar(IF Chars <= Len(w) THEN Symbol(w[Chars]) ELSE 0)
<1>. DEFINE c(k) == IF k <= Len(w) THEN Symbol(w[k]) ELSE 0
            d == Symbols(w)
<1>1. /\ Low \in Nat /\ Low >= 1 /\ Base \in Nat /\ Base >= 1
      /\ Chars \in 1 .. Chars /\ \A k \in 1 .. FullChars : k \in 1 .. Chars /\ k # Chars
  BY Weights, Widths
<1>2. ASSUME NEW k \in 1 .. Chars PROVE c(k) \in Nat /\ c(k) < Base
  <2>1. k <= Len(w) => w[k] \in Letters
    <3>1. k <= Len(w) => k \in 1 .. Len(w)
      BY <1>1
    <3>2. QED  BY <3>1
  <2>2. QED  BY <1>1, <2>1, Letter DEF Symbol
<1>3. d = [k \in 1 .. Chars |-> IF k = Chars THEN LastChar(c(k)) ELSE c(k)]
  BY DEF Symbols
<1>. HIDE DEF c, d
<1>4. \A k \in 1 .. Chars : LastChar(c(k)) \in Nat /\ LastChar(c(k)) < Low
  BY <1>1, <1>2, Division DEF LastChar, Low
<1>5. d \in [1 .. Chars -> Nat] /\ (\A k \in 1 .. FullChars : d[k] = c(k)) /\ d[Chars] = LastChar(c(Chars))
  BY <1>1, <1>2, <1>3, <1>4
<1>6. d \in Spellings
  BY <1>1, <1>2, <1>4, <1>5 DEF Spellings
<1>7. QED  BY <1>5, <1>6 DEF c, d

\* string_to_name makes the value of the symbols (utils.hpp:30-46).
LEMMA Summed ==
    ASSUME NEW w \in Seq(Letters)
    PROVE  StringToName(w) \in NameValues /\ Spelled(StringToName(w)) = Symbols(w)
<1>. DEFINE at(k) == IF k <= Len(w) THEN Symbol(w[k]) ELSE 0
            Solves(g) == g = [k \in 0 .. FullChars |->
                                IF k = 0 THEN 0 ELSE g[k - 1] + Shl(at(k), Width - CharBits * k)]
            sum == CHOOSE g : Solves(g)
            d == Symbols(w)
<1>1. StringToName(w) = sum[FullChars] + LastChar(at(Chars))
  BY DEF StringToName
<1>2. d \in Spellings /\ (\A k \in 1 .. FullChars : d[k] = at(k)) /\ d[Chars] = LastChar(at(Chars))
  BY SymbolsTyped
<1>. HIDE DEF at, d
<1>3. PICK a : Bounded(a, d)
  BY <1>2, SumsExist DEF Bounded
<1>. DEFINE g == [k \in 0 .. FullChars |-> a[k] * Below(k)]
<1>4. ASSUME NEW k \in 1 .. FullChars
      PROVE  a[k] * Below(k) = a[k - 1] * Below(k - 1) + Shl(at(k), Width - CharBits * k)
  <2>. DEFINE b == Below(k)
              c == at(k)
              x == a[k - 1]
              up == Above(k - 1)
  <2>1. k \in 0 .. FullChars /\ k - 1 \in 0 .. FullChars /\ k \in 1 .. Chars
    BY Widths
  <2>2. a[k] = x * Base + d[k] /\ x \in Nat
    BY <1>3, <2>1 DEF Bounded, Sums
  <2>3. c = d[k] /\ c \in Nat /\ c < Base
    BY <1>2, <2>1 DEF Spellings
  <2>4. /\ b \in Nat /\ b >= 1 /\ Base \in Nat /\ Below(k - 1) = Base * b
        /\ up \in Nat /\ up >= 1 /\ up * (Base * b) = Modulus /\ Modulus \in Nat
    BY <2>1, Weights
  <2>5. Shl(c, Width - CharBits * k) = (c * b) % Modulus
    BY DEF Shl, Below, Modulus
  <2>. HIDE DEF b, c, x, up
  <2>6. c * b \in Nat /\ c * b < Base * b /\ Base * b \in Nat
    BY <2>3, <2>4
  <2>. DEFINE y == Base * b
  <2>7. y <= up * y
    <3>1. y \in Nat
      BY <2>6
    <3>. HIDE DEF y
    <3>2. QED  BY <2>4, <3>1
  <2>8. c * b < Modulus
    BY <2>4, <2>6, <2>7
  <2>9. (c * b) % Modulus = c * b
    BY <2>4, <2>6, <2>8
  <2>10. (x * Base + c) * b = x * (Base * b) + c * b
    BY <2>2, <2>3, <2>4
  <2>11. QED  BY <2>2, <2>3, <2>4, <2>5, <2>9, <2>10 DEF b, c, x
<1>5. Solves(g)
  <2>1. a[0] * Below(0) = 0
    BY <1>3, Weights DEF Bounded, Sums
  <2>2. \A k \in 0 .. FullChars : k # 0 => k \in 1 .. FullChars /\ k - 1 \in 0 .. FullChars
    BY Widths
  <2>3. QED  BY <1>4, <2>1, <2>2
<1>6. Solves(sum)
  <2>. HIDE DEF Solves
  <2>1. QED  BY <1>5
<1>. HIDE DEF g, sum
<1>7. ASSUME NEW f, Solves(f)
      PROVE  f[0] = 0 /\ \A k \in 1 .. FullChars : f[k] = f[k - 1] + Shl(at(k), Width - CharBits * k)
  <2>1. 0 \in 0 .. FullChars /\ \A k \in 1 .. FullChars : k \in 0 .. FullChars /\ k # 0
    BY Widths
  <2>2. QED  BY <1>7, <2>1
<1>. HIDE DEF Solves
<1>8. /\ sum[0] = 0 /\ \A k \in 1 .. FullChars : sum[k] = sum[k - 1] + Shl(at(k), Width - CharBits * k)
      /\ g[0] = 0 /\ \A k \in 1 .. FullChars : g[k] = g[k - 1] + Shl(at(k), Width - CharBits * k)
  BY <1>5, <1>6, <1>7
<1>9. sum[FullChars] = g[FullChars]
  <2>. DEFINE S == {k \in Nat : k <= FullChars => sum[k] = g[k]}
  <2>1. 0 \in S
    BY <1>8
  <2>2. ASSUME NEW k \in Nat, k \in S PROVE k + 1 \in S
    <3>1. k + 1 <= FullChars => k + 1 \in 1 .. FullChars /\ (k + 1) - 1 = k /\ k <= FullChars
      BY Widths
    <3>2. QED  BY <1>8, <2>2, <3>1
  <2>3. S = Nat
    <3>. HIDE DEF S
    <3>1. S \subseteq Nat
      BY DEF S
    <3>2. QED  BY <2>1, <2>2, <3>1, Induct
  <2>4. FullChars \in S
    <3>. HIDE DEF S
    <3>1. QED  BY <2>3, Widths
  <2>5. QED  BY <2>4, Widths
<1>10. g[FullChars] = a[FullChars] * Low
  <2>1. FullChars \in 0 .. FullChars /\ Below(FullChars) = Low
    BY Widths, Weights
  <2>2. QED  BY <2>1 DEF g
<1>11. StringToName(w) = a[FullChars] * Low + d[Chars]
  BY <1>1, <1>2, <1>9, <1>10
<1>12. QED  BY <1>2, <1>3, <1>11, Composed DEF Bounded, d

\* The symbols of a string that the contract accepts are its characters.
LEMMA SymbolsArePad ==
    ASSUME NEW w \in Seq(Letters), Accepted(w)
    PROVE  Symbols(w) = Pad(w)
<1>. DEFINE d == Symbols(w)
            e == Pad(w)
<1>1. \A k \in 1 .. Len(w) : Symbol(w[k]) = w[k]
  BY DEF Accepted, Symbol
<1>2. /\ \A k \in 1 .. FullChars : d[k] = IF k <= Len(w) THEN Symbol(w[k]) ELSE 0
      /\ d[Chars] = LastChar(IF Chars <= Len(w) THEN Symbol(w[Chars]) ELSE 0)
      /\ d \in Spellings
  BY SymbolsTyped
<1>3. e \in Spellings /\ \A k \in 1 .. Chars : e[k] = IF k <= Len(w) THEN w[k] ELSE 0
  BY Padded DEF Pad
<1>4. /\ Chars \in 1 .. Chars /\ Len(w) \in Nat
      /\ \A k \in 1 .. Chars : (k <= Len(w) => k \in 1 .. Len(w)) /\ (k = Chars \/ k \in 1 .. FullChars)
      /\ \A k \in 1 .. FullChars : k \in 1 .. Chars
  BY Widths
<1>. HIDE DEF d, e
<1>5. d[Chars] = e[Chars]
  <2>1. d[Chars] = LastChar(e[Chars])
    BY <1>1, <1>2, <1>3, <1>4
  <2>2. e[Chars] \in Nat /\ e[Chars] < Low /\ Low \in Nat
    BY <1>3, <1>4, Weights DEF Spellings
  <2>3. e[Chars] % Low = e[Chars]
    BY <2>2
  <2>4. QED  BY <2>1, <2>3 DEF LastChar, Low
<1>6. \A k \in 1 .. FullChars : d[k] = e[k]
  BY <1>1, <1>2, <1>3, <1>4
<1>7. \A k \in 1 .. Chars : d[k] = e[k]
  BY <1>4, <1>5, <1>6
<1>8. d = [k \in 1 .. Chars |-> d[k]] /\ e = [k \in 1 .. Chars |-> e[k]]
  BY <1>2, <1>3 DEF Spellings
<1>9. d = e
  BY <1>7, <1>8
<1>10. QED  BY <1>9 DEF d, e

\* What the contract accepts has the same name in the tools.
LEMMA SameName ==
    ASSUME NEW w \in Seq(Letters), Accepted(w)
    PROVE  StringToName(w) = NameOf(w)
<1>1. StringToName(w) \in NameValues /\ Spelled(StringToName(w)) = Pad(w)
  BY Summed, SymbolsArePad
<1>2. QED  BY <1>1, Named, SpelledOnce

\* validate_name accepts what the contract accepts without dots at its end.
LEMMA Validated ==
    ASSUME NEW w \in Seq(Letters)
    PROVE  ValidateName(w) <=> Accepted(w) /\ Trimmed(w) = w
<1>1. ASSUME Accepted(w), Trimmed(w) = w PROVE ValidateName(w)
  <2>1. Trimmed(Spelled(StringToName(w))) = WriteAsString(NameOf(w))
    BY <1>1, SameName, Named, SpelledTrimmed
  <2>2. WriteAsString(NameOf(w)) = Trimmed(w)
    BY <1>1, StringReadsBack
  <2>3. QED  BY <1>1, <2>1, <2>2 DEF ValidateName, Accepted
<1>2. ASSUME ValidateName(w) PROVE Accepted(w) /\ Trimmed(w) = w
  <2>. DEFINE d == Symbols(w)
  <2>1. PICK n : Ends(d, Chars, n)
    BY CharsEnd
  <2>2. w = Prefix(d, n) /\ Len(w) <= Chars
    <3>1. StringToName(w) \in NameValues /\ Spelled(StringToName(w)) = d
      BY Summed
    <3>2. Trimmed(d) = WriteAsString(StringToName(w)) /\ WriteAsString(StringToName(w)) = Prefix(d, n)
      BY <2>1, <3>1, SpelledTrimmed, Written
    <3>3. QED  BY <1>2, <3>1, <3>2 DEF ValidateName
  <2>3. d \in [1 .. Chars -> Nat] /\ d[Chars] < Low
    BY SymbolsTyped DEF Spellings
  <2>. HIDE DEF d
  <2>4. n \in 0 .. Chars /\ n \in Nat
    BY <2>1 DEF Ends
  <2>5. Len(w) = n /\ \A k \in 1 .. n : w[k] = d[k] /\ k \in 1 .. Chars
    <3>. DEFINE f == [k \in 1 .. n |-> d[k]]
    <3>1. w = f
      BY <2>2 DEF Prefix
    <3>2. Len(f) = n /\ \A k \in 1 .. n : f[k] = d[k]
      BY <2>4
    <3>3. \A k \in 1 .. n : k \in 1 .. Chars
      BY <2>4, Widths
    <3>. HIDE DEF f
    <3>4. QED  BY <3>1, <3>2, <3>3
  <2>6. \A k \in 1 .. n : w[k] # Foreign
    BY <2>3, <2>5, Letter
  <2>7. n = Chars => w[Chars] <= Low - 1
    <3>1. n = Chars => w[Chars] = d[Chars] /\ d[Chars] \in Nat
      BY <2>3, <2>5, Widths
    <3>2. QED  BY <2>3, <3>1, Weights
  <2>8. Accepted(w)
    BY <2>4, <2>5, <2>6, <2>7 DEF Accepted
  <2>9. Ends(Pad(w), Chars, n) /\ w = Prefix(Pad(w), n)
    BY <2>1, <2>2, <2>8, SymbolsArePad DEF d
  <2>10. QED  BY <2>2, <2>8, <2>9, TrimmedPad
<1>3. QED  BY <1>1, <1>2

\* length is the length of what is written (name.hpp:109-124).
LEMMA LengthIs ==
    ASSUME NEW v \in NameValues
    PROVE  /\ Length(v) = Len(WriteAsString(v))
           /\ Length(v) < Chars <=> LastChar(v) = 0
<1>. DEFINE d == Spelled(v)
            n == Len(WriteAsString(v))
            chars == {k \in 0 .. FullChars : Top(Shl(v, CharBits * k)) > 0}
            e == CHOOSE k \in chars : \A j \in chars : j <= k
<1>1. Ends(d, Chars, n)
  BY WrittenAccepted
<1>2. /\ d \in [1 .. Chars -> Nat] /\ d[Chars] = LastChar(v)
      /\ \A k \in 1 .. FullChars : d[k] = CharAt(v, k)
  BY SpelledTyped DEF Spellings
<1>3. Length(v) = IF v = 0 THEN 0 ELSE e + 1
  BY DEF Length
<1>. HIDE DEF d, n
<1>4. n \in 0 .. Chars /\ (n > 0 => d[n] # 0) /\ \A k \in n + 1 .. Chars : d[k] = 0
  BY <1>1 DEF Ends
<1>5. ASSUME NEW k \in 0 .. FullChars PROVE Top(Shl(v, CharBits * k)) > 0 <=> d[k + 1] # 0
  <2>1. /\ k + 1 \in 1 .. Chars /\ (k = FullChars => k + 1 = Chars)
        /\ (k # FullChars => k < FullChars /\ k + 1 \in 1 .. FullChars)
    BY Widths
  <2>2. Top(Shl(v, CharBits * k)) = IF k = FullChars THEN 2 * LastChar(v) ELSE CharAt(v, k + 1)
    BY <2>1, Shifted
  <2>3. d[k + 1] \in Nat
    BY <1>2, <2>1
  <2>4. d[k + 1] = IF k = FullChars THEN LastChar(v) ELSE CharAt(v, k + 1)
    BY <1>2, <2>1
  <2>5. QED  BY <2>2, <2>3, <2>4
<1>6. v = 0 <=> n = 0
  <2>1. 0 \in 0 .. FullChars /\ 0 + 1 = 1 /\ Rest(v, 0) = v
    BY Widths, Chain
  <2>2. v = 0 <=> LastChar(v) = 0 /\ \A j \in 1 .. FullChars : CharAt(v, j) = 0
    BY <2>1, NothingLeft
  <2>3. \A k : k \in 1 .. Chars <=> k = Chars \/ k \in 1 .. FullChars
    BY Widths
  <2>4. v = 0 <=> \A k \in 1 .. Chars : d[k] = 0
    BY <1>2, <2>2, <2>3
  <2>5. n = 0 => \A k \in 1 .. Chars : d[k] = 0
    BY <1>4
  <2>6. n # 0 => n \in 1 .. Chars /\ d[n] # 0
    BY <1>4
  <2>7. QED  BY <2>4, <2>5, <2>6
<1>7. ASSUME n # 0 PROVE e = n - 1
  <2>1. n - 1 \in chars
    <3>1. n - 1 \in 0 .. FullChars /\ (n - 1) + 1 = n /\ d[n] # 0
      BY <1>4, <1>7, Widths
    <3>2. QED  BY <1>5, <3>1
  <2>2. ASSUME NEW k \in chars PROVE k <= n - 1
    <3>1. k \in 0 .. FullChars /\ d[k + 1] # 0
      BY <1>5
    <3>2. ~(k + 1 \in n + 1 .. Chars)
      BY <1>4, <3>1
    <3>3. QED  BY <1>4, <3>1, <3>2, Widths
  <2>3. chars \subseteq Nat
    BY Widths
  <2>. HIDE DEF chars
  <2>4. e \in chars /\ \A j \in chars : j <= e
    BY <2>1, <2>2
  <2>5. e <= n - 1 /\ n - 1 <= e /\ e \in Nat
    BY <2>1, <2>2, <2>3, <2>4
  <2>. HIDE DEF e
  <2>6. QED  BY <1>4, <2>5
<1>. HIDE DEF e
<1>8. Length(v) = n
  BY <1>3, <1>4, <1>6, <1>7
<1>9. n < Chars <=> LastChar(v) = 0
  <2>1. n < Chars => Chars \in n + 1 .. Chars
    BY <1>4, Widths
  <2>2. ~(n < Chars) => n = Chars /\ n > 0
    BY <1>4, Widths
  <2>3. QED  BY <1>2, <1>4, <2>1, <2>2
<1>10. QED  BY <1>8, <1>9 DEF n

\* j is the place of the last dot among the first n characters, 0 for none.
LastDot(d, n, j) == j \in 0 .. n /\ (j > 0 => d[j] = 0) /\ \A k \in j + 1 .. n : d[k] # 0

\* The bits that follow character j.
BitsAfter(j) == IF j = 0 THEN 0 ELSE Width - CharBits * j

\* What the loop of suffix knows after k characters: the last dot, and the last one
\* before the last character that is not a dot.
Found(d, k, x) ==
    \E j, n, h : /\ LastDot(d, k, j) /\ x[1] = BitsAfter(j)
                 /\ Ends(d, k, n) /\ LastDot(d, n, h) /\ x[2] = BitsAfter(h)

\* One character more.
LEMMA FoundMore ==
    ASSUME NEW d, NEW k \in Nat, NEW x, NEW y, Found(d, k, x),
           IF d[k + 1] = 0 THEN y[1] = BitsAfter(k + 1) /\ y[2] = x[2] ELSE y[1] = x[1] /\ y[2] = x[1]
    PROVE  Found(d, k + 1, y)
<1>1. PICK j, n, h : /\ LastDot(d, k, j) /\ x[1] = BitsAfter(j)
                     /\ Ends(d, k, n) /\ LastDot(d, n, h) /\ x[2] = BitsAfter(h)
  BY DEF Found
<1>2. k + 1 \in Nat /\ k + 1 \in 0 .. k + 1 /\ ~(\E m \in (k + 1) + 1 .. k + 1 : TRUE)
  OBVIOUS
<1>3. \A m : m \in 0 .. k + 1 => m = k + 1 \/ m \in 0 .. k
  OBVIOUS
<1>4. CASE d[k + 1] = 0
  <2>1. LastDot(d, k + 1, k + 1)
    BY <1>2, <1>4 DEF LastDot
  <2>2. Ends(d, k + 1, n)
    <3>1. n \in 0 .. k + 1 /\ \A m \in n + 1 .. k + 1 : m = k + 1 \/ m \in n + 1 .. k
      BY <1>1 DEF Ends
    <3>2. QED  BY <1>1, <1>4, <3>1 DEF Ends
  <2>3. y[1] = BitsAfter(k + 1) /\ y[2] = BitsAfter(h)
    BY <1>1, <1>4
  <2>4. QED  BY <1>1, <2>1, <2>2, <2>3 DEF Found
<1>5. CASE d[k + 1] # 0
  <2>1. LastDot(d, k + 1, j)
    <3>1. j \in 0 .. k + 1 /\ \A m \in j + 1 .. k + 1 : m = k + 1 \/ m \in j + 1 .. k
      BY <1>1 DEF LastDot
    <3>2. QED  BY <1>1, <1>5, <3>1 DEF LastDot
  <2>2. Ends(d, k + 1, k + 1)
    BY <1>2, <1>5 DEF Ends
  <2>3. y[1] = BitsAfter(j) /\ y[2] = BitsAfter(j)
    BY <1>1, <1>5
  <2>4. QED  BY <2>1, <2>2, <2>3 DEF Found
<1>6. QED  BY <1>4, <1>5

\* The loop of suffix goes over all characters but the last (name.hpp:130-141).
LEMMA DotsFound ==
    ASSUME NEW v \in NameValues
    PROVE  Found(Spelled(v), FullChars, BitsAtDots(v))
<1>. DEFINE E(k, x) == IF CharAt(v, k) = 0 THEN <<Width - CharBits * k, x[2]>> ELSE <<x[1], x[1]>>
            X == Nat \X Nat
            z == <<0, 0>>
            G == [k \in 1 .. FullChars |-> [x \in X |-> E(k, x)]]
            Solves(g) == g = [k \in 0 .. FullChars |-> IF k = 0 THEN z ELSE E(k, g[k - 1])]
            dots == CHOOSE g : Solves(g)
            d == Spelled(v)
<1>1. BitsAtDots(v) = dots[FullChars]
  BY DEF BitsAtDots
<1>2. ASSUME NEW k \in 1 .. FullChars, NEW x \in X PROVE G[k][x] = E(k, x) /\ E(k, x) \in X
  <2>1. k \in 0 .. FullChars
    BY Widths
  <2>2. Width - CharBits * k \in Nat
    BY <2>1, Widths
  <2>3. E(k, x) \in X
    BY <2>2
  <2>4. QED  BY <2>3
<1>3. PICK g : Takes(g, FullChars, X, z, G)
  <2>1. z \in X /\ FullChars \in Nat
    BY Widths
  <2>. HIDE DEF E, X, z, G
  <2>2. Closed(FullChars, X, G)
    BY <1>2 DEF Closed
  <2>3. QED  BY <2>1, <2>2, Recursion
<1>. HIDE DEF E, X, G, d
<1>4. Solves(g)
  <2>1. \A k \in 0 .. FullChars : k # 0 => k \in 1 .. FullChars /\ k - 1 \in 0 .. FullChars
    BY Widths
  <2>2. \A k \in 1 .. FullChars : g[k] = E(k, g[k - 1])
    BY <1>2, <1>3, <2>1 DEF Takes
  <2>3. g = [k \in 0 .. FullChars |-> g[k]] /\ g[0] = z
    BY <1>3 DEF Takes
  <2>. HIDE DEF z
  <2>4. QED  BY <2>1, <2>2, <2>3
<1>5. Solves(dots)
  <2>. HIDE DEF Solves
  <2>1. QED  BY <1>4
<1>. HIDE DEF dots
<1>6. dots[0] = z /\ \A k \in 1 .. FullChars : dots[k] = E(k, dots[k - 1])
  <2>1. 0 \in 0 .. FullChars /\ \A k \in 1 .. FullChars : k \in 0 .. FullChars /\ k # 0
    BY Widths
  <2>. HIDE DEF z
  <2>2. QED  BY <1>5, <2>1
<1>. HIDE DEF Solves
<1>. DEFINE S == {k \in Nat : k <= FullChars => Found(d, k, dots[k])}
<1>7. 0 \in S
  <2>1. dots[0][1] = BitsAfter(0) /\ dots[0][2] = BitsAfter(0)
    BY <1>6 DEF BitsAfter
  <2>2. LastDot(d, 0, 0) /\ Ends(d, 0, 0)
    BY DEF LastDot, Ends
  <2>3. Found(d, 0, dots[0])
    BY <2>1, <2>2 DEF Found
  <2>4. QED  BY <2>3
<1>8. ASSUME NEW k \in Nat, k \in S PROVE k + 1 \in S
  <2>1. CASE k + 1 <= FullChars
    <3>1. k + 1 \in 1 .. FullChars /\ (k + 1) - 1 = k /\ k <= FullChars /\ k + 1 # 0
      BY <2>1, Widths
    <3>2. dots[k + 1] = E(k + 1, dots[k])
      BY <1>6, <3>1
    <3>3. d[k + 1] = CharAt(v, k + 1)
      BY <3>1, SpelledTyped DEF d
    <3>4. IF d[k + 1] = 0 THEN dots[k + 1][1] = BitsAfter(k + 1) /\ dots[k + 1][2] = dots[k][2]
                         ELSE dots[k + 1][1] = dots[k][1] /\ dots[k + 1][2] = dots[k][1]
      BY <3>1, <3>2, <3>3 DEF E, BitsAfter
    <3>5. Found(d, k, dots[k])
      BY <1>8, <3>1
    <3>6. Found(d, k + 1, dots[k + 1])
      BY <3>4, <3>5, FoundMore
    <3>7. QED  BY <3>6
  <2>2. QED  BY <2>1
<1>9. S = Nat
  <2>. HIDE DEF S
  <2>1. S \subseteq Nat
    BY DEF S
  <2>2. QED  BY <1>7, <1>8, <2>1, Induct
<1>10. FullChars \in S
  <2>. HIDE DEF S
  <2>1. QED  BY <1>9, Widths
<1>11. QED  BY <1>1, <1>10, Widths DEF d

\* The bits that suffix keeps are those after the last dot of what is written.
LEMMA RemainingIs ==
    ASSUME NEW v \in NameValues, NEW n, Ends(Spelled(v), Chars, n)
    PROVE  \E j : LastDot(Spelled(v), n, j) /\ Remaining(v) = BitsAfter(j)
<1>. DEFINE d == Spelled(v)
<1>1. PICK j, m, h : /\ LastDot(d, FullChars, j) /\ BitsAtDots(v)[1] = BitsAfter(j)
                     /\ Ends(d, FullChars, m) /\ LastDot(d, m, h) /\ BitsAtDots(v)[2] = BitsAfter(h)
  BY DotsFound DEF Found
<1>2. d[Chars] = LastChar(v) /\ LastChar(v) \in Nat
  <2>1. Chars \in 1 .. Chars
    BY Widths
  <2>2. QED  BY <2>1, SpelledTyped DEF Spellings
<1>3. Chars = FullChars + 1 /\ FullChars \in Nat /\ Chars \in Nat
  BY Widths
<1>. HIDE DEF d
<1>4. CASE LastChar(v) > 0
  <2>1. n = Chars
    <3>1. Ends(d, Chars, Chars)
      BY <1>2, <1>3, <1>4 DEF Ends
    <3>2. QED  BY <1>3, <3>1, OneEnd DEF d
  <2>2. LastDot(d, Chars, j)
    <3>1. j \in 0 .. Chars /\ \A k \in j + 1 .. Chars : k = Chars \/ k \in j + 1 .. FullChars
      BY <1>1, <1>3 DEF LastDot
    <3>2. QED  BY <1>1, <1>2, <1>4, <3>1 DEF LastDot
  <2>3. Remaining(v) = BitsAfter(j)
    BY <1>1, <1>4 DEF Remaining
  <2>4. QED  BY <2>1, <2>2, <2>3 DEF d
<1>5. CASE ~(LastChar(v) > 0)
  <2>1. n = m
    <3>1. m \in 0 .. Chars /\ \A k \in m + 1 .. Chars : k = Chars \/ k \in m + 1 .. FullChars
      BY <1>1, <1>3 DEF Ends
    <3>2. Ends(d, Chars, m)
      BY <1>1, <1>2, <1>5, <3>1 DEF Ends
    <3>3. QED  BY <1>3, <3>2, OneEnd DEF d
  <2>2. Remaining(v) = BitsAfter(h)
    BY <1>1, <1>5 DEF Remaining
  <2>3. QED  BY <1>1, <2>1, <2>2 DEF d
<1>6. QED  BY <1>4, <1>5

\* Without its first j characters.
Dropped(d, j) == [k \in 1 .. Chars |-> IF k + j <= Chars THEN d[k + j] ELSE 0]

\* The last character has a place among the wider ones, so a value is spelled.
LEMMA DroppedTyped ==
    ASSUME NEW d \in Spellings, NEW j \in 1 .. FullChars
    PROVE  Dropped(d, j) \in Spellings
<1>1. /\ Chars \in 1 .. Chars /\ ~(Chars + j <= Chars) /\ \A k \in 1 .. FullChars : k \in 1 .. Chars
      /\ Low \in Nat /\ Low >= 1 /\ Base \in Nat /\ Low <= Base
  BY Widths, Weights
<1>2. \A k \in 1 .. Chars :
         k + j <= Chars => k + j \in 1 .. Chars /\ (k + j = Chars \/ k + j \in 1 .. FullChars)
  BY Widths
<1>3. d \in [1 .. Chars -> Nat] /\ (\A k \in 1 .. FullChars : d[k] < Base) /\ d[Chars] < Low
  BY DEF Spellings
<1>4. \A k \in 1 .. Chars : k + j <= Chars => d[k + j] \in Nat /\ d[k + j] < Base
  BY <1>1, <1>2, <1>3
<1>5. Dropped(d, j) \in [1 .. Chars -> Nat]
  BY <1>4 DEF Dropped
<1>6. \A k \in 1 .. Chars : Dropped(d, j)[k] = IF k + j <= Chars THEN d[k + j] ELSE 0
  BY DEF Dropped
<1>7. (\A k \in 1 .. FullChars : Dropped(d, j)[k] < Base) /\ Dropped(d, j)[Chars] < Low
  BY <1>1, <1>4, <1>6
<1>8. QED  BY <1>5, <1>7 DEF Spellings

\* The sums of a value without its first j characters: those of the value, without what
\* these characters count.
LEMMA DroppedSums ==
    ASSUME NEW v \in NameValues, NEW j \in 1 .. FullChars, NEW a, Sums(a, Dropped(Spelled(v), j))
    PROVE  \A k \in 0 .. FullChars - j : High(v, k + j) = High(v, j) * Above(k) + a[k]
<1>. DEFINE S == {k \in Nat : k <= FullChars - j => High(v, k + j) = High(v, j) * Above(k) + a[k]}
            d == Dropped(Spelled(v), j)
<1>1. 0 \in S
  <2>1. a[0] = 0 /\ Above(0) = 1
    BY Weights DEF Sums
  <2>2. High(v, j) \in Nat /\ 0 + j = j
    BY Chain, Widths
  <2>3. High(v, 0 + j) = High(v, j) * Above(0) + a[0]
    BY <2>1, <2>2
  <2>4. QED  BY <2>3
<1>2. ASSUME NEW k \in Nat, k \in S PROVE k + 1 \in S
  <2>1. CASE k + 1 <= FullChars - j
    <3>. DEFINE h == High(v, j)
                up == Above(k)
                x == a[k]
                c == CharAt(v, (k + 1) + j)
    <3>1. /\ k + 1 \in 1 .. FullChars /\ (k + 1) - 1 = k /\ k <= FullChars - j /\ k \in 0 .. FullChars
          /\ (k + 1) + j \in 1 .. FullChars /\ ((k + 1) + j) - 1 = k + j /\ k + 1 \in 1 .. Chars
          /\ (k + 1) + j <= Chars /\ j \in 0 .. FullChars
      BY <2>1, Widths
    <3>2. High(v, k + j) = h * up + x
      BY <1>2, <3>1
    <3>3. High(v, (k + 1) + j) = High(v, k + j) * Base + c /\ c \in Nat
      BY <3>1, Chain
    <3>4. a[k + 1] = x * Base + d[k + 1] /\ x \in Nat
      BY <3>1 DEF Sums
    <3>5. d[k + 1] = c
      <4>1. d[k + 1] = Spelled(v)[(k + 1) + j]
        BY <3>1 DEF Dropped
      <4>2. QED  BY <3>1, <4>1, SpelledTyped
    <3>6. h \in Nat /\ up \in Nat /\ Base \in Nat /\ Above(k + 1) = up * Base
      BY <3>1, Chain, Weights
    <3>. HIDE DEF h, up, x, c, d
    <3>7. (h * up + x) * Base + c = h * (up * Base) + (x * Base + c)
      BY <3>3, <3>4, <3>6
    <3>8. High(v, (k + 1) + j) = h * Above(k + 1) + a[k + 1]
      BY <3>2, <3>3, <3>4, <3>5, <3>6, <3>7
    <3>9. QED  BY <3>8 DEF h
  <2>2. QED  BY <2>1
<1>3. S = Nat
  <2>. HIDE DEF S
  <2>1. S \subseteq Nat
    BY DEF S
  <2>2. QED  BY <1>1, <1>2, <2>1, Induct
<1>4. ASSUME NEW k \in 0 .. FullChars - j PROVE k \in S
  <2>1. k \in Nat
    BY Widths
  <2>. HIDE DEF S
  <2>2. QED  BY <1>3, <2>1
<1>5. \A k \in 0 .. FullChars - j : k <= FullChars - j
  BY Widths
<1>6. QED  BY <1>4, <1>5

\* The weights of the places around the one where the last character moves to.
LEMMA SuffixWeights ==
    ASSUME NEW j \in 1 .. FullChars
    PROVE  /\ Width - (Width - CharBits * j) = CharBits * j
           /\ CharBits * j - 1 \in 0 .. Width
           /\ Above(j) = 2 * Pow2[CharBits * j - 1]
           /\ Below((FullChars - j) + 1) = Pow2[CharBits * j - 1]
           /\ Above(FullChars - j) * Low = Below(j)
           /\ Pow2[CharBits * j - 1] \in Nat /\ Pow2[CharBits * j - 1] >= 1
           /\ Width - CharBits * j > 0
<1>. DEFINE n == CharBits * j
            m == CharBits * (FullChars - j)
<1>1. j \in 0 .. FullChars /\ FullChars - j \in 0 .. FullChars /\ (FullChars - j) + 1 \in 0 .. FullChars
  BY Widths
<1>2. n >= 1
  <2>1. CharBits >= 2 /\ CharBits \in Nat /\ j >= 1 /\ j \in Nat
    BY Widths
  <2>2. QED  BY <2>1
<1>3. n \in 0 .. Width /\ n <= CharBits * FullChars /\ m \in Nat /\ LastBits + m = Width - n
  BY <1>1, Widths
<1>4. CharBits * ((FullChars - j) + 1) = m + CharBits
  BY Widths
<1>. HIDE DEF n, m
<1>5. n \in Nat /\ n - 1 \in 0 .. Width /\ n \in 1 .. Width /\ Width - (Width - n) = n /\ Width - n > 0
  BY <1>2, <1>3, Widths
<1>6. Width - CharBits * ((FullChars - j) + 1) = n - 1
  BY <1>3, <1>4, <1>5, Widths
<1>7. Pow2[n] = 2 * Pow2[n - 1] /\ Pow2[n - 1] \in Nat /\ Pow2[n - 1] >= 1
  BY <1>5, Powers
<1>8. Above(FullChars - j) * Low = Below(j)
  <2>1. m + LastBits = Width - n /\ Width - n <= Width /\ LastBits \in Nat
    BY <1>3, <1>5, Widths
  <2>2. Pow2[m + LastBits] = Pow2[m] * Pow2[LastBits]
    BY <1>3, <2>1, PowerSum
  <2>3. QED  BY <2>1, <2>2 DEF Above, Below, Low, m, n
<1>9. QED  BY <1>5, <1>6, <1>7, <1>8 DEF Above, Below, n

\* The suffix after a dot is the value without the characters up to the dot.
LEMMA SuffixDrops ==
    ASSUME NEW v \in NameValues, NEW j \in 1 .. FullChars, Remaining(v) = BitsAfter(j)
    PROVE  Suffix(v) \in NameValues /\ Spelled(Suffix(v)) = Dropped(Spelled(v), j)
<1>. DEFINE d == Dropped(Spelled(v), j)
            r == Rest(v, j)
            last == LastChar(v)
            half == Pow2[CharBits * j - 1]
            m == FullChars - j
<1>1. d \in Spellings
  BY SpelledTyped, DroppedTyped
<1>2. PICK a : Bounded(a, d)
  BY <1>1, SumsExist DEF Bounded
<1>. DEFINE x == a[m]
            h == High(v, j)
            up == Above(m)
<1>3. /\ m \in 0 .. FullChars /\ m + 1 \in 0 .. FullChars /\ m + 1 \in 1 .. FullChars /\ (m + 1) - 1 = m
      /\ m \in 0 .. FullChars - j /\ m + j = FullChars /\ j \in 0 .. FullChars /\ j # 0
      /\ (m + 1) + j = Chars /\ m + 1 \in 1 .. Chars
  BY Widths
<1>4. /\ Above(j) = 2 * half /\ Below(m + 1) = half /\ up * Low = Below(j) /\ half \in Nat /\ half >= 1
  BY SuffixWeights
<1>5. x \in Nat /\ last \in Nat /\ last < Low /\ h \in Nat /\ up \in Nat /\ Low \in Nat /\ Low >= 1
  <2>1. x \in Nat
    BY <1>2, <1>3 DEF Bounded, Sums
  <2>2. last \in Nat /\ last < Low
    BY Chain, Weights, Widths
  <2>3. h \in Nat /\ up \in Nat
    BY <1>3, Chain, Weights
  <2>4. QED  BY <2>1, <2>2, <2>3, Weights
\* What is kept: the characters that are left, and the last one.
<1>6. r = x * Low + last
  <2>1. High(v, FullChars) = h * up + x
    BY <1>2, <1>3, DroppedSums DEF Bounded
  <2>2. v = High(v, FullChars) * Low + last
    BY Chain
  <2>3. v = h * Below(j) + r /\ r \in Nat
    <3>1. v \in Nat /\ Below(j) \in Nat /\ Below(j) >= 1
      BY <1>3, Chain, Weights
    <3>2. QED  BY <3>1, Division DEF High, Rest
  <2>. HIDE DEF x, h, up, r, last, m, half
  <2>4. (h * up + x) * Low + last = h * (up * Low) + (x * Low + last)
    BY <1>5
  <2>5. h * Below(j) \in Nat /\ x * Low + last \in Nat
    BY <1>3, <1>5, Weights
  <2>6. v = h * Below(j) + (x * Low + last)
    BY <1>4, <2>1, <2>2, <2>4
  <2>. DEFINE b == h * Below(j)
              y == x * Low + last
  <2>7. b \in Nat /\ y \in Nat /\ b + y = b + r
    BY <2>3, <2>5, <2>6
  <2>. HIDE DEF b, y
  <2>8. y = r
    BY <2>3, <2>7
  <2>9. QED  BY <2>8 DEF y
<1>7. r \div Low = x
  BY <1>5, <1>6, Divided
\* The value of the characters that are left.
<1>. DEFINE u == a[FullChars] * Low + d[Chars]
            kept == (x * Low) * Above(j)
            moved == last * half
<1>8. u \in NameValues /\ Spelled(u) = d
  BY <1>1, <1>2, Composed DEF Bounded
<1>9. a[m + 1] = x * Base + last /\ d[Chars] = 0 /\ \A k \in (m + 1) + 1 .. FullChars : d[k] = 0
  <2>1. \A k \in 1 .. Chars : d[k] = IF k + j <= Chars THEN Spelled(v)[k + j] ELSE 0
    BY DEF Dropped
  <2>2. /\ Chars \in 1 .. Chars /\ ~(Chars + j <= Chars) /\ Chars <= Chars
        /\ \A k \in (m + 1) + 1 .. FullChars : k \in 1 .. Chars /\ ~(k + j <= Chars)
    BY Widths
  <2>3. d[m + 1] = last
    <3>1. d[m + 1] = Spelled(v)[Chars]
      BY <1>3, <2>1, <2>2
    <3>2. QED  BY <3>1, SpelledTyped
  <2>4. a[m + 1] = a[m] * Base + d[m + 1]
    BY <1>2, <1>3 DEF Bounded, Sums
  <2>. HIDE DEF d, m
  <2>5. QED  BY <2>1, <2>2, <2>3, <2>4
<1>10. u = kept + moved
  <2>1. a[FullChars] * Low = a[m + 1] * half
    <3>1. a[FullChars] * Low = a[m + 1] * Below(m + 1)
      <4>. HIDE DEF d, m
      <4>1. QED  BY <1>1, <1>2, <1>3, <1>9, DotsAdd
    <3>2. QED  BY <1>4, <3>1
  <2>2. (x * (2 * Low) + last) * half = (x * Low) * (2 * half) + last * half
    <3>. HIDE DEF x, last, half
    <3>1. QED  BY <1>4, <1>5
  <2>3. (x * (2 * Low) + last) * half \in Nat
    <3>. HIDE DEF x, last, half
    <3>1. QED  BY <1>4, <1>5
  <2>4. Base = 2 * Low
    BY Weights
  <2>5. a[FullChars] * Low = kept + moved /\ kept + moved \in Nat
    <3>. HIDE DEF x, last, half, m
    <3>1. QED  BY <1>4, <1>9, <2>1, <2>2, <2>3, <2>4
  <2>. HIDE DEF x, last, half, m, d, kept, moved
  <2>6. QED  BY <1>9, <2>5
<1>11. /\ kept \in Nat /\ moved \in Nat /\ kept + moved < Modulus /\ Modulus \in Nat
  <2>1. Above(j) \in Nat /\ Modulus \in Nat
    BY <1>3, Weights
  <2>2. kept \in Nat /\ moved \in Nat
    <3>. HIDE DEF x, last, half
    <3>1. QED  BY <1>4, <1>5, <2>1
  <2>3. u < Modulus
    <3>. HIDE DEF u
    <3>1. QED  BY <1>8, <2>1 DEF NameValues
  <2>. HIDE DEF u, kept, moved
  <2>4. QED  BY <1>10, <2>1, <2>2, <2>3
\* None of the shifts loses anything.
<1>12. Suffix(v) = kept + moved
  <2>1. Remaining(v) = Width - CharBits * j /\ Remaining(v) # 0 /\ Width - Remaining(v) = CharBits * j
    BY <1>3, SuffixWeights DEF BitsAfter
  <2>2. v % Pow2[Remaining(v)] = r
    BY <2>1 DEF Rest, Below
  <2>3. Shl(x * Low, CharBits * j) = kept % Modulus
    BY DEF Shl, Above, Modulus
  <2>4. Shl(last, CharBits * j - 1) = moved % Modulus
    BY DEF Shl, Modulus
  <2>5. Suffix(v) = (Shl((r \div Low) * Low, CharBits * j) + Shl(last, CharBits * j - 1)) % Modulus
    <3>. DEFINE masked == ((v % Pow2[Remaining(v)]) \div Pow2[LastBits]) * Pow2[LastBits]
                shift == Width - Remaining(v)
    <3>1. Suffix(v) = IF Remaining(v) = 0 THEN v
                      ELSE (Shl(masked, shift) + Shl(LastChar(v), shift - 1)) % Pow2[Width]
      BY DEF Suffix
    <3>2. masked = (r \div Low) * Low
      BY <2>2 DEF Low
    <3>. HIDE DEF masked, r
    <3>3. QED  BY <2>1, <3>1, <3>2 DEF Modulus
  <2>. HIDE DEF kept, moved, r, x
  <2>6. kept % Modulus = kept /\ moved % Modulus = moved /\ (kept + moved) % Modulus = kept + moved
    BY <1>11
  <2>. HIDE DEF last
  <2>7. QED  BY <1>7, <2>3, <2>4, <2>5, <2>6
<1>. HIDE DEF kept, moved, u, d
<1>13. QED  BY <1>8, <1>10, <1>12 DEF d

\* The suffix: what follows the last dot of what is written of the value.
LEMMA SuffixIs ==
    ASSUME NEW v \in NameValues, NEW n, Ends(Spelled(v), Chars, n), NEW j, LastDot(Spelled(v), n, j)
    PROVE  /\ Suffix(v) \in NameValues
           /\ WriteAsString(Suffix(v)) = [k \in 1 .. n - j |-> Spelled(v)[k + j]]
           /\ Suffix(Suffix(v)) = Suffix(v)
<1>. DEFINE d == Spelled(v)
            u == Suffix(v)
<1>1. n \in 0 .. Chars /\ n \in Nat /\ (n > 0 => d[n] # 0) /\ \A k \in n + 1 .. Chars : d[k] = 0
  BY DEF Ends
<1>2. j \in 0 .. n /\ j \in Nat /\ (j > 0 => d[j] = 0) /\ \A k \in j + 1 .. n : d[k] # 0
  BY <1>1 DEF LastDot
<1>3. Remaining(v) = BitsAfter(j)
  <2>1. PICK q : LastDot(d, n, q) /\ Remaining(v) = BitsAfter(q)
    BY RemainingIs
  <2>2. q \in 0 .. n /\ (q > 0 => d[q] = 0) /\ \A k \in q + 1 .. n : d[k] # 0
    BY <2>1 DEF LastDot
  <2>. HIDE DEF d
  <2>3. ~(q < j)
    <3>1. q < j => j \in q + 1 .. n /\ j > 0
      BY <1>1, <1>2, <2>2
    <3>2. QED  BY <1>2, <2>2, <3>1
  <2>4. ~(j < q)
    <3>1. j < q => q \in j + 1 .. n /\ q > 0
      BY <1>1, <1>2, <2>2
    <3>2. QED  BY <1>2, <2>2, <3>1
  <2>5. q = j
    BY <1>1, <1>2, <2>2, <2>3, <2>4
  <2>6. QED  BY <2>1, <2>5
<1>. HIDE DEF d, u
<1>4. CASE j = 0
  <2>1. u = v
    BY <1>3, <1>4 DEF u, Suffix, BitsAfter
  <2>2. WriteAsString(v) = [k \in 1 .. n |-> d[k]]
    BY Written DEF Prefix, d
  <2>3. \A k \in 1 .. n : k + 0 = k
    BY <1>1
  <2>4. n - 0 = n
    BY <1>1
  <2>5. WriteAsString(v) = [k \in 1 .. n - j |-> d[k + j]]
    BY <1>4, <2>2, <2>3, <2>4
  <2>6. QED  BY <2>1, <2>5 DEF u, d
<1>5. CASE j > 0
  <2>. DEFINE e == Dropped(d, j)
              m == n - j
  <2>1. j < n
    BY <1>1, <1>2, <1>5
  <2>2. j \in 1 .. FullChars /\ m \in Nat /\ m > 0 /\ m \in 1 .. Chars /\ m + j = n /\ m + j <= Chars
    BY <1>1, <1>2, <1>5, <2>1, Widths
  <2>3. u \in NameValues /\ Spelled(u) = e
    BY <1>3, <2>2, SuffixDrops DEF u, d
  <2>4. \A k \in 1 .. Chars : e[k] = IF k + j <= Chars THEN d[k + j] ELSE 0
    BY DEF Dropped
  <2>. HIDE DEF e, m
  <2>5. Ends(e, Chars, m)
    <3>1. e[m] # 0
      BY <1>1, <2>1, <2>2, <2>4
    <3>2. ASSUME NEW k \in m + 1 .. Chars PROVE e[k] = 0
      <4>1. k \in 1 .. Chars /\ (k + j <= Chars => k + j \in n + 1 .. Chars)
        BY <1>1, <1>2, <2>2, Widths
      <4>2. QED  BY <1>1, <2>4, <4>1
    <3>3. m \in 0 .. Chars
      BY <2>2, Widths
    <3>4. QED  BY <3>1, <3>2, <3>3 DEF Ends
  <2>6. WriteAsString(u) = Prefix(e, m)
    BY <2>3, <2>5, Written
  <2>7. \A k \in 1 .. m : e[k] = d[k + j] /\ e[k] # 0
    <3>1. \A k \in 1 .. m : k \in 1 .. Chars /\ k + j <= Chars /\ k + j \in j + 1 .. n
      BY <1>1, <1>2, <2>2, Widths
    <3>2. QED  BY <1>2, <2>4, <3>1
  <2>8. Prefix(e, m) = [k \in 1 .. m |-> d[k + j]]
    BY <2>7 DEF Prefix
  <2>9. Suffix(u) = u
    <3>1. PICK q : LastDot(e, m, q) /\ Remaining(u) = BitsAfter(q)
      BY <2>3, <2>5, RemainingIs
    <3>2. q = 0
      <4>1. q \in 0 .. m /\ (q > 0 => e[q] = 0)
        BY <3>1 DEF LastDot
      <4>2. q # 0 => q \in 1 .. m /\ q > 0
        BY <2>2, <4>1
      <4>3. QED  BY <2>7, <4>1, <4>2
    <3>3. QED  BY <3>1, <3>2 DEF Suffix, BitsAfter
  <2>10. QED  BY <2>3, <2>6, <2>8, <2>9 DEF u, d, m
<1>6. QED  BY <1>1, <1>2, <1>4, <1>5

-----------------------------------------------------------------------------

\* A string is over the alphabet, a name has its width.
NameInv == str \in Seq(Letters) /\ name \in NameValues \cup {Rejected}

\* A name is a value of its width, from whatever it is made and however often its
\* suffix is taken (name.hpp:129-159).
THEOREM NameInvariance == NameSpec => []NameInv
<1>1. NameInit => NameInv
  <2>1. CASE str \in NameStrings /\ name = NameOf(str)
    <3>1. str \in Seq(Letters)
      BY <2>1, NameAssumption DEF Letters
    <3>2. QED  BY <2>1, <3>1, Named, NotNamed DEF NameInv
  <2>2. CASE str = <<>> /\ name \in 0 .. Pow2[Width] - 1
    BY <2>2 DEF NameInv, NameValues, Modulus
  <2>3. QED  BY <2>1, <2>2 DEF NameInit
<1>2. NameInv /\ [TakeSuffix]_nameVars => NameInv'
  <2>1. ASSUME NameInv, TakeSuffix PROVE NameInv'
    <3>1. name \in NameValues /\ name' = Suffix(name) /\ str' = str
      BY <2>1 DEF NameInv, TakeSuffix
    <3>2. PICK n : Ends(Spelled(name), Chars, n)
      BY CharsEnd
    <3>3. PICK j : LastDot(Spelled(name), n, j)
      BY <3>1, <3>2, RemainingIs
    <3>4. Suffix(name) \in NameValues
      BY <3>1, <3>2, <3>3, SuffixIs
    <3>5. QED  BY <2>1, <3>1, <3>4 DEF NameInv
  <2>2. ASSUME NameInv, UNCHANGED nameVars PROVE NameInv'
    BY <2>2 DEF NameInv, nameVars
  <2>3. QED  BY <2>1, <2>2
<1>3. QED  BY <1>1, <1>2, PTL DEF NameSpec

\* For every number of characters and of bits: what the constructor of name and the
\* tools' string_to_name make of a string, what both write of a value, which strings
\* validate_name accepts, and what length says of the last character.
THEOREM NamesAgreeAlways == NameSpec => []NamesAgree
<1>1. NameInv => NamesAgree
  <2>. SUFFICES ASSUME NameInv PROVE NamesAgree
    OBVIOUS
  <2>1. str \in Seq(Letters) /\ (name # Rejected => name \in NameValues)
    BY DEF NameInv
  <2>2. NameOf(str) # Rejected <=> Accepted(str)
    <3>1. Accepted(str) => NameOf(str) \in Nat
      BY <2>1, Named, Weights DEF NameValues
    <3>2. ~Accepted(str) => NameOf(str) = Rejected
      BY <2>1, NotNamed
    <3>3. QED  BY <3>1, <3>2 DEF Rejected
  <2>3. ReadsBack
    <3>1. NameOf(str) # Rejected => WriteAsString(NameOf(str)) = Trimmed(str)
      BY <2>1, <2>2, StringReadsBack
    <3>2. name # Rejected => NameOf(WriteAsString(name)) = name
      BY <2>1, ValueReadsBack
    <3>3. name > 0 => NameToString(name) = WriteAsString(name)
      <4>1. name > 0 => name # Rejected /\ name # 0
        BY <2>1 DEF NameInv, Rejected
      <4>2. QED  BY <2>1, <4>1, SpelledTrimmed DEF NameToString
    <3>4. QED  BY <3>1, <3>2, <3>3 DEF ReadsBack
  <2>4. SidesAgree
    BY <2>1, <2>2, Validated, SameName DEF SidesAgree
  <2>5. ShortLeavesLastBits
    BY <2>1, LengthIs DEF ShortLeavesLastBits
  <2>6. QED  BY <2>3, <2>4, <2>5 DEF NamesAgree
<1>2. QED  BY <1>1, NameInvariance, PTL

\* suffix returns the name of what follows the last dot, for every width: no shift loses
\* a bit, and the last character becomes one of the wider ones (name.hpp:129-159).
THEOREM SuffixIsLastPartAlways == NameSpec => []SuffixIsLastPart
<1>1. ASSUME NameInv, name # Rejected PROVE SuffixIsLastPart
  <2>. DEFINE d == Spelled(name)
              w == WriteAsString(name)
              IsAfter(n) == (n > 0 => w[n] = 0) /\ \A k \in n + 1 .. Len(w) : w[k] # 0
              after == CHOOSE n \in 0 .. Len(w) : IsAfter(n)
  <2>1. name \in NameValues
    BY <1>1 DEF NameInv
  <2>2. PICK n : Ends(d, Chars, n)
    BY CharsEnd
  <2>3. PICK j : LastDot(d, n, j)
    BY <2>1, <2>2, RemainingIs
  <2>4. /\ WriteAsString(Suffix(name)) = [k \in 1 .. n - j |-> d[k + j]]
        /\ Suffix(Suffix(name)) = Suffix(name)
    BY <2>1, <2>2, <2>3, SuffixIs
  <2>5. w = Prefix(d, n)
    BY <2>1, <2>2, Written
  <2>0. SuffixIsLastPart <=> /\ WriteAsString(Suffix(name)) = SubSeq(w, after + 1, Len(w))
                            /\ Suffix(Suffix(name)) = Suffix(name)
    BY <1>1 DEF SuffixIsLastPart
  <2>. HIDE DEF w, d
  <2>6. n \in Nat /\ j \in 0 .. n /\ j \in Nat
    BY <2>2, <2>3 DEF Ends, LastDot
  <2>7. Len(w) = n /\ \A k \in 1 .. n : w[k] = d[k]
    BY <2>5, <2>6 DEF Prefix
  <2>8. after = j
    <3>1. IsAfter(j)
      <4>1. (j > 0 => j \in 1 .. n) /\ \A k \in j + 1 .. n : k \in 1 .. n
        BY <2>6
      <4>2. QED  BY <2>3, <2>7, <4>1 DEF LastDot
    <3>2. ASSUME NEW q \in 0 .. n, IsAfter(q) PROVE q = j
      <4>1. IsAfter(q) /\ IsAfter(j)
        BY <3>1, <3>2
      <4>2. q < j => j \in q + 1 .. n /\ j > 0
        BY <2>6
      <4>3. j < q => q \in j + 1 .. n /\ q > 0
        BY <2>6
      <4>4. ~(q < j) /\ ~(j < q)
        BY <2>7, <4>1, <4>2, <4>3
      <4>5. QED  BY <2>6, <4>4
    <3>. HIDE DEF IsAfter
    <3>3. after \in 0 .. n /\ IsAfter(after)
      BY <2>6, <2>7, <3>1
    <3>4. QED  BY <3>2, <3>3
  <2>. HIDE DEF after
  <2>9. SubSeq(w, j + 1, n) = [k \in 1 .. n - j |-> d[k + j]]
    <3>1. SubSeq(w, j + 1, n) = [k \in 1 .. n - j |-> w[k + j]]
      <4>1. (1 + n) - (j + 1) = n - j /\ \A k \in 1 .. n - j : (k + (j + 1)) - 1 = k + j
        BY <2>6
      <4>2. QED  BY <2>6, <4>1
    <3>2. \A k \in 1 .. n - j : w[k + j] = d[k + j]
      <4>1. \A k \in 1 .. n - j : k + j \in 1 .. n
        BY <2>6
      <4>2. QED  BY <2>7, <4>1
    <3>3. QED  BY <3>1, <3>2
  <2>10. QED  BY <2>0, <2>1, <2>4, <2>7, <2>8, <2>9
<1>2. NameInv => SuffixIsLastPart
  BY <1>1 DEF SuffixIsLastPart
<1>3. QED  BY <1>2, NameInvariance, PTL
===============================================================================
