----------------------------- MODULE AbiGenProofs -----------------------------
(***************************************************************************)
(* The ABI describes the actions of the inputs and every type it mentions, *)
(* for all programs whose types do not contain themselves as arguments.    *)
(***************************************************************************)
EXTENDS AbiGen, TLAPS, NaturalsInduction, WellFoundedInduction

-----------------------------------------------------------------------------
(* Induction *)

\* A set of natural numbers has a least one.
LEMMA LeastNat ==
    ASSUME NEW T, T \subseteq Nat, T # {}
    PROVE  \E x \in T : \A y \in T : x <= y
<1>. DEFINE R == OpToRel(<, Nat)
<1>1. \E x \in T : \A y \in T : ~(<<y, x>> \in R)
  <2>1. IsWellFoundedOn(R, Nat)
    BY NatLessThanWellFounded
  <2>. HIDE DEF R
  <2>2. QED  BY <2>1, WFMin
<1>2. \A x, y \in Nat : y < x => <<y, x>> \in R
  BY DEF OpToRel
<1>. HIDE DEF R
<1>3. PICK x \in T : \A y \in T : ~(<<y, x>> \in R)
  BY <1>1
<1>4. ASSUME NEW y \in T PROVE x <= y
  <2>1. x \in Nat /\ y \in Nat
    OBVIOUS
  <2>2. ~(y < x)
    BY <1>2, <1>3, <2>1
  <2>3. QED  BY <2>1, <2>2
<1>5. QED  BY <1>4

\* A set with 0 and the successors of its elements holds all natural numbers.
LEMMA Induct ==
    ASSUME NEW S, S \subseteq Nat, 0 \in S, \A n \in Nat : n \in S => n + 1 \in S
    PROVE  S = Nat
<1>1. SUFFICES ASSUME Nat \ S # {} PROVE FALSE
  OBVIOUS
<1>. DEFINE T == Nat \ S
<1>2. PICK x \in T : \A y \in T : x <= y
  <2>1. T \subseteq Nat /\ T # {}
    BY <1>1
  <2>. HIDE DEF T
  <2>2. QED  BY <2>1, LeastNat
<1>3. x \in Nat /\ x # 0 /\ x - 1 \in Nat /\ x = (x - 1) + 1 /\ ~(x <= x - 1)
  OBVIOUS
<1>4. x - 1 \in S
  BY <1>2, <1>3
<1>5. QED  BY <1>2, <1>3, <1>4

-----------------------------------------------------------------------------
(* Sequences *)

IsSeq(s) == \E S : s \in Seq(S)

\* The elements of a concatenation, which is how work is left (IsSeq: a sequence of anything).
LEMMA SetOfConcat ==
    ASSUME NEW s, NEW t, IsSeq(s), IsSeq(t)
    PROVE  IsSeq(s \o t) /\ ToSet(s \o t) = ToSet(s) \cup ToSet(t)
<1>0. PICK S : s \in Seq(S) /\ t \in Seq(S)
  <2>1. PICK A : s \in Seq(A)
    BY DEF IsSeq
  <2>2. PICK B : t \in Seq(B)
    BY DEF IsSeq
  <2>3. s \in Seq(A \cup B) /\ t \in Seq(A \cup B)
    BY <2>1, <2>2
  <2>4. QED  BY <2>3
<1>. DEFINE n == Len(s)
            m == Len(t)
<1>1. /\ s \o t \in Seq(S) /\ n \in Nat /\ m \in Nat
      /\ DOMAIN s = 1 .. n /\ DOMAIN t = 1 .. m /\ DOMAIN (s \o t) = 1 .. n + m
      /\ \A i \in 1 .. n + m : (s \o t)[i] = IF i <= n THEN s[i] ELSE t[i - n]
  BY <1>0
<1>. HIDE DEF n, m
<1>2. ASSUME NEW x \in ToSet(s) PROVE x \in ToSet(s \o t)
  <2>1. PICK i \in 1 .. n : x = s[i]
    BY <1>1 DEF ToSet
  <2>2. i \in 1 .. n + m /\ i <= n
    BY <1>1
  <2>3. QED  BY <1>1, <2>1, <2>2 DEF ToSet
<1>3. ASSUME NEW x \in ToSet(t) PROVE x \in ToSet(s \o t)
  <2>1. PICK i \in 1 .. m : x = t[i]
    BY <1>1 DEF ToSet
  <2>2. i + n \in 1 .. n + m /\ ~(i + n <= n) /\ (i + n) - n = i
    BY <1>1
  <2>3. QED  BY <1>1, <2>1, <2>2 DEF ToSet
<1>4. ASSUME NEW x \in ToSet(s \o t) PROVE x \in ToSet(s) \cup ToSet(t)
  <2>1. PICK i \in 1 .. n + m : x = (s \o t)[i]
    BY <1>1 DEF ToSet
  <2>2. CASE i <= n
    BY <1>1, <2>1, <2>2 DEF ToSet
  <2>3. CASE ~(i <= n)
    <3>1. i - n \in 1 .. m
      BY <1>1, <2>3
    <3>2. QED  BY <1>1, <2>1, <2>3, <3>1 DEF ToSet
  <2>4. QED  BY <2>2, <2>3
<1>5. QED  BY <1>1, <1>2, <1>3, <1>4 DEF IsSeq

\* The elements of sequences of one and of none.
LEMMA SetOfOne ==
    ASSUME NEW x
    PROVE  /\ IsSeq(<<x>>) /\ ToSet(<<x>>) = {x}
           /\ IsSeq(<<>>) /\ ToSet(<<>>) = {}
<1>1. <<x>> \in Seq({x}) /\ <<>> \in Seq({x})
  OBVIOUS
<1>2. ToSet(<<x>>) = {x} /\ ToSet(<<>>) = {}
  BY DEF ToSet
<1>3. QED  BY <1>1, <1>2 DEF IsSeq

LEMMA SetOfTail ==
    ASSUME NEW s, IsSeq(s), s # <<>>
    PROVE  /\ IsSeq(Tail(s))
           /\ ToSet(s) = {Head(s)} \cup ToSet(Tail(s))
<1>0. PICK S : s \in Seq(S)
  BY DEF IsSeq
<1>. DEFINE n == Len(s)
            t == Tail(s)
            h == Head(s)
<1>1. /\ n \in Nat /\ n # 0 /\ t \in Seq(S) /\ h \in S
      /\ DOMAIN s = 1 .. n /\ h = s[1] /\ DOMAIN t = 1 .. n - 1
      /\ \A i \in 1 .. n - 1 : t[i] = s[i + 1]
  BY <1>0
<1>. HIDE DEF n, t, h
<1>2. ASSUME NEW x \in ToSet(s) PROVE x = h \/ x \in ToSet(t)
  <2>1. PICK i \in 1 .. n : x = s[i]
    BY <1>1 DEF ToSet
  <2>2. CASE i # 1
    <3>1. i - 1 \in 1 .. n - 1 /\ (i - 1) + 1 = i
      BY <1>1, <2>2
    <3>2. QED  BY <1>1, <2>1, <3>1 DEF ToSet
  <2>3. QED  BY <1>1, <2>1, <2>2
<1>3. ASSUME NEW x \in ToSet(t) PROVE x \in ToSet(s)
  <2>1. PICK i \in 1 .. n - 1 : x = t[i]
    BY <1>1 DEF ToSet
  <2>2. i + 1 \in 1 .. n
    BY <1>1
  <2>3. QED  BY <1>1, <2>1, <2>2 DEF ToSet
<1>4. h \in ToSet(s)
  <2>1. 1 \in 1 .. n
    BY <1>1
  <2>2. QED  BY <1>1, <2>1 DEF ToSet
<1>5. ToSet(s) = {h} \cup ToSet(t)
  BY <1>2, <1>3, <1>4
<1>6. QED  BY <1>1, <1>5 DEF t, h, IsSeq

\* A call for each type of a sequence.
LEMMA SetOfTypes ==
    ASSUME NEW s \in Seq(Types)
    PROVE  /\ IsSeq(AddTypes(s)) /\ ToSet(AddTypes(s)) = {AddType(t) : t \in ToSet(s)}
           /\ IsSeq(Each(AddRecord, s))
           /\ ToSet(Each(AddRecord, s)) = {AddRecord(t) : t \in ToSet(s)}
<1>1. AddTypes(s) \in Seq({AddType(t) : t \in Types})
  BY DEF AddTypes, Each
<1>2. Each(AddRecord, s) \in Seq({AddRecord(t) : t \in Types})
  BY DEF Each
<1>3. ToSet(AddTypes(s)) = {AddType(t) : t \in ToSet(s)}
  BY DEF AddTypes, Each, ToSet
<1>4. ToSet(Each(AddRecord, s)) = {AddRecord(t) : t \in ToSet(s)}
  BY DEF Each, ToSet
<1>5. QED  BY <1>1, <1>2, <1>3, <1>4 DEF IsSeq

\* The names of the fields of a struct are those of their types.
LEMMA NamesOf ==
    ASSUME NEW p, NEW s \in Seq(Types)
    PROVE  ToSet(Names(p, s)) = {Name(p, t) : t \in ToSet(s)}
BY DEF Names, Each, ToSet

-----------------------------------------------------------------------------
(* Names *)

\* What the assumption says of a type (C++ has checked the program).
LEMMA TypeTyped ==
    ASSUME NEW p \in Programs, NEW t \in Types
    PROVE  /\ Type(p, t).kind \in Kinds
           /\ Type(p, t).args \in Seq(Types)
           /\ Type(p, t).fields \in Seq(Types)
           /\ Type(p, t).base \in Seq(Types)
           /\ Type(p, t).name \in STRING \ Marks
           /\ Type(p, t).kind = "builtin" => Type(p, t).name \in Builtins
           /\ Type(p, t).kind \in {"alias", "seq", "optional"} => Len(Type(p, t).args) = 1
           /\ Type(p, t).kind \in {"map", "pair"} => Len(Type(p, t).args) = 2
<1>1. p.type[t] \in TypeForm /\ p.type[t].name \notin Marks
  BY ProgramsAssumption
<1>2. p.type[t].kind = "builtin" => p.type[t].name \in Builtins
  BY ProgramsAssumption
<1>3. p.type[t].kind \in DOMAIN Arity => Len(p.type[t].args) = Arity[p.type[t].kind]
  BY ProgramsAssumption
<1>4. /\ {"alias", "seq", "optional", "map", "pair"} \subseteq DOMAIN Arity
      /\ Arity["alias"] = 1 /\ Arity["seq"] = 1 /\ Arity["optional"] = 1
      /\ Arity["map"] = 2 /\ Arity["pair"] = 2
  BY DEF Arity
<1>5. QED  BY <1>1, <1>2, <1>3, <1>4 DEF Type, TypeForm

\* The first two arguments of a type are among its arguments.
LEMMA ArgsIn ==
    ASSUME NEW s \in Seq(Types)
    PROVE  /\ Len(s) = 1 => ToSet(s) = {s[1]}
           /\ Len(s) = 2 => ToSet(s) = {s[1], s[2]}
           /\ ToSet(s) \subseteq Types
BY DEF ToSet

\* Among some types there is one with no argument among them.
LEMMA Innermost ==
    ASSUME NEW p \in Programs, NEW S, S \subseteq Types, S # {}
    PROVE  \E t \in S : \A a \in ToSet(Type(p, t).args) : a \notin S
<1>1. S \in SUBSET Types
  OBVIOUS
<1>2. \E t \in S : ToSet(p.type[t].args) \cap S = {}
  BY <1>1, ProgramsAssumption
<1>3. QED  BY <1>2 DEF Type

\* The name of a type is made from those of its arguments (gen.hpp:264-316).
LEMMA NameLocal ==
    ASSUME NEW p \in Programs, NEW t \in Types, NEW f, NEW g,
           \A a \in ToSet(Type(p, t).args) : f[a] = g[a]
    PROVE  NameFrom(p, f, t) = NameFrom(p, g, t)
<1>. DEFINE d == Type(p, t)
<1>1. CASE d.kind \in {"seq", "optional"}
  <2>1. f[d.args[1]] = g[d.args[1]]
    BY <1>1, TypeTyped, ArgsIn
  <2>2. QED  BY <1>1, <2>1 DEF NameFrom
<1>2. CASE d.kind \in {"map", "pair"}
  <2>1. d.args[1] \in ToSet(d.args) /\ d.args[2] \in ToSet(d.args)
    BY <1>2, TypeTyped, ArgsIn
  <2>2. f[d.args[1]] = g[d.args[1]] /\ f[d.args[2]] = g[d.args[2]]
    BY <2>1
  <2>3. QED  BY <1>2, <2>2 DEF NameFrom
<1>3. CASE d.kind = "template"
  <2>1. [i \in DOMAIN d.args |-> f[d.args[i]]] = [i \in DOMAIN d.args |-> g[d.args[i]]]
    BY DEF ToSet
  <2>2. QED  BY <1>3, <2>1 DEF NameFrom, Joined, Each
<1>4. CASE d.kind \notin {"seq", "optional", "map", "pair", "template"}
  BY <1>4 DEF NameFrom
<1>5. QED  BY <1>1, <1>2, <1>3, <1>4

\* g names the types of D, which are closed under arguments.
Naming(p, g, D) ==
    /\ D \subseteq Types
    /\ \A t \in D : ToSet(Type(p, t).args) \subseteq D
    /\ g = [t \in D |-> NameFrom(p, g, t)]

\* Two namings give a type the same name.
LEMMA NamingsAgree ==
    ASSUME NEW p \in Programs, NEW g, NEW h, NEW D, NEW E,
           Naming(p, g, D), Naming(p, h, E), NEW t \in D, t \in E
    PROVE  g[t] = h[t]
<1>. DEFINE S == {u \in D \cap E : g[u] # h[u]}
<1>1. SUFFICES ASSUME S # {} PROVE FALSE
  BY <1>1
<1>2. S \subseteq Types
  BY DEF Naming
<1>3. PICK u \in S : \A a \in ToSet(Type(p, u).args) : a \notin S
  <2>. HIDE DEF S
  <2>1. QED  BY <1>1, <1>2, Innermost
<1>4. u \in D /\ u \in E /\ u \in Types /\ g[u] # h[u]
  BY <1>2
<1>5. \A a \in ToSet(Type(p, u).args) : g[a] = h[a]
  BY <1>3, <1>4 DEF Naming
<1>6. NameFrom(p, g, u) = NameFrom(p, h, u)
  BY <1>4, <1>5, NameLocal
<1>7. g[u] = NameFrom(p, g, u) /\ h[u] = NameFrom(p, h, u)
  BY <1>4 DEF Naming
<1>8. QED  BY <1>4, <1>6, <1>7

\* Every type is named, by the union of all namings.
LEMMA NamingExists ==
    ASSUME NEW p \in Programs
    PROVE  \E g : Naming(p, g, Types)
<1>. DEFINE N(x, g, D) == Naming(p, g, D) /\ x \in D
            U == {x \in Types : \E g, D : N(x, g, D)}
            Is(x, v) == \E g, D : N(x, g, D) /\ v = g[x]
            h == [x \in U |-> CHOOSE v : Is(x, v)]
<1>1. ASSUME NEW g, NEW D, Naming(p, g, D), NEW x \in D
      PROVE  x \in U /\ h[x] = g[x]
  <2>1. x \in Types /\ N(x, g, D)
    BY <1>1 DEF Naming
  <2>2. x \in U
    BY <2>1
  <2>3. Is(x, g[x])
    BY <2>1
  <2>4. Is(x, h[x])
    <3>1. Is(x, CHOOSE v : Is(x, v))
      <4>. HIDE DEF Is
      <4>1. QED  BY <2>3
    <3>2. h[x] = CHOOSE v : Is(x, v)
      BY <2>2
    <3>3. QED  BY <3>1, <3>2
  <2>5. PICK gg, DD : N(x, gg, DD) /\ h[x] = gg[x]
    <3>. HIDE DEF h, N
    <3>1. QED  BY <2>4
  <2>6. gg[x] = g[x]
    BY <1>1, <2>5, NamingsAgree
  <2>7. QED  BY <2>2, <2>5, <2>6
<1>2. ASSUME NEW x \in U
      PROVE  /\ \A a \in ToSet(Type(p, x).args) : a \in U
             /\ h[x] = NameFrom(p, h, x)
  <2>1. PICK g, D : N(x, g, D)
    OBVIOUS
  <2>2. \A a \in ToSet(Type(p, x).args) : a \in D
    BY <2>1 DEF Naming
  <2>3. \A a \in ToSet(Type(p, x).args) : a \in U /\ h[a] = g[a]
    <3>. HIDE DEF U, h
    <3>1. QED  BY <1>1, <2>1, <2>2
  <2>4. x \in Types /\ h[x] = g[x] /\ g[x] = NameFrom(p, g, x)
    <3>1. x \in Types /\ g[x] = NameFrom(p, g, x)
      BY <2>1 DEF Naming
    <3>. HIDE DEF U, h
    <3>2. QED  BY <1>1, <2>1, <3>1
  <2>. HIDE DEF U, h
  <2>5. NameFrom(p, g, x) = NameFrom(p, h, x)
    BY <2>3, <2>4, NameLocal
  <2>6. QED  BY <2>3, <2>4, <2>5
<1>3. U \subseteq Types
  OBVIOUS
<1>4. h = [x \in U |-> h[x]]
  OBVIOUS
<1>. HIDE DEF U, h
<1>5. h = [x \in U |-> NameFrom(p, h, x)]
  BY <1>2, <1>4
<1>6. Naming(p, h, U)
  BY <1>2, <1>3, <1>5 DEF Naming
<1>7. U = Types
  <2>1. SUFFICES ASSUME Types \ U # {} PROVE FALSE
    BY <1>3
  <2>2. PICK t \in Types \ U : \A a \in ToSet(Type(p, t).args) : a \notin Types \ U
    BY <2>1, Innermost
  <2>3. \A a \in ToSet(Type(p, t).args) : a \in U /\ a # t
    <3>1. ToSet(Type(p, t).args) \subseteq Types
      BY TypeTyped, ArgsIn
    <3>2. QED  BY <2>2, <3>1
  <2>. DEFINE D == U \cup {t}
              g == [x \in D |-> IF x = t THEN NameFrom(p, h, t) ELSE h[x]]
  <2>4. \A x \in U : g[x] = h[x] /\ x # t
    BY <2>2
  <2>5. g[t] = NameFrom(p, h, t)
    OBVIOUS
  <2>6. g = [x \in D |-> g[x]]
    OBVIOUS
  <2>. HIDE DEF g
  <2>7. ASSUME NEW x \in D PROVE g[x] = NameFrom(p, g, x)
    <3>1. CASE x = t
      <4>1. NameFrom(p, h, t) = NameFrom(p, g, t)
        BY <2>3, <2>4, NameLocal
      <4>2. QED  BY <2>5, <3>1, <4>1
    <3>2. CASE x \in U
      <4>1. \A a \in ToSet(Type(p, x).args) : h[a] = g[a]
        BY <1>2, <2>4, <3>2
      <4>2. NameFrom(p, h, x) = NameFrom(p, g, x)
        BY <1>3, <3>2, <4>1, NameLocal
      <4>3. QED  BY <1>2, <2>4, <3>2, <4>2
    <3>3. QED  BY <3>1, <3>2
  <2>8. g = [x \in D |-> NameFrom(p, g, x)]
    BY <2>6, <2>7
  <2>9. \A x \in D : ToSet(Type(p, x).args) \subseteq D
    BY <1>2, <2>3
  <2>10. D \subseteq Types /\ t \in D
    BY <1>3
  <2>. HIDE DEF D
  <2>11. Naming(p, g, D)
    BY <2>8, <2>9, <2>10 DEF Naming
  <2>12. t \in U
    BY <1>1, <2>10, <2>11
  <2>13. QED  BY <2>2, <2>12
<1>8. QED  BY <1>6, <1>7

\* Each name is the one made from those of the arguments.
LEMMA NameStep ==
    ASSUME NEW p \in Programs
    PROVE  \E name : /\ \A t : Name(p, t) = name[t]
                     /\ \A t \in Types : Name(p, t) = NameFrom(p, name, t)
<1>. DEFINE Solves(f) == f = [u \in Types |-> NameFrom(p, f, u)]
            name == CHOOSE f : Solves(f)
<1>1. \E f : Solves(f)
  BY NamingExists DEF Naming
<1>2. Solves(name)
  <2>. HIDE DEF Solves
  <2>1. QED  BY <1>1
<1>3. ASSUME NEW t PROVE Name(p, t) = name[t]
  BY DEF Name
<1>. HIDE DEF name
<1>4. \A t \in Types : name[t] = NameFrom(p, name, t)
  BY <1>2
<1>5. QED  BY <1>3, <1>4

\* The parts of a joined sequence are sequences over the same set, and so is it.
LEMMA FlattenTyped ==
    ASSUME NEW S, NEW s \in Seq(Seq(S))
    PROVE  FlattenSeq(s) \in Seq(S)
<1>. DEFINE E(i, f) == IF i = 1 THEN s[1] ELSE f[i - 1] \o s[i]
            Solves(f, n) == f = [i \in 1 .. n |-> E(i, f)]
            N == Len(s)
            T == {n \in Nat : \E f : Solves(f, n)}
            flat == CHOOSE f : Solves(f, N)
<1>0. N \in Nat /\ \A i \in 1 .. N : s[i] \in Seq(S)
  OBVIOUS
<1>1. T = Nat
  <2>1. 0 \in T
    <3>. DEFINE f == [i \in 1 .. 0 |-> 0]
    <3>1. Solves(f, 0)
      OBVIOUS
    <3>2. QED  BY <3>1
  <2>2. ASSUME NEW n \in Nat, n \in T PROVE n + 1 \in T
    <3>1. PICK f : Solves(f, n)
      BY <2>2
    <3>. DEFINE g == [i \in 1 .. n + 1 |-> IF i <= n THEN f[i] ELSE E(n + 1, f)]
    <3>2. (\A i \in 1 .. n : g[i] = f[i]) /\ g[n + 1] = E(n + 1, f)
      <4>1. n + 1 \in 1 .. n + 1 /\ ~(n + 1 <= n)
        OBVIOUS
      <4>. HIDE DEF E
      <4>2. QED  BY <4>1
    <3>3. g = [i \in 1 .. n + 1 |-> g[i]]
      OBVIOUS
    <3>. HIDE DEF g
    <3>4. ASSUME NEW i \in 1 .. n + 1 PROVE g[i] = E(i, g)
      <4>1. i = 1 => E(i, g) = E(i, f)
        OBVIOUS
      <4>2. i # 1 => i - 1 \in 1 .. n
        OBVIOUS
      <4>3. E(i, g) = E(i, f)
        BY <3>2, <4>1, <4>2
      <4>5. i <= n => i \in 1 .. n
        OBVIOUS
      <4>4. i <= n => f[i] = E(i, f)
        <5>. HIDE DEF E
        <5>1. QED  BY <3>1, <4>5
      <4>6. ~(i <= n) => i = n + 1
        OBVIOUS
      <4>. HIDE DEF E
      <4>7. QED  BY <3>2, <4>3, <4>4, <4>5, <4>6
    <3>5. Solves(g, n + 1)
      <4>. HIDE DEF E
      <4>1. QED  BY <3>3, <3>4
    <3>6. n + 1 \in Nat
      OBVIOUS
    <3>. HIDE DEF Solves
    <3>7. QED  BY <3>5, <3>6
  <2>3. T \subseteq Nat
    OBVIOUS
  <2>. HIDE DEF T
  <2>4. QED  BY <2>1, <2>2, <2>3, Induct
<1>2. Solves(flat, N)
  <2>1. \E f : Solves(f, N)
    BY <1>0, <1>1
  <2>. HIDE DEF Solves
  <2>2. QED  BY <2>1
<1>3. N # 0 => FlattenSeq(s) = flat[N]
  BY DEF FlattenSeq
<1>. HIDE DEF flat
<1>4. \A i \in 1 .. N : flat[i] = E(i, flat)
  BY <1>2
<1>. DEFINE G == {n \in Nat : n + 1 <= N => flat[n + 1] \in Seq(S)}
<1>5. G = Nat
  <2>. HIDE DEF N
  <2>1. 0 \in G
    <3>1. 1 <= N => 1 \in 1 .. N
      BY <1>0
    <3>2. QED  BY <1>0, <1>4, <3>1
  <2>2. ASSUME NEW n \in Nat, n \in G PROVE n + 1 \in G
    <3>1. SUFFICES ASSUME (n + 1) + 1 <= N PROVE flat[(n + 1) + 1] \in Seq(S)
      BY <3>1
    <3>2. /\ n + 1 <= N /\ (n + 1) + 1 \in 1 .. N /\ (n + 1) + 1 # 1
          /\ ((n + 1) + 1) - 1 = n + 1
      BY <1>0, <3>1
    <3>3. flat[n + 1] \in Seq(S) /\ s[(n + 1) + 1] \in Seq(S)
      BY <1>0, <2>2, <3>2
    <3>4. flat[(n + 1) + 1] = flat[n + 1] \o s[(n + 1) + 1]
      BY <1>4, <3>2
    <3>5. QED  BY <3>3, <3>4
  <2>3. G \subseteq Nat
    OBVIOUS
  <2>. HIDE DEF G
  <2>4. QED  BY <2>1, <2>2, <2>3, Induct
<1>6. CASE N = 0
  BY <1>6 DEF FlattenSeq
<1>7. CASE N # 0
  <2>1. N - 1 \in Nat /\ (N - 1) + 1 = N
    BY <1>0, <1>7
  <2>2. N - 1 \in G
    BY <1>5, <2>1
  <2>. HIDE DEF N
  <2>3. flat[N] \in Seq(S)
    BY <1>0, <2>1, <2>2
  <2>4. QED  BY <1>3, <1>7, <2>3
<1>8. QED  BY <1>6, <1>7

-----------------------------------------------------------------------------
(* remove_suffix *)

\* The last word that is no mark is the i-th, or there is none and i = 0.
Ends(s, i) ==
    /\ i > 0 => s[i] \notin Marks
    /\ \A j \in i + 1 .. Len(s) : s[j] \in Marks

\* A name ends before its last marks in one place only.
LEMMA EndsOnce ==
    ASSUME NEW S, NEW s \in Seq(S), NEW i \in 0 .. Len(s), NEW j \in 0 .. Len(s),
           Ends(s, i), Ends(s, j)
    PROVE  i = j
<1>. DEFINE n == Len(s)
<1>1. n \in Nat
  OBVIOUS
<1>. HIDE DEF n
<1>2. i < j => j > 0 /\ j \in i + 1 .. n
  BY <1>1 DEF n
<1>3. j < i => i > 0 /\ i \in j + 1 .. n
  BY <1>1 DEF n
<1>4. ~(i < j) /\ ~(j < i)
  BY <1>2, <1>3 DEF Ends, n
<1>5. QED  BY <1>1, <1>4 DEF n

\* Every name ends somewhere before its last marks.
LEMMA EndsSomewhere ==
    ASSUME NEW S, NEW s \in Seq(S)
    PROVE  \E i \in 0 .. Len(s) : Ends(s, i)
<1>. DEFINE n == Len(s)
            T == {i \in 0 .. n : \A j \in i + 1 .. n : s[j] \in Marks}
<1>1. n \in Nat
  OBVIOUS
<1>. HIDE DEF n
<1>2. n \in T
  BY <1>1
<1>3. PICK i \in T : \A j \in T : i <= j
  <2>1. T \subseteq Nat
    BY <1>1
  <2>. HIDE DEF T
  <2>2. QED  BY <1>2, <2>1, LeastNat
<1>4. ASSUME i > 0, s[i] \in Marks PROVE FALSE
  <2>1. i - 1 \in 0 .. n /\ ~(i <= i - 1)
    BY <1>1, <1>4
  <2>2. \A j \in (i - 1) + 1 .. n : j = i \/ j \in i + 1 .. n
    BY <1>1
  <2>3. i - 1 \in T
    BY <1>4, <2>1, <2>2
  <2>. HIDE DEF T
  <2>4. QED  BY <1>3, <2>1, <2>3
<1>5. QED  BY <1>4 DEF Ends, n

\* remove_suffix cuts where the name ends (abigen.hpp:272-279).
LEMMA SuffixAt ==
    ASSUME NEW S, NEW s \in Seq(S), NEW i \in 0 .. Len(s), Ends(s, i)
    PROVE  RemoveSuffix(s) = SubSeq(s, 1, i)
<1>. DEFINE end == CHOOSE j \in 0 .. Len(s) : Ends(s, j)
<1>1. RemoveSuffix(s) = SubSeq(s, 1, end)
  BY DEF RemoveSuffix, Ends
<1>2. end \in 0 .. Len(s) /\ Ends(s, end)
  OBVIOUS
<1>. HIDE DEF end
<1>3. end = i
  BY <1>2, EndsOnce
<1>4. QED  BY <1>1, <1>3

\* A name that ends in no mark stays as it is.
LEMMA NoSuffix ==
    ASSUME NEW S, NEW s \in Seq(S), s # <<>>, s[Len(s)] \notin Marks
    PROVE  RemoveSuffix(s) = s
<1>. DEFINE n == Len(s)
<1>1. n \in Nat /\ n # 0 /\ SubSeq(s, 1, n) = s
  OBVIOUS
<1>2. n \in 0 .. Len(s) /\ Ends(s, n)
  BY <1>1 DEF Ends
<1>. HIDE DEF n
<1>3. QED  BY <1>1, <1>2, SuffixAt

\* A name that stays as it is ends in no mark.
LEMMA SuffixLess ==
    ASSUME NEW S, NEW s \in Seq(S), s # <<>>, RemoveSuffix(s) = s
    PROVE  s[Len(s)] \notin Marks
<1>. DEFINE n == Len(s)
<1>1. n \in Nat /\ n > 0 /\ \A j \in 0 .. n : Len(SubSeq(s, 1, j)) = j
  OBVIOUS
<1>2. PICK i \in 0 .. n : Ends(s, i)
  BY EndsSomewhere
<1>3. RemoveSuffix(s) = SubSeq(s, 1, i)
  BY <1>2, SuffixAt
<1>4. n = i
  BY <1>1, <1>3
<1>5. QED  BY <1>1, <1>2, <1>4 DEF Ends

\* A mark at the end goes with the others.
LEMMA OneMark ==
    ASSUME NEW S, NEW s \in Seq(S), NEW m \in S, m \in Marks
    PROVE  RemoveSuffix(Append(s, m)) = RemoveSuffix(s)
<1>. DEFINE n == Len(s)
            t == Append(s, m)
<1>1. /\ n \in Nat /\ t \in Seq(S) /\ Len(t) = n + 1 /\ t[n + 1] = m
      /\ \A j \in 1 .. n : t[j] = s[j]
  OBVIOUS
<1>2. \A i \in 0 .. n : SubSeq(t, 1, i) = SubSeq(s, 1, i)
  OBVIOUS
<1>3. PICK i \in 0 .. n : Ends(s, i)
  BY EndsSomewhere
<1>4. i > 0 => t[i] \notin Marks
  BY <1>1, <1>3 DEF Ends
<1>. HIDE DEF t
<1>5. ASSUME NEW j \in i + 1 .. n + 1 PROVE t[j] \in Marks
  <2>1. j = n + 1 \/ (j \in i + 1 .. n /\ j \in 1 .. n)
    BY <1>1
  <2>2. j \in i + 1 .. n => s[j] \in Marks
    BY <1>3 DEF Ends
  <2>3. QED  BY <1>1, <2>1, <2>2
<1>6. Ends(t, i) /\ i \in 0 .. Len(t)
  BY <1>1, <1>4, <1>5 DEF Ends
<1>7. RemoveSuffix(t) = SubSeq(t, 1, i)
  BY <1>1, <1>6, SuffixAt
<1>8. RemoveSuffix(s) = SubSeq(s, 1, i)
  BY <1>3, SuffixAt
<1>9. QED  BY <1>2, <1>7, <1>8 DEF t

-----------------------------------------------------------------------------
(* The names of types *)

Words(p) ==
    {"pair", "tuple", "spelled", "bytes"} \cup Marks \cup Types
    \cup {Type(p, t).name : t \in Types}

Plain(p) == Words(p) \ Marks

\* A spelled type is a sequence of words without marks.
LEMMA SpelledTyped ==
    ASSUME NEW p \in Programs, NEW s \in Seq(Types)
    PROVE  Joined(LAMBDA a : Spelled(p, a), s) \in Seq(Plain(p))
<1>. DEFINE parts == [i \in DOMAIN s |-> Spelled(p, s[i])]
<1>1. ASSUME NEW t \in Types PROVE Spelled(p, t) \in Seq(Plain(p))
  <2>1. Type(p, t).name \in Plain(p)
    BY TypeTyped DEF Plain, Words
  <2>2. t \in Plain(p) /\ "spelled" \in Plain(p)
    BY ProgramsAssumption DEF Plain, Words, Marks
  <2>3. QED  BY <2>1, <2>2 DEF Spelled
<1>2. parts \in Seq(Seq(Plain(p)))
  <2>. DEFINE W == Seq(Plain(p))
  <2>1. /\ parts = [i \in 1 .. Len(s) |-> parts[i]] /\ Len(s) \in Nat
        /\ \A i \in 1 .. Len(s) : s[i] \in Types /\ parts[i] = Spelled(p, s[i])
    OBVIOUS
  <2>. HIDE DEF parts, W
  <2>2. \A i \in 1 .. Len(s) : parts[i] \in W
    BY <1>1, <2>1 DEF W
  <2>3. parts \in Seq(W)
    BY <2>1, <2>2
  <2>4. QED  BY <2>3 DEF W
<1>. HIDE DEF parts
<1>3. FlattenSeq(parts) \in Seq(Plain(p))
  BY <1>2, FlattenTyped
<1>4. QED  BY <1>3 DEF Joined, Each, parts

Both(p, t) == <<"pair">> \o Name(p, Type(p, t).args[1]) \o Name(p, Type(p, t).args[2])

\* The names of each kind of type (gen.hpp:264-316).
LEMMA NameForms ==
    ASSUME NEW p \in Programs, NEW t \in Types
    PROVE  LET d == Type(p, t) IN
           /\ d.kind \in {"builtin", "struct", "alias"} => Name(p, t) = <<d.name>>
           /\ d.kind = "seq" =>
                 Name(p, t) = <<"bytes">> \/ Name(p, t) = Append(Name(p, d.args[1]), "[]")
           /\ d.kind = "optional" => Name(p, t) = Append(Name(p, d.args[1]), "?")
           /\ d.kind = "map" => Name(p, t) = Append(Both(p, t), "[]")
           /\ d.kind = "pair" => Name(p, t) = Both(p, t)
           /\ d.kind = "tuple" =>
                 Name(p, t) = <<"tuple">> \o Joined(LAMBDA a : Spelled(p, a), d.args)
<1>1. PICK name : /\ \A u : Name(p, u) = name[u]
                  /\ \A u \in Types : Name(p, u) = NameFrom(p, name, u)
  BY NameStep
<1>2. Name(p, t) = NameFrom(p, name, t)
  BY <1>1
<1>3. /\ name[Type(p, t).args[1]] = Name(p, Type(p, t).args[1])
      /\ name[Type(p, t).args[2]] = Name(p, Type(p, t).args[2])
  BY <1>1
<1>4. Type(p, t).kind \in Kinds
  BY TypeTyped
<1>5. QED  BY <1>2, <1>3, <1>4 DEF NameFrom, Both, Kinds

\* The name of a template's instance is what add_type adds it under.
LEMMA TemplateForm ==
    ASSUME NEW p \in Programs, Expressible(p), NEW t \in Types, Type(p, t).kind = "template"
    PROVE  Name(p, t) = <<Type(p, t).name>> \o Joined(LAMBDA a : Spelled(p, a), Type(p, t).args)
<1>1. Name(p, t) = TemplateName(p, t)
  BY DEF Expressible
<1>2. QED  BY <1>1 DEF TemplateName

\* One word more is again a sequence of words.
LEMMA OneMoreWord ==
    ASSUME NEW S, NEW x \in S, NEW s \in Seq(S)
    PROVE  <<x>> \o s \in Seq(S) /\ <<x>> \o s # <<>> /\ (<<x>> \o s)[Len(<<x>> \o s)] \in S
<1>. DEFINE w == <<x>> \o s
<1>1. w \in Seq(S) /\ Len(w) = 1 + Len(s) /\ Len(s) \in Nat
  OBVIOUS
<1>. HIDE DEF w
<1>2. Len(w) \in 1 .. Len(w) /\ w # <<>>
  BY <1>1
<1>3. w[Len(w)] \in S
  BY <1>1, <1>2
<1>4. QED  BY <1>1, <1>2, <1>3 DEF w

\* Names that are made of one word and spelled types end in no mark.
LEMMA PlainNames ==
    ASSUME NEW p \in Programs, Expressible(p), NEW t \in Types,
           Type(p, t).kind \in {"builtin", "struct", "alias", "tuple", "template"}
    PROVE  /\ Name(p, t) \in Seq(Words(p)) \ {<<>>}
           /\ Name(p, t)[Len(Name(p, t))] \notin Marks
<1>1. \E x \in Plain(p), s \in Seq(Plain(p)) : Name(p, t) = <<x>> \o s
  <2>1. Type(p, t).name \in Plain(p) /\ "tuple" \in Plain(p)
    BY TypeTyped DEF Plain, Words, Marks
  <2>2. CASE Type(p, t).kind \in {"builtin", "struct", "alias"}
    <3>. DEFINE x == Type(p, t).name
    <3>1. Name(p, t) = <<x>>
      BY <2>2, NameForms
    <3>. HIDE DEF x
    <3>2. <<x>> = <<x>> \o <<>> /\ <<>> \in Seq(Plain(p))
      OBVIOUS
    <3>3. QED  BY <2>1, <3>1, <3>2 DEF x
  <2>3. CASE Type(p, t).kind = "tuple"
    <3>1. Name(p, t) = <<"tuple">> \o Joined(LAMBDA a : Spelled(p, a), Type(p, t).args)
      BY <2>3, NameForms
    <3>2. QED  BY <2>1, <3>1, SpelledTyped, TypeTyped
  <2>4. CASE Type(p, t).kind = "template"
    <3>1. Name(p, t) = <<Type(p, t).name>> \o Joined(LAMBDA a : Spelled(p, a), Type(p, t).args)
      BY <2>4, TemplateForm
    <3>2. QED  BY <2>1, <3>1, SpelledTyped, TypeTyped
  <2>5. QED  BY <2>2, <2>3, <2>4
<1>2. PICK x \in Plain(p), s \in Seq(Plain(p)) : Name(p, t) = <<x>> \o s
  BY <1>1
<1>3. /\ Name(p, t) \in Seq(Plain(p)) /\ Name(p, t) # <<>>
      /\ Name(p, t)[Len(Name(p, t))] \in Plain(p)
  BY <1>2, OneMoreWord
<1>4. Plain(p) \subseteq Words(p) /\ \A w \in Plain(p) : w \notin Marks
  BY DEF Plain
<1>5. QED  BY <1>3, <1>4

\* A pair's name, too, is a sequence of words.
LEMMA PairWords ==
    ASSUME NEW S, NEW x \in S, NEW s \in Seq(S) \ {<<>>}, NEW t \in Seq(S) \ {<<>>}
    PROVE  /\ <<x>> \o s \o t \in Seq(S) \ {<<>>}
           /\ (<<x>> \o s \o t)[Len(<<x>> \o s \o t)] = t[Len(t)]
<1>. DEFINE w == <<x>> \o s
            n == Len(w)
            m == Len(t)
<1>1. w \in Seq(S) /\ n \in Nat /\ m \in Nat /\ m # 0
  OBVIOUS
<1>. HIDE DEF w
<1>2. /\ w \o t \in Seq(S) /\ Len(w \o t) = n + m
      /\ \A i \in 1 .. n + m : (w \o t)[i] = IF i <= n THEN w[i] ELSE t[i - n]
  BY <1>1
<1>. HIDE DEF n, m
<1>3. n + m \in 1 .. n + m /\ ~(n + m <= n) /\ (n + m) - n = m /\ n + m # 0
  BY <1>1
<1>4. (w \o t)[n + m] = t[m]
  BY <1>2, <1>3
<1>5. w \o t # <<>>
  BY <1>2, <1>3
<1>6. QED  BY <1>2, <1>4, <1>5 DEF w, m

\* translate_type gives every type a name of one word at least.
LEMMA NameTyped ==
    ASSUME NEW p \in Programs, Expressible(p), NEW t \in Types
    PROVE  Name(p, t) \in Seq(Words(p)) \ {<<>>}
<1>. DEFINE W == Seq(Words(p)) \ {<<>>}
            S == {u \in Types : Name(p, u) \notin W}
<1>1. SUFFICES ASSUME S # {} PROVE FALSE
  BY <1>1
<1>2. PICK u \in S : \A a \in ToSet(Type(p, u).args) : a \notin S
  <2>1. S \subseteq Types
    OBVIOUS
  <2>. HIDE DEF S
  <2>2. QED  BY <1>1, <2>1, Innermost
<1>3. u \in Types /\ Name(p, u) \notin W
  OBVIOUS
<1>4. \A a \in ToSet(Type(p, u).args) : Name(p, a) \in W
  <2>1. ToSet(Type(p, u).args) \subseteq Types
    BY <1>3, TypeTyped, ArgsIn
  <2>2. QED  BY <1>2, <2>1
<1>. HIDE DEF S
<1>. DEFINE d == Type(p, u)
<1>5. "[]" \in Words(p) /\ "?" \in Words(p) /\ "bytes" \in Words(p) /\ "pair" \in Words(p)
  BY DEF Words, Marks
<1>6. \A s \in W, x \in Words(p) : Append(s, x) \in W /\ <<x>> \in W
  OBVIOUS
<1>7. d.kind \in {"alias", "seq", "optional"} => Name(p, d.args[1]) \in W
  BY <1>3, <1>4, TypeTyped, ArgsIn
<1>8. d.kind \in {"map", "pair"} => Name(p, d.args[1]) \in W /\ Name(p, d.args[2]) \in W
  BY <1>3, <1>4, TypeTyped, ArgsIn
<1>9. CASE d.kind \in {"builtin", "struct", "alias", "tuple", "template"}
  BY <1>3, <1>9, PlainNames
<1>10. CASE d.kind \in {"map", "pair"}
  <2>1. Both(p, u) \in W
    BY <1>5, <1>8, <1>10, PairWords DEF Both
  <2>. HIDE DEF W
  <2>2. QED  BY <1>3, <1>5, <1>6, <1>10, <2>1, NameForms
<1>11. CASE d.kind \in {"seq", "optional"}
  <2>. HIDE DEF W
  <2>1. QED  BY <1>3, <1>5, <1>6, <1>7, <1>11, NameForms
<1>12. d.kind \in Kinds
  BY <1>3, TypeTyped
<1>13. QED  BY <1>9, <1>10, <1>11, <1>12 DEF Kinds

-----------------------------------------------------------------------------
(* What the pending calls will describe *)

Kept == {"struct", "pair", "tuple", "template"}

\* Without its marks a name is that of the innermost type that is no container.
LEMMA Stems ==
    ASSUME NEW p \in Programs, Expressible(p), NEW t \in Types
    PROVE  LET d == Type(p, t) IN
           /\ d.kind \in Kept \cup {"alias", "builtin"} => RemoveSuffix(Name(p, t)) = Name(p, t)
           /\ d.kind \in {"seq", "optional"} =>
                 \/ IsBuiltin(Name(p, t))
                 \/ RemoveSuffix(Name(p, t)) = RemoveSuffix(Name(p, d.args[1]))
           /\ d.kind = "map" => RemoveSuffix(Name(p, t)) = Front(Name(p, t))
           /\ IsBuiltin(Name(p, t)) => RemoveSuffix(Name(p, t)) = Name(p, t)
<1>. DEFINE d == Type(p, t)
            W == Words(p)
            n == Name(p, t)
<1>1. n \in Seq(W) /\ n # <<>>
  BY NameTyped
<1>2. "[]" \in W /\ "?" \in W /\ "pair" \in W /\ "[]" \in Marks /\ "?" \in Marks
  BY DEF Words, Marks
<1>3. ASSUME d.kind \in {"struct", "tuple", "template", "alias", "builtin"}
      PROVE  RemoveSuffix(n) = n
  <2>1. n[Len(n)] \notin Marks
    BY <1>3, PlainNames
  <2>. HIDE DEF n, W
  <2>2. QED  BY <1>1, <2>1, NoSuffix
<1>4. ASSUME IsBuiltin(n) PROVE RemoveSuffix(n) = n
  <2>1. n[Len(n)] \notin Marks
    BY <1>4, ProgramsAssumption DEF IsBuiltin
  <2>. HIDE DEF n, W
  <2>2. QED  BY <1>1, <2>1, NoSuffix
<1>5. ASSUME d.kind \in {"seq", "optional"}
      PROVE  IsBuiltin(n) \/ RemoveSuffix(n) = RemoveSuffix(Name(p, d.args[1]))
  <2>. DEFINE a == Name(p, d.args[1])
  <2>1. a \in Seq(W)
    BY <1>5, TypeTyped, ArgsIn, NameTyped
  <2>2. n = <<"bytes">> \/ n = Append(a, "[]") \/ n = Append(a, "?")
    BY <1>5, NameForms
  <2>3. IsBuiltin(<<"bytes">>)
    BY ProgramsAssumption DEF IsBuiltin
  <2>. HIDE DEF n, a, W
  <2>4. RemoveSuffix(Append(a, "[]")) = RemoveSuffix(a) /\ RemoveSuffix(Append(a, "?")) = RemoveSuffix(a)
    BY <1>2, <2>1, OneMark
  <2>5. IsBuiltin(n) \/ RemoveSuffix(n) = RemoveSuffix(a)
    BY <2>2, <2>3, <2>4
  <2>6. QED  BY <2>5 DEF a
<1>6. ASSUME d.kind \in {"map", "pair"}
      PROVE  Both(p, t) \in Seq(W) /\ RemoveSuffix(Both(p, t)) = Both(p, t)
  <2>. DEFINE a == Name(p, d.args[1])
              b == Name(p, d.args[2])
  <2>1. a \in Seq(W) \ {<<>>} /\ b \in Seq(W) \ {<<>>}
    BY <1>6, TypeTyped, ArgsIn, NameTyped
  <2>2. b[Len(b)] \notin Marks
    BY <1>6, TypeTyped DEF Expressible, Last
  <2>3. Both(p, t) = <<"pair">> \o a \o b
    BY DEF Both
  <2>. DEFINE w == <<"pair">> \o a \o b
  <2>. HIDE DEF a, b, W
  <2>4. w \in Seq(W) \ {<<>>} /\ w[Len(w)] = b[Len(b)]
    BY <1>2, <2>1, PairWords
  <2>. HIDE DEF w
  <2>5. RemoveSuffix(w) = w
    BY <2>2, <2>4, NoSuffix
  <2>6. QED  BY <2>3, <2>4, <2>5 DEF w
<1>7. ASSUME d.kind = "pair" PROVE RemoveSuffix(n) = n
  <2>1. n = Both(p, t)
    BY <1>7, NameForms
  <2>2. QED  BY <1>6, <1>7, <2>1
<1>8. ASSUME d.kind = "map" PROVE RemoveSuffix(n) = Front(n)
  <2>. DEFINE b == Both(p, t)
  <2>1. n = Append(b, "[]")
    BY <1>8, NameForms
  <2>2. b \in Seq(W) /\ RemoveSuffix(b) = b
    BY <1>6, <1>8
  <2>. HIDE DEF n, b, W
  <2>3. RemoveSuffix(n) = b
    BY <1>2, <2>1, <2>2, OneMark
  <2>4. Front(n) = b
    BY <1>2, <2>1, <2>2 DEF Front
  <2>5. QED  BY <2>3, <2>4
<1>. HIDE DEF n
<1>9. QED  BY <1>3, <1>4, <1>5, <1>7, <1>8 DEF Kept, n

\* Insertions and calls that add a struct of name n, or anything of that name.
GivesStruct(p, x, n) ==
    \/ x[1] = "insert" /\ x[2] = "structs" /\ x[3].name = n
    \/ x[1] = "record" /\ <<Type(p, x[2]).name>> = n
    \/ x[1] = "type" /\ Type(p, x[2]).kind \in Kept /\ Name(p, x[2]) = n

GivesType(p, x, n) ==
    \/ GivesStruct(p, x, n)
    \/ x[1] = "insert" /\ x[2] = "typedefs" /\ x[3].name = n
    \/ x[1] = "type" /\ RemoveSuffix(Name(p, x[2])) = n

StructIn(p, W, n) == IsBuiltin(n) \/ \E x \in W : GivesStruct(p, x, n)
TypeIn(p, W, n) == IsBuiltin(n) \/ \E x \in W : GivesType(p, x, n)

\* What an entry speaks of comes, too.
Known(p, W, set, e) ==
    /\ set = "structs" =>
          /\ \A f \in ToSet(e.fields) : TypeIn(p, W, RemoveSuffix(f))
          /\ e.base = <<>> \/ StructIn(p, W, e.base)
    /\ set = "typedefs" => TypeIn(p, W, RemoveSuffix(e.type))
    /\ set = "actions" => StructIn(p, W, e.type)
    /\ set = "tables" =>
          /\ TypeIn(p, W, RemoveSuffix(e.key)) /\ TypeIn(p, W, RemoveSuffix(e.value))
          /\ RemoveSuffix(e.key) = e.key /\ ~IsAlias(p, e.key) => StructIn(p, W, e.key)

Closed(p, W) == \A set, e : Insert(set, e) \in W => Known(p, W, set, e)

\* V adds all that x does.
Stands(p, x, V) ==
    \A n : /\ GivesStruct(p, x, n) => StructIn(p, V, n)
           /\ GivesType(p, x, n) => TypeIn(p, V, n)

\* The kinds of call and their operands are told apart.
LEMMA Parts ==
    ASSUME NEW t, NEW set, NEW e
    PROVE  /\ AddType(t)[1] = "type" /\ AddType(t)[2] = t
           /\ AddRecord(t)[1] = "record" /\ AddRecord(t)[2] = t
           /\ Validate(t)[1] = "validate"
           /\ Insert(set, e)[1] = "insert" /\ Insert(set, e)[2] = set /\ Insert(set, e)[3] = e
BY DEF AddType, AddRecord, Validate, Insert

\* What is known stays known when more is there, or something that stands for it.
LEMMA Wider ==
    ASSUME NEW p, NEW W, NEW V, \A x \in W : x \in V \/ Stands(p, x, V)
    PROVE  /\ \A n : (StructIn(p, W, n) => StructIn(p, V, n)) /\ (TypeIn(p, W, n) => TypeIn(p, V, n))
           /\ \A set, e : Known(p, W, set, e) => Known(p, V, set, e)
<1>1. \A n : (StructIn(p, W, n) => StructIn(p, V, n)) /\ (TypeIn(p, W, n) => TypeIn(p, V, n))
  BY DEF StructIn, TypeIn, Stands
<1>2. \A set, e : Known(p, W, set, e) => Known(p, V, set, e)
  BY <1>1 DEF Known
<1>3. QED  BY <1>1, <1>2

\* A step that takes away only what something else stands for, and adds only
\* what speaks of known types, keeps the whole closed.
LEMMA Replace ==
    ASSUME NEW p, NEW W, NEW V, Closed(p, W),
           \A x \in W : x \in V \/ Stands(p, x, V),
           \A set, e : Insert(set, e) \in V => Insert(set, e) \in W \/ Known(p, V, set, e)
    PROVE  Closed(p, V)
<1>1. \A set, e : Known(p, W, set, e) => Known(p, V, set, e)
  BY Wider
<1>2. QED  BY <1>1 DEF Closed

-----------------------------------------------------------------------------
(* The work of each call *)

\* The work of a call in three parts.
LEMMA TwoSeqs ==
    ASSUME NEW s, NEW t, NEW u, IsSeq(s), IsSeq(t), IsSeq(u)
    PROVE  IsSeq(s \o t \o u) /\ ToSet(s \o t \o u) = ToSet(s) \cup ToSet(t) \cup ToSet(u)
<1>. DEFINE v == s \o t
<1>1. IsSeq(v) /\ ToSet(v) = ToSet(s) \cup ToSet(t)
  BY SetOfConcat
<1>. HIDE DEF v
<1>2. IsSeq(v \o u) /\ ToSet(v \o u) = ToSet(v) \cup ToSet(u)
  BY <1>1, SetOfConcat
<1>3. QED  BY <1>1, <1>2 DEF v

\* add_struct: the base, if there is one, the fields, then the struct (abigen.hpp:145-182).
LEMMA StructWorkIs ==
    ASSUME NEW p \in Programs, NEW d, d.fields \in Seq(Types), d.base \in Seq(Types), NEW rname
    PROVE  /\ IsSeq(StructWork(p, d, rname))
           /\ \E R \in SUBSET ToSet(d.base) : \E parent :
                 /\ ToSet(StructWork(p, d, rname)) =
                       {AddRecord(b) : b \in R} \cup {AddType(f) : f \in ToSet(d.fields)}
                       \cup {Insert("structs", Struct(rname, parent, Names(p, d.fields)))}
                 /\ parent = <<>> \/ \E b \in R : parent = Name(p, b)
<1>. DEFINE base == IF Len(d.base) = 1 THEN d.base ELSE <<>>
            parent == IF base = <<>> THEN <<>> ELSE Name(p, base[1])
            last == Insert("structs", Struct(rname, parent, Names(p, d.fields)))
            R == ToSet(base)
<1>1. base \in Seq(Types)
  OBVIOUS
<1>2. R \subseteq ToSet(d.base) /\ (base # <<>> => base[1] \in R)
  BY DEF ToSet
<1>3. StructWork(p, d, rname) = Each(AddRecord, base) \o AddTypes(d.fields) \o <<last>>
  BY DEF StructWork
<1>4. parent = <<>> \/ \E b \in R : parent = Name(p, b)
  BY <1>2
<1>5. IsSeq(Each(AddRecord, base)) /\ ToSet(Each(AddRecord, base)) = {AddRecord(b) : b \in R}
  <2>. HIDE DEF base
  <2>1. QED  BY <1>1, SetOfTypes
<1>6. IsSeq(AddTypes(d.fields)) /\ ToSet(AddTypes(d.fields)) = {AddType(f) : f \in ToSet(d.fields)}
  BY SetOfTypes
<1>7. IsSeq(<<last>>) /\ ToSet(<<last>>) = {last}
  BY SetOfOne
<1>. DEFINE w == Each(AddRecord, base)
            a == AddTypes(d.fields)
<1>8. /\ IsSeq(w \o a \o <<last>>)
      /\ ToSet(w \o a \o <<last>>) = ToSet(w) \cup ToSet(a) \cup ToSet(<<last>>)
  <2>. HIDE DEF w, a, last
  <2>1. QED  BY <1>5, <1>6, <1>7, TwoSeqs DEF w, a
<1>9. ToSet(StructWork(p, d, rname)) =
         {AddRecord(b) : b \in R} \cup {AddType(f) : f \in ToSet(d.fields)} \cup {last}
  <2>. HIDE DEF base, last, R
  <2>1. QED  BY <1>3, <1>5, <1>6, <1>7, <1>8
<1>10. IsSeq(StructWork(p, d, rname))
  BY <1>3, <1>8
<1>. HIDE DEF base, parent, R
<1>11. QED  BY <1>2, <1>4, <1>9, <1>10

\* add_pair, add_map.
LEMMA PairWorkIs ==
    ASSUME NEW p \in Programs, NEW t \in Types, NEW name
    PROVE  /\ IsSeq(PairWork(p, t, name))
           /\ ToSet(PairWork(p, t, name)) =
                 {AddType(a) : a \in ToSet(Type(p, t).args)}
                 \cup {Insert("structs", Struct(name, <<>>, Names(p, Type(p, t).args)))}
<1>. DEFINE a == AddTypes(Type(p, t).args)
            last == Insert("structs", Struct(name, <<>>, Names(p, Type(p, t).args)))
<1>1. PairWork(p, t, name) = a \o a \o <<last>>
  BY DEF PairWork
<1>2. IsSeq(a) /\ ToSet(a) = {AddType(u) : u \in ToSet(Type(p, t).args)}
  BY SetOfTypes, TypeTyped
<1>3. IsSeq(<<last>>) /\ ToSet(<<last>>) = {last}
  BY SetOfOne
<1>. HIDE DEF a, last
<1>4. /\ IsSeq(a \o a \o <<last>>)
      /\ ToSet(a \o a \o <<last>>) = ToSet(a) \cup ToSet(a) \cup ToSet(<<last>>)
  BY <1>2, <1>3, TwoSeqs
<1>5. QED  BY <1>1, <1>2, <1>3, <1>4 DEF last

\* The struct of two types or more that add_pair, add_map and add_tuple insert.
Composite(p, t, name) ==
    {AddType(a) : a \in ToSet(Type(p, t).args)}
    \cup {Insert("structs", Struct(name, <<>>, Names(p, Type(p, t).args)))}

Alias(p, t) ==
    LET target == Type(p, t).args[1]
    IN  (IF IsBuiltin(Name(p, target)) THEN {} ELSE {AddType(target)})
        \cup {Insert("typedefs", [name |-> Name(p, t), type |-> Name(p, target)])}

\* add_type (abigen.hpp:198-218).
LEMMA TypeWorkIs ==
    ASSUME NEW p \in Programs, NEW t \in Types
    PROVE  LET d == Type(p, t)
               W == ToSet(TypeWork(p, t)) IN
           /\ IsSeq(TypeWork(p, t))
           /\ IsBuiltin(Name(p, t)) => W = {}
           /\ ~IsBuiltin(Name(p, t)) =>
                 /\ d.kind = "alias" => W = Alias(p, t)
                 /\ d.kind \in {"seq", "optional"} => W = {AddType(d.args[1])}
                 /\ d.kind = "map" => W = Composite(p, t, Front(Name(p, t)))
                 /\ d.kind \in {"pair", "tuple"} => W = Composite(p, t, Name(p, t))
                 /\ d.kind = "template" => TypeWork(p, t) = StructWork(p, d, TemplateName(p, t))
                 /\ d.kind = "struct" => TypeWork(p, t) = StructWork(p, d, <<d.name>>)
                 /\ d.kind # "builtin"
<1>. DEFINE d == Type(p, t)
            W == ToSet(TypeWork(p, t))
<1>0. d.kind \in Kinds /\ d.args \in Seq(Types) /\ d.fields \in Seq(Types) /\ d.base \in Seq(Types)
  BY TypeTyped
<1>1. CASE IsBuiltin(Name(p, t))
  <2>1. TypeWork(p, t) = <<>>
    BY <1>1 DEF TypeWork
  <2>2. QED  BY <1>1, <2>1, SetOfOne
<1>2. CASE ~IsBuiltin(Name(p, t)) /\ d.kind = "alias"
  <2>. DEFINE target == d.args[1]
              first == IF IsBuiltin(Name(p, target)) THEN <<>> ELSE <<AddType(target)>>
              last == Insert("typedefs", [name |-> Name(p, t), type |-> Name(p, target)])
  <2>1. TypeWork(p, t) = first \o <<last>>
    BY <1>2 DEF TypeWork, TypedefWork
  <2>2. /\ IsSeq(first)
        /\ ToSet(first) = IF IsBuiltin(Name(p, target)) THEN {} ELSE {AddType(target)}
    BY SetOfOne
  <2>3. IsSeq(<<last>>) /\ ToSet(<<last>>) = {last}
    BY SetOfOne
  <2>4. IsSeq(first \o <<last>>) /\ ToSet(first \o <<last>>) = ToSet(first) \cup ToSet(<<last>>)
    <3>. HIDE DEF first, last
    <3>1. QED  BY <2>2, <2>3, SetOfConcat
  <2>5. W = Alias(p, t)
    <3>. HIDE DEF first, last
    <3>1. W = (IF IsBuiltin(Name(p, target)) THEN {} ELSE {AddType(target)}) \cup {last}
      BY <2>1, <2>2, <2>3, <2>4
    <3>2. QED  BY <3>1 DEF Alias, last
  <2>6. QED  BY <1>2, <2>1, <2>4, <2>5
<1>3. CASE ~IsBuiltin(Name(p, t)) /\ d.kind \in {"seq", "optional"}
  <2>1. TypeWork(p, t) = AddTypes(d.args)
    BY <1>3 DEF TypeWork
  <2>2. ToSet(d.args) = {d.args[1]}
    BY <1>3, TypeTyped, ArgsIn
  <2>3. IsSeq(AddTypes(d.args)) /\ ToSet(AddTypes(d.args)) = {AddType(u) : u \in ToSet(d.args)}
    BY <1>0, SetOfTypes
  <2>4. ToSet(AddTypes(d.args)) = {AddType(d.args[1])}
    BY <2>2, <2>3
  <2>5. QED  BY <1>3, <2>1, <2>3, <2>4
<1>4. CASE ~IsBuiltin(Name(p, t)) /\ d.kind = "map"
  <2>1. TypeWork(p, t) = PairWork(p, t, Front(Name(p, t)))
    BY <1>4 DEF TypeWork
  <2>2. QED  BY <1>4, <2>1, PairWorkIs DEF Composite
<1>5. CASE ~IsBuiltin(Name(p, t)) /\ d.kind = "pair"
  <2>1. TypeWork(p, t) = PairWork(p, t, Name(p, t))
    BY <1>5 DEF TypeWork
  <2>2. QED  BY <1>5, <2>1, PairWorkIs DEF Composite
<1>6. CASE ~IsBuiltin(Name(p, t)) /\ d.kind = "tuple"
  <2>. DEFINE a == AddTypes(d.args)
              last == Insert("structs", Struct(Name(p, t), <<>>, Names(p, d.args)))
  <2>1. TypeWork(p, t) = a \o <<last>>
    BY <1>6 DEF TypeWork
  <2>2. IsSeq(a) /\ ToSet(a) = {AddType(u) : u \in ToSet(d.args)}
    BY <1>0, SetOfTypes
  <2>3. IsSeq(<<last>>) /\ ToSet(<<last>>) = {last}
    BY SetOfOne
  <2>4. IsSeq(a \o <<last>>) /\ ToSet(a \o <<last>>) = ToSet(a) \cup ToSet(<<last>>)
    <3>. HIDE DEF a, last
    <3>1. QED  BY <2>2, <2>3, SetOfConcat
  <2>5. W = Composite(p, t, Name(p, t))
    <3>. HIDE DEF a, last
    <3>1. W = {AddType(u) : u \in ToSet(d.args)} \cup {last}
      BY <2>1, <2>2, <2>3, <2>4
    <3>2. QED  BY <3>1 DEF Composite, last
  <2>6. QED  BY <1>6, <2>1, <2>4, <2>5
<1>7. CASE ~IsBuiltin(Name(p, t)) /\ d.kind = "template"
  <2>1. TypeWork(p, t) = StructWork(p, d, TemplateName(p, t))
    BY <1>7 DEF TypeWork
  <2>2. IsSeq(TypeWork(p, t))
    BY <1>0, <2>1, StructWorkIs
  <2>3. QED  BY <1>7, <2>1, <2>2
<1>8. CASE ~IsBuiltin(Name(p, t)) /\ d.kind = "struct"
  <2>1. TypeWork(p, t) = StructWork(p, d, <<d.name>>)
    BY <1>8 DEF TypeWork
  <2>2. IsSeq(TypeWork(p, t))
    BY <1>0, <2>1, StructWorkIs
  <2>3. QED  BY <1>8, <2>1, <2>2
<1>9. CASE ~IsBuiltin(Name(p, t)) /\ d.kind = "builtin"
  <2>1. Name(p, t) = <<d.name>> /\ d.name \in Builtins
    BY <1>9, NameForms, TypeTyped
  <2>2. IsBuiltin(<<d.name>>)
    BY <2>1 DEF IsBuiltin
  <2>3. QED  BY <1>9, <2>1, <2>2
<1>10. QED  BY <1>0, <1>1, <1>2, <1>3, <1>4, <1>5, <1>6, <1>7, <1>8, <1>9 DEF Kinds

\* What a struct speaks of is called before it is inserted.
LEMMA StructWorkOK ==
    ASSUME NEW p \in Programs, NEW d, d.fields \in Seq(Types), d.base \in Seq(Types),
           \A b \in ToSet(d.base) : Type(p, b).kind = "struct", NEW rname
    PROVE  LET W == ToSet(StructWork(p, d, rname)) IN
           /\ Closed(p, W)
           /\ \E x \in W : GivesStruct(p, x, rname)
<1>. DEFINE W == ToSet(StructWork(p, d, rname))
<1>1. PICK R, parent :
         /\ R \in SUBSET ToSet(d.base)
         /\ W = {AddRecord(b) : b \in R} \cup {AddType(f) : f \in ToSet(d.fields)}
                \cup {Insert("structs", Struct(rname, parent, Names(p, d.fields)))}
         /\ parent = <<>> \/ \E b \in R : parent = Name(p, b)
  BY StructWorkIs
<1>. DEFINE s == Struct(rname, parent, Names(p, d.fields))
<1>2. s.name = rname /\ s.base = parent /\ s.fields = Names(p, d.fields)
  BY DEF Struct
<1>3. Insert("structs", s) \in W
  BY <1>1
<1>4. \A set, e : Insert(set, e) \in W => set = "structs" /\ e = s
  <2>0. W = {AddRecord(b) : b \in R} \cup {AddType(f) : f \in ToSet(d.fields)}
            \cup {Insert("structs", s)}
    BY <1>1
  <2>. HIDE DEF s, W
  <2>1. SUFFICES ASSUME NEW set, NEW e, Insert(set, e) \in W PROVE set = "structs" /\ e = s
    OBVIOUS
  <2>2. Insert(set, e) = Insert("structs", s)
    <3>1. \A u : AddRecord(u) # Insert(set, e) /\ AddType(u) # Insert(set, e)
      BY Parts
    <3>2. QED  BY <2>0, <2>1, <3>1
  <2>3. QED  BY <2>2, Parts
<1>. HIDE DEF s
<1>5. ASSUME NEW f \in ToSet(s.fields) PROVE TypeIn(p, W, RemoveSuffix(f))
  <2>1. PICK u \in ToSet(d.fields) : f = Name(p, u)
    BY <1>2, NamesOf
  <2>2. AddType(u) \in W
    BY <1>1
  <2>. HIDE DEF W
  <2>3. GivesType(p, AddType(u), RemoveSuffix(f))
    BY <2>1, Parts DEF GivesType
  <2>4. QED  BY <2>2, <2>3 DEF TypeIn
<1>6. s.base = <<>> \/ StructIn(p, W, s.base)
  <2>1. SUFFICES ASSUME NEW b \in R, parent = Name(p, b) PROVE StructIn(p, W, s.base)
    BY <1>1, <1>2
  <2>2. b \in Types /\ Type(p, b).kind = "struct"
    BY <1>1, ArgsIn
  <2>3. parent = <<Type(p, b).name>>
    BY <2>1, <2>2, NameForms
  <2>4. AddRecord(b) \in W
    BY <1>1
  <2>. HIDE DEF W
  <2>5. GivesStruct(p, AddRecord(b), s.base)
    BY <1>2, <2>3, Parts DEF GivesStruct
  <2>6. QED  BY <2>4, <2>5 DEF StructIn
<1>. HIDE DEF W
<1>7. Known(p, W, "structs", s)
  BY <1>5, <1>6 DEF Known
<1>8. Closed(p, W)
  BY <1>4, <1>7 DEF Closed
<1>9. GivesStruct(p, Insert("structs", s), rname)
  BY <1>2, Parts DEF GivesStruct
<1>10. QED  BY <1>3, <1>8, <1>9 DEF W

\* A composite speaks of the types it has called.
LEMMA CompositeOK ==
    ASSUME NEW p \in Programs, NEW t \in Types, NEW name
    PROVE  LET W == Composite(p, t, name) IN
           /\ Closed(p, W)
           /\ \E x \in W : GivesStruct(p, x, name)
<1>. DEFINE W == Composite(p, t, name)
            args == Type(p, t).args
            s == Struct(name, <<>>, Names(p, args))
<1>1. W = {AddType(a) : a \in ToSet(args)} \cup {Insert("structs", s)}
  BY DEF Composite
<1>2. s.name = name /\ s.base = <<>> /\ s.fields = Names(p, args)
  BY DEF Struct
<1>. HIDE DEF W, s
<1>3. \A set, e : Insert(set, e) \in W => set = "structs" /\ e = s
  <2>1. SUFFICES ASSUME NEW set, NEW e, Insert(set, e) \in W PROVE set = "structs" /\ e = s
    OBVIOUS
  <2>2. Insert(set, e) = Insert("structs", s)
    BY <1>1, <2>1, Parts
  <2>3. QED  BY <2>2, Parts
<1>4. ASSUME NEW f \in ToSet(s.fields) PROVE TypeIn(p, W, RemoveSuffix(f))
  <2>1. PICK u \in ToSet(args) : f = Name(p, u)
    BY <1>2, NamesOf, TypeTyped
  <2>2. AddType(u) \in W
    BY <1>1
  <2>3. GivesType(p, AddType(u), RemoveSuffix(f))
    BY <2>1, Parts DEF GivesType
  <2>4. QED  BY <2>2, <2>3 DEF TypeIn
<1>5. Known(p, W, "structs", s)
  BY <1>2, <1>4 DEF Known
<1>6. Closed(p, W)
  BY <1>3, <1>5 DEF Closed
<1>7. GivesStruct(p, Insert("structs", s), name)
  BY <1>2, Parts DEF GivesStruct
<1>8. Insert("structs", s) \in W
  BY <1>1
<1>9. QED  BY <1>6, <1>7, <1>8 DEF W

\* A typedef speaks of its target, which is called or built in (abigen.hpp:37-47).
LEMMA AliasOK ==
    ASSUME NEW p \in Programs, Expressible(p), NEW t \in Types, Type(p, t).kind = "alias"
    PROVE  LET W == Alias(p, t) IN
           /\ Closed(p, W)
           /\ \E x \in W : GivesType(p, x, Name(p, t))
<1>. DEFINE W == Alias(p, t)
            target == Type(p, t).args[1]
            td == [name |-> Name(p, t), type |-> Name(p, target)]
<1>1. W = (IF IsBuiltin(Name(p, target)) THEN {} ELSE {AddType(target)}) \cup {Insert("typedefs", td)}
  BY DEF Alias
<1>2. td.name = Name(p, t) /\ td.type = Name(p, target)
  OBVIOUS
<1>3. target \in Types
  BY TypeTyped, ArgsIn
<1>. HIDE DEF W, td, target
<1>4. \A set, e : Insert(set, e) \in W => set = "typedefs" /\ e = td
  <2>1. SUFFICES ASSUME NEW set, NEW e, Insert(set, e) \in W PROVE set = "typedefs" /\ e = td
    OBVIOUS
  <2>2. Insert(set, e) = Insert("typedefs", td)
    BY <1>1, <2>1, Parts
  <2>3. QED  BY <2>2, Parts
<1>5. TypeIn(p, W, RemoveSuffix(td.type))
  <2>1. CASE IsBuiltin(Name(p, target))
    <3>1. RemoveSuffix(Name(p, target)) = Name(p, target)
      BY <1>3, <2>1, Stems
    <3>2. QED  BY <1>2, <2>1, <3>1 DEF TypeIn
  <2>2. CASE ~IsBuiltin(Name(p, target))
    <3>1. AddType(target) \in W
      BY <1>1, <2>2
    <3>2. GivesType(p, AddType(target), RemoveSuffix(td.type))
      BY <1>2, Parts DEF GivesType
    <3>3. QED  BY <3>1, <3>2 DEF TypeIn
  <2>3. QED  BY <2>1, <2>2
<1>6. Known(p, W, "typedefs", td)
  BY <1>5 DEF Known
<1>7. Closed(p, W)
  BY <1>4, <1>6 DEF Closed
<1>8. GivesType(p, Insert("typedefs", td), Name(p, t))
  BY <1>2, Parts DEF GivesType
<1>9. Insert("typedefs", td) \in W
  BY <1>1
<1>10. QED  BY <1>7, <1>8, <1>9 DEF W

\* add_type leaves what the call stood for (abigen.hpp:198-218).
LEMMA TypeWorkOK ==
    ASSUME NEW p \in Programs, Expressible(p), NEW t \in Types
    PROVE  LET W == ToSet(TypeWork(p, t)) IN
           /\ Closed(p, W)
           /\ Stands(p, AddType(t), W)
<1>. DEFINE d == Type(p, t)
            n == Name(p, t)
            W == ToSet(TypeWork(p, t))
<1>1. /\ d.kind \in Kinds /\ d.args \in Seq(Types)
      /\ d.fields \in Seq(Types) /\ d.base \in Seq(Types)
      /\ \A b \in ToSet(d.base) : Type(p, b).kind = "struct"
  BY TypeTyped DEF Expressible
<1>2. \A m : /\ GivesStruct(p, AddType(t), m) => d.kind \in Kept /\ m = n
             /\ GivesType(p, AddType(t), m) =>
                   m = RemoveSuffix(n) \/ (d.kind \in Kept /\ m = n)
  BY Parts DEF GivesStruct, GivesType
<1>3. SUFFICES /\ Closed(p, W)
               /\ d.kind \in Kept => StructIn(p, W, n)
               /\ TypeIn(p, W, RemoveSuffix(n))
  <2>1. \A m : StructIn(p, W, m) => TypeIn(p, W, m)
    BY DEF StructIn, TypeIn, GivesType
  <2>. HIDE DEF W, n, d
  <2>2. QED  BY <1>2, <1>3, <2>1 DEF Stands, W
<1>4. \A x, m : x \in W /\ GivesStruct(p, x, m) => StructIn(p, W, m) /\ TypeIn(p, W, m)
  BY DEF StructIn, TypeIn, GivesType
<1>5. CASE IsBuiltin(n)
  <2>1. W = {}
    BY <1>5, TypeWorkIs
  <2>2. RemoveSuffix(n) = n
    BY <1>5, Stems
  <2>. HIDE DEF W, n
  <2>3. QED  BY <1>5, <2>1, <2>2 DEF Closed, StructIn, TypeIn
<1>6. CASE ~IsBuiltin(n) /\ d.kind = "alias"
  <2>1. W = Alias(p, t)
    BY <1>6, TypeWorkIs
  <2>2. RemoveSuffix(n) = n
    BY <1>6, Stems
  <2>3. Closed(p, W) /\ \E x \in W : GivesType(p, x, n)
    BY <1>6, <2>1, AliasOK
  <2>4. d.kind \notin Kept
    BY <1>6 DEF Kept
  <2>. HIDE DEF W, n
  <2>5. QED  BY <2>2, <2>3, <2>4 DEF TypeIn
<1>7. CASE ~IsBuiltin(n) /\ d.kind \in {"seq", "optional"}
  <2>1. W = {AddType(d.args[1])}
    BY <1>7, TypeWorkIs
  <2>2. RemoveSuffix(n) = RemoveSuffix(Name(p, d.args[1]))
    BY <1>7, Stems
  <2>3. GivesType(p, AddType(d.args[1]), RemoveSuffix(n))
    BY <2>2, Parts DEF GivesType
  <2>4. d.kind \notin Kept
    BY <1>7 DEF Kept
  <2>. HIDE DEF W, n
  <2>5. \A set, e : Insert(set, e) \notin W
    BY <2>1, Parts
  <2>6. QED  BY <2>1, <2>3, <2>4, <2>5 DEF TypeIn, Closed
<1>8. CASE ~IsBuiltin(n) /\ d.kind = "map"
  <2>1. W = Composite(p, t, Front(n))
    BY <1>8, TypeWorkIs
  <2>2. RemoveSuffix(n) = Front(n)
    BY <1>8, Stems
  <2>3. Closed(p, W) /\ \E x \in W : GivesStruct(p, x, Front(n))
    BY <2>1, CompositeOK
  <2>4. d.kind \notin Kept
    BY <1>8 DEF Kept
  <2>. HIDE DEF W, n
  <2>5. QED  BY <1>4, <2>2, <2>3, <2>4
<1>9. CASE ~IsBuiltin(n) /\ d.kind \in {"pair", "tuple"}
  <2>1. W = Composite(p, t, n)
    BY <1>9, TypeWorkIs
  <2>2. RemoveSuffix(n) = n
    BY <1>9, Stems DEF Kept
  <2>3. Closed(p, W) /\ \E x \in W : GivesStruct(p, x, n)
    BY <2>1, CompositeOK
  <2>. HIDE DEF W, n
  <2>4. QED  BY <1>4, <2>2, <2>3
<1>10. CASE ~IsBuiltin(n) /\ d.kind \in {"template", "struct"}
  <2>1. PICK rname : TypeWork(p, t) = StructWork(p, d, rname) /\ rname = n
    <3>1. d.kind = "template" => TemplateName(p, t) = n
      BY DEF Expressible
    <3>2. d.kind = "struct" => <<d.name>> = n
      BY NameForms
    <3>3. QED  BY <1>10, <3>1, <3>2, TypeWorkIs
  <2>2. RemoveSuffix(n) = n
    BY <1>10, Stems DEF Kept
  <2>3. Closed(p, W) /\ \E x \in W : GivesStruct(p, x, n)
    BY <1>1, <2>1, StructWorkOK
  <2>. HIDE DEF W, n
  <2>4. QED  BY <1>4, <2>2, <2>3
<1>11. d.kind = "builtin" => IsBuiltin(n)
  BY TypeWorkIs
<1>12. QED  BY <1>1, <1>5, <1>6, <1>7, <1>8, <1>9, <1>10, <1>11 DEF Kinds

-----------------------------------------------------------------------------
(* The work of a declaration, and where entries come from *)

\* What the assumption says of a declaration.
LEMMA DeclTyped ==
    ASSUME NEW p \in Programs, NEW d \in Declared(p)
    PROVE  /\ d.kind \in {"method", "record", "table"}
           /\ d.fields \in Seq(Types) /\ d.base \in Seq(Types)
           /\ d.kind = "table" => Len(d.fields) = 2
<1>1. PICK i \in DOMAIN p.inputs : d \in ToSet(p.inputs[i])
  BY DEF Declared
<1>2. p.inputs \in Seq(Seq(DeclForm))
  BY ProgramsAssumption
<1>3. p.inputs[i] \in Seq(DeclForm)
  BY <1>2
<1>4. d \in DeclForm
  BY <1>1, <1>3 DEF ToSet
<1>5. d.kind = "table" => Len(d.fields) = 2
  BY <1>1, ProgramsAssumption
<1>6. QED  BY <1>4, <1>5 DEF DeclForm

\* FtlMethodMatcher, FtlRecordMatcher (fractal-cpp.cpp.in:51-87).
LEMMA DeclWorkIs ==
    ASSUME NEW p \in Programs, NEW d \in Declared(p)
    PROVE  LET W == ToSet(DeclWork(p, d))
               fields == {AddType(f) : f \in ToSet(d.fields)}
               struct == ToSet(StructWork(p, d, <<d.name>>)) IN
           /\ IsSeq(DeclWork(p, d))
           /\ d.kind = "table" => W = {Insert("tables", Table(p, d))} \cup fields
           /\ d.kind # "table" =>
                 \E V : /\ W = struct \cup V \cup {Insert("actions", Action(d))} \cup fields
                        /\ \A x \in V : x = Validate(ActionName(d))
<1>. DEFINE s == StructWork(p, d, <<d.name>>)
            a == Insert("actions", Action(d))
            v == Validate(ActionName(d))
            f == AddTypes(d.fields)
            fields == {AddType(u) : u \in ToSet(d.fields)}
<1>0. d.kind \in {"method", "record", "table"} /\ d.fields \in Seq(Types) /\ d.base \in Seq(Types)
  BY DeclTyped
<1>1. IsSeq(s)
  BY <1>0, StructWorkIs
<1>2. IsSeq(f) /\ ToSet(f) = fields
  BY <1>0, SetOfTypes
<1>3. /\ IsSeq(<<a>>) /\ ToSet(<<a>>) = {a}
      /\ IsSeq(<<v>>) /\ ToSet(<<v>>) = {v}
  BY SetOfOne
<1>4. CASE d.kind = "method"
  <2>1. DeclWork(p, d) = s \o <<a>> \o f
    BY <1>4 DEF DeclWork
  <2>. HIDE DEF s, a, f, fields
  <2>2. IsSeq(DeclWork(p, d)) /\ ToSet(DeclWork(p, d)) = ToSet(s) \cup {a} \cup fields
    BY <1>1, <1>2, <1>3, <2>1, TwoSeqs
  <2>3. ToSet(DeclWork(p, d)) = ToSet(s) \cup {} \cup {a} \cup fields
    BY <2>2
  <2>4. \E V : /\ ToSet(DeclWork(p, d)) = ToSet(s) \cup V \cup {a} \cup fields
               /\ \A x \in V : x = Validate(ActionName(d))
    <3>. DEFINE U == {}
    <3>1. /\ ToSet(DeclWork(p, d)) = ToSet(s) \cup U \cup {a} \cup fields
          /\ \A x \in U : x = Validate(ActionName(d))
      BY <2>3
    <3>. HIDE DEF U
    <3>2. QED  BY <3>1
  <2>5. d.kind # "table"
    BY <1>4
  <2>6. QED  BY <2>2, <2>4, <2>5 DEF s, a, fields
<1>5. CASE d.kind = "record"
  <2>. DEFINE va == <<v, a>>
  <2>1. DeclWork(p, d) = s \o va \o f
    BY <1>5 DEF DeclWork
  <2>2. va = <<v>> \o <<a>>
    <3>. HIDE DEF v, a
    <3>1. QED  OBVIOUS
  <2>. HIDE DEF s, v, a, f, fields, va
  <2>3. IsSeq(va) /\ ToSet(va) = {v} \cup {a}
    BY <1>3, <2>2, SetOfConcat
  <2>4. IsSeq(DeclWork(p, d)) /\ ToSet(DeclWork(p, d)) = ToSet(s) \cup ToSet(va) \cup fields
    BY <1>1, <1>2, <2>1, <2>3, TwoSeqs
  <2>5. ToSet(DeclWork(p, d)) = ToSet(s) \cup {v} \cup {a} \cup fields
    BY <2>3, <2>4
  <2>6. \A x \in {v} : x = Validate(ActionName(d))
    BY DEF v
  <2>7. \E V : /\ ToSet(DeclWork(p, d)) = ToSet(s) \cup V \cup {a} \cup fields
               /\ \A x \in V : x = Validate(ActionName(d))
    <3>. DEFINE U == {v}
    <3>1. /\ ToSet(DeclWork(p, d)) = ToSet(s) \cup U \cup {a} \cup fields
          /\ \A x \in U : x = Validate(ActionName(d))
      BY <2>5, <2>6
    <3>. HIDE DEF U
    <3>2. QED  BY <3>1
  <2>8. d.kind # "table"
    BY <1>5
  <2>9. QED  BY <2>4, <2>7, <2>8 DEF s, a, fields
<1>6. CASE d.kind = "table"
  <2>. DEFINE x == Insert("tables", Table(p, d))
  <2>1. DeclWork(p, d) = <<x>> \o f
    BY <1>6 DEF DeclWork
  <2>2. IsSeq(<<x>>) /\ ToSet(<<x>>) = {x}
    BY SetOfOne
  <2>. HIDE DEF x, f, fields
  <2>3. IsSeq(DeclWork(p, d)) /\ ToSet(DeclWork(p, d)) = {x} \cup fields
    BY <1>2, <2>1, <2>2, SetOfConcat
  <2>4. QED  BY <1>6, <2>3 DEF x, fields
<1>7. QED  BY <1>0, <1>4, <1>5, <1>6

\* Whose struct it is: a declaration's or a type's.
Origin(p, s) ==
    \/ \E d \in Declared(p) : s.name = <<d.name>> /\ s.fields = Names(p, d.fields)
    \/ \E t \in Types : s.name = <<Type(p, t).name>>
    \/ \E t \in Types :
          Type(p, t).kind \notin {"builtin", "seq", "optional"} /\ s.name = OwnName(p, t)

Sets == {"structs", "typedefs", "actions", "tables"}

EntryOK(p, set, e) ==
    /\ set \in Sets
    /\ set = "actions" => \E d \in Declared(p) : e = Action(d)
    /\ set = "structs" => Origin(p, e)

Item(p, x) ==
    \/ \E t \in Types : x = AddType(t) \/ x = AddRecord(t)
    \/ \E n : x = Validate(n)
    \/ \E set, e : x = Insert(set, e) /\ EntryOK(p, set, e)

\* The work of a struct belongs to the program if the struct does (abigen.hpp:145-182).
LEMMA StructWorkItems ==
    ASSUME NEW p \in Programs, NEW d, d.fields \in Seq(Types), d.base \in Seq(Types), NEW rname,
           \A parent : Origin(p, Struct(rname, parent, Names(p, d.fields)))
    PROVE  /\ \A x \in ToSet(StructWork(p, d, rname)) : Item(p, x)
           /\ \E s : /\ Insert("structs", s) \in ToSet(StructWork(p, d, rname))
                     /\ s.name = rname /\ s.fields = Names(p, d.fields)
<1>. DEFINE W == ToSet(StructWork(p, d, rname))
<1>1. PICK R, parent :
         /\ R \in SUBSET ToSet(d.base)
         /\ W = {AddRecord(b) : b \in R} \cup {AddType(f) : f \in ToSet(d.fields)}
                \cup {Insert("structs", Struct(rname, parent, Names(p, d.fields)))}
  BY StructWorkIs
<1>. DEFINE s == Struct(rname, parent, Names(p, d.fields))
<1>2. Origin(p, s) /\ s.name = rname /\ s.fields = Names(p, d.fields)
  <2>1. s.name = rname /\ s.fields = Names(p, d.fields)
    BY DEF Struct
  <2>2. QED  BY <2>1
<1>3. W = {AddRecord(b) : b \in R} \cup {AddType(f) : f \in ToSet(d.fields)}
          \cup {Insert("structs", s)}
  BY <1>1
<1>4. R \subseteq Types /\ ToSet(d.fields) \subseteq Types
  BY <1>1, ArgsIn
<1>. HIDE DEF W, s
<1>5. Item(p, Insert("structs", s))
  <2>1. EntryOK(p, "structs", s)
    BY <1>2 DEF EntryOK, Sets
  <2>2. QED  BY <2>1 DEF Item
<1>6. (\A b \in R : Item(p, AddRecord(b))) /\ \A f \in ToSet(d.fields) : Item(p, AddType(f))
  BY <1>4 DEF Item
<1>7. \A x \in W : Item(p, x)
  BY <1>3, <1>5, <1>6
<1>8. Insert("structs", s) \in W
  BY <1>3
<1>9. QED  BY <1>2, <1>7, <1>8 DEF W

\* So does that of a map, pair or tuple (abigen.hpp:98-143).
LEMMA CompositeItems ==
    ASSUME NEW p \in Programs, NEW t \in Types, NEW name,
           Origin(p, Struct(name, <<>>, Names(p, Type(p, t).args)))
    PROVE  \A x \in Composite(p, t, name) : Item(p, x)
<1>. DEFINE s == Struct(name, <<>>, Names(p, Type(p, t).args))
<1>1. Composite(p, t, name) = {AddType(a) : a \in ToSet(Type(p, t).args)} \cup {Insert("structs", s)}
  BY DEF Composite
<1>2. Origin(p, s)
  OBVIOUS
<1>3. ToSet(Type(p, t).args) \subseteq Types
  BY TypeTyped, ArgsIn
<1>. HIDE DEF s
<1>4. Item(p, Insert("structs", s))
  <2>1. EntryOK(p, "structs", s)
    BY <1>2 DEF EntryOK, Sets
  <2>2. QED  BY <2>1 DEF Item
<1>5. \A a \in ToSet(Type(p, t).args) : Item(p, AddType(a))
  BY <1>3 DEF Item
<1>6. QED  BY <1>1, <1>4, <1>5

\* All that add_type leaves to do is of the program (abigen.hpp:198-218).
LEMMA TypeWorkItems ==
    ASSUME NEW p \in Programs, NEW t \in Types
    PROVE  \A x \in ToSet(TypeWork(p, t)) : Item(p, x)
<1>. DEFINE d == Type(p, t)
            W == ToSet(TypeWork(p, t))
<1>0. d.kind \in Kinds /\ d.args \in Seq(Types) /\ d.fields \in Seq(Types) /\ d.base \in Seq(Types)
  BY TypeTyped
<1>1. \A name, base, fields :
         LET s == Struct(name, base, fields) IN
         /\ d.kind \notin {"builtin", "seq", "optional"} /\ name = OwnName(p, t) => Origin(p, s)
         /\ name = <<d.name>> => Origin(p, s)
  BY DEF Origin, Struct
<1>2. /\ d.kind = "map" => OwnName(p, t) = Front(Name(p, t))
      /\ d.kind \in {"pair", "tuple"} => OwnName(p, t) = Name(p, t)
      /\ d.kind = "template" => OwnName(p, t) = TemplateName(p, t)
  BY DEF OwnName
<1>3. CASE IsBuiltin(Name(p, t))
  BY <1>3, TypeWorkIs
<1>4. CASE ~IsBuiltin(Name(p, t)) /\ d.kind = "alias"
  <2>1. W = Alias(p, t)
    BY <1>4, TypeWorkIs
  <2>. DEFINE td == [name |-> Name(p, t), type |-> Name(p, d.args[1])]
  <2>2. \A x \in W : x = AddType(d.args[1]) \/ x = Insert("typedefs", td)
    BY <2>1 DEF Alias
  <2>3. d.args[1] \in Types
    BY <1>4, TypeTyped, ArgsIn
  <2>. HIDE DEF W, td
  <2>4. EntryOK(p, "typedefs", td)
    BY DEF EntryOK, Sets
  <2>5. QED  BY <2>2, <2>3, <2>4 DEF Item, W
<1>5. CASE ~IsBuiltin(Name(p, t)) /\ d.kind \in {"seq", "optional"}
  <2>1. W = {AddType(d.args[1])}
    BY <1>5, TypeWorkIs
  <2>2. d.args[1] \in Types
    BY <1>5, TypeTyped, ArgsIn
  <2>3. QED  BY <2>1, <2>2 DEF Item
<1>6. CASE ~IsBuiltin(Name(p, t)) /\ d.kind \in {"map", "pair", "tuple"}
  <2>1. PICK name : W = Composite(p, t, name) /\ name = OwnName(p, t)
    BY <1>2, <1>6, TypeWorkIs
  <2>2. Origin(p, Struct(name, <<>>, Names(p, d.args)))
    BY <1>1, <1>6, <2>1
  <2>3. QED  BY <2>1, <2>2, CompositeItems
<1>7. CASE ~IsBuiltin(Name(p, t)) /\ d.kind \in {"template", "struct"}
  <2>1. PICK rname : /\ TypeWork(p, t) = StructWork(p, d, rname)
                     /\ rname = <<d.name>> \/ (d.kind = "template" /\ rname = OwnName(p, t))
    BY <1>2, <1>7, TypeWorkIs
  <2>2. \A parent : Origin(p, Struct(rname, parent, Names(p, d.fields)))
    BY <1>1, <2>1
  <2>3. QED  BY <1>0, <2>1, <2>2, StructWorkItems
<1>8. d.kind = "builtin" => IsBuiltin(Name(p, t))
  BY TypeWorkIs
<1>9. QED  BY <1>0, <1>3, <1>4, <1>5, <1>6, <1>7, <1>8 DEF Kinds

\* So is all that a declaration leaves, with its action and the struct of it.
LEMMA DeclWorkItems ==
    ASSUME NEW p \in Programs, NEW d \in Declared(p)
    PROVE  /\ \A x \in ToSet(DeclWork(p, d)) : Item(p, x)
           /\ d.kind # "table" =>
                 /\ Insert("actions", Action(d)) \in ToSet(DeclWork(p, d))
                 /\ \E s : /\ Insert("structs", s) \in ToSet(DeclWork(p, d))
                           /\ s.name = <<d.name>> /\ s.fields = Names(p, d.fields)
<1>. DEFINE W == ToSet(DeclWork(p, d))
            S == ToSet(StructWork(p, d, <<d.name>>))
            F == {AddType(f) : f \in ToSet(d.fields)}
<1>0. d.fields \in Seq(Types) /\ d.base \in Seq(Types)
  BY DeclTyped
<1>1. \A x \in F : Item(p, x)
  BY <1>0, ArgsIn DEF Item
<1>2. CASE d.kind = "table"
  <2>1. W = {Insert("tables", Table(p, d))} \cup F
    BY <1>2, DeclWorkIs
  <2>2. Item(p, Insert("tables", Table(p, d)))
    BY DEF Item, EntryOK, Sets
  <2>3. QED  BY <1>1, <1>2, <2>1, <2>2
<1>3. CASE d.kind # "table"
  <2>1. PICK V : /\ W = S \cup V \cup {Insert("actions", Action(d))} \cup F
                 /\ \A x \in V : x = Validate(ActionName(d))
    BY <1>3, DeclWorkIs
  <2>2. \A parent : Origin(p, Struct(<<d.name>>, parent, Names(p, d.fields)))
    BY DEF Origin, Struct
  <2>3. /\ \A x \in S : Item(p, x)
        /\ \E s : /\ Insert("structs", s) \in S
                  /\ s.name = <<d.name>> /\ s.fields = Names(p, d.fields)
    BY <1>0, <2>2, StructWorkItems
  <2>4. Item(p, Insert("actions", Action(d)))
    <3>1. EntryOK(p, "actions", Action(d))
      BY DEF EntryOK, Sets
    <3>2. QED  BY <3>1 DEF Item
  <2>5. \A x \in V : Item(p, x)
    BY <2>1 DEF Item
  <2>. HIDE DEF W, S, F
  <2>6. QED  BY <1>1, <1>3, <2>1, <2>3, <2>4, <2>5 DEF W
<1>4. QED  BY <1>2, <1>3

\* The key and value of a table are types that add_type names (abigen.hpp:184-196).
LEMMA TableOK ==
    ASSUME NEW p \in Programs, Expressible(p), NEW d \in Declared(p), d.kind = "table",
           NEW W, \A f \in ToSet(d.fields) : AddType(f) \in W
    PROVE  Known(p, W, "tables", Table(p, d))
<1>1. d.fields \in Seq(Types) /\ Len(d.fields) = 2
  BY DeclTyped
<1>. DEFINE key == d.fields[1]
            value == d.fields[2]
<1>2. ToSet(d.fields) = {key, value} /\ key \in Types /\ value \in Types
  BY <1>1, ArgsIn
<1>3. Table(p, d).key = Name(p, key) /\ Table(p, d).value = Name(p, value)
  BY DEF Table
<1>. HIDE DEF key, value
<1>4. \A t \in {key, value} : TypeIn(p, W, RemoveSuffix(Name(p, t)))
  <2>. TAKE t \in {key, value}
  <2>1. AddType(t) \in W
    BY <1>2
  <2>2. GivesType(p, AddType(t), RemoveSuffix(Name(p, t)))
    BY Parts DEF GivesType
  <2>3. QED  BY <2>1, <2>2 DEF TypeIn
<1>5. ASSUME RemoveSuffix(Name(p, key)) = Name(p, key), ~IsAlias(p, Name(p, key))
      PROVE  /\ Name(p, key)[Len(Name(p, key))] \notin Marks
             /\ Type(p, key).kind # "alias"
  <2>. DEFINE n == Name(p, key)
  <2>1. n \in Seq(Words(p)) \ {<<>>} /\ RemoveSuffix(n) = n
    BY <1>2, <1>5, NameTyped
  <2>. HIDE DEF n
  <2>2. n[Len(n)] \notin Marks
    BY <2>1, SuffixLess
  <2>3. QED  BY <1>2, <1>5, <2>2 DEF IsAlias, n
<1>6. ASSUME RemoveSuffix(Name(p, key)) = Name(p, key), ~IsAlias(p, Name(p, key))
      PROVE  StructIn(p, W, Name(p, key))
  <2>. DEFINE k == Type(p, key).kind
              n == Name(p, key)
  <2>1. \A s : s \in Seq(Words(p)) => /\ Append(s, "[]")[Len(Append(s, "[]"))] = "[]"
                                      /\ Append(s, "?")[Len(Append(s, "?"))] = "?"
    OBVIOUS
  <2>2. "[]" \in Marks /\ "?" \in Marks
    BY DEF Marks
  <2>3. CASE k \in Kept
    <3>1. GivesStruct(p, AddType(key), n)
      BY <2>3, Parts DEF GivesStruct
    <3>2. QED  BY <1>2, <3>1 DEF StructIn
  <2>4. CASE k = "builtin"
    <3>1. n = <<Type(p, key).name>> /\ Type(p, key).name \in Builtins
      BY <1>2, <2>4, NameForms, TypeTyped
    <3>. HIDE DEF n
    <3>2. IsBuiltin(n)
      BY <3>1 DEF IsBuiltin
    <3>3. QED  BY <3>2 DEF StructIn, n
  <2>5. CASE k \in {"seq", "optional"}
    <3>. DEFINE a == Name(p, Type(p, key).args[1])
    <3>1. a \in Seq(Words(p))
      BY <1>2, <2>5, TypeTyped, ArgsIn, NameTyped
    <3>2. n = <<"bytes">> \/ n = Append(a, "[]") \/ n = Append(a, "?")
      BY <1>2, <2>5, NameForms
    <3>3. n[Len(n)] \notin Marks
      BY <1>5, <1>6
    <3>. HIDE DEF n, a
    <3>4. n = <<"bytes">>
      BY <2>1, <2>2, <3>1, <3>2, <3>3
    <3>5. IsBuiltin(n)
      BY <3>4, ProgramsAssumption DEF IsBuiltin
    <3>6. QED  BY <3>5 DEF StructIn, n
  <2>6. CASE k = "map"
    <3>. DEFINE b == Both(p, key)
    <3>1. n = Append(b, "[]")
      BY <1>2, <2>6, NameForms
    <3>2. b \in Seq(Words(p))
      <4>1. /\ Name(p, Type(p, key).args[1]) \in Seq(Words(p)) \ {<<>>}
            /\ Name(p, Type(p, key).args[2]) \in Seq(Words(p)) \ {<<>>}
        BY <1>2, <2>6, TypeTyped, ArgsIn, NameTyped
      <4>2. "pair" \in Words(p)
        BY DEF Words
      <4>3. QED  BY <4>1, <4>2, PairWords DEF Both
    <3>3. n[Len(n)] \notin Marks
      BY <1>5, <1>6
    <3>. HIDE DEF n, b
    <3>4. QED  BY <2>1, <2>2, <3>1, <3>2, <3>3
  <2>7. k \in Kinds /\ k # "alias"
    BY <1>2, <1>5, <1>6, TypeTyped
  <2>8. QED  BY <2>3, <2>4, <2>5, <2>6, <2>7 DEF Kinds, Kept
<1>7. QED  BY <1>3, <1>4, <1>6 DEF Known

\* What a declaration's entries speak of is called with them.
LEMMA DeclWorkOK ==
    ASSUME NEW p \in Programs, Expressible(p), NEW d \in Declared(p)
    PROVE  Closed(p, ToSet(DeclWork(p, d)))
<1>. DEFINE W == ToSet(DeclWork(p, d))
            S == ToSet(StructWork(p, d, <<d.name>>))
            F == {AddType(f) : f \in ToSet(d.fields)}
<1>0. d.fields \in Seq(Types) /\ d.base \in Seq(Types)
  BY DeclTyped
<1>1. \A set, e : Insert(set, e) \notin F
  BY Parts
<1>2. CASE d.kind = "table"
  <2>1. W = {Insert("tables", Table(p, d))} \cup F
    BY <1>2, DeclWorkIs
  <2>2. \A f \in ToSet(d.fields) : AddType(f) \in W
    BY <2>1
  <2>. HIDE DEF W
  <2>3. Known(p, W, "tables", Table(p, d))
    BY <1>2, <2>2, TableOK
  <2>. HIDE DEF F
  <2>4. \A set, e : Insert(set, e) \in W => set = "tables" /\ e = Table(p, d)
    BY <1>1, <2>1, Parts
  <2>5. Closed(p, W)
    BY <2>3, <2>4 DEF Closed
  <2>6. QED  BY <2>5 DEF W
<1>3. CASE d.kind # "table"
  <2>1. PICK V : /\ W = S \cup V \cup {Insert("actions", Action(d))} \cup F
                 /\ \A x \in V : x = Validate(ActionName(d))
    BY <1>3, DeclWorkIs
  <2>2. \A b \in ToSet(d.base) : Type(p, b).kind = "struct"
    BY DEF Expressible
  <2>3. Closed(p, S) /\ \E x \in S : GivesStruct(p, x, <<d.name>>)
    BY <1>0, <2>2, StructWorkOK
  <2>4. Action(d).type = <<d.name>>
    BY DEF Action
  <2>. HIDE DEF W, S, F
  <2>5. Known(p, W, "actions", Action(d))
    BY <2>1, <2>3, <2>4 DEF Known, StructIn
  <2>6. \A set, e : Insert(set, e) \in W => Insert(set, e) \in S \/ (set = "actions" /\ e = Action(d))
    <3>1. \A set, e : Insert(set, e) \notin V
      BY <2>1, Parts
    <3>2. QED  BY <1>1, <2>1, <3>1, Parts
  <2>7. \A x \in S : x \in W
    BY <2>1
  <2>8. Closed(p, W)
    BY <2>3, <2>5, <2>6, <2>7, Replace
  <2>9. QED  BY <2>8 DEF W
<1>4. QED  BY <1>2, <1>3

-----------------------------------------------------------------------------
(* What a file holds *)

Entries(a) == UNION {{Insert(set, e) : e \in a[set]} : set \in Sets}

\* The entries of the sets, as insertions done.
LEMMA EntryIn ==
    ASSUME NEW a
    PROVE  /\ \A set, e : Insert(set, e) \in Entries(a) <=> set \in Sets /\ e \in a[set]
           /\ \A x \in Entries(a) : \E set \in Sets : \E e \in a[set] : x = Insert(set, e)
<1>1. \A x : x \in Entries(a) <=> \E set \in Sets : \E e \in a[set] : x = Insert(set, e)
  BY DEF Entries
<1>2. ASSUME NEW set, NEW e PROVE Insert(set, e) \in Entries(a) <=> set \in Sets /\ e \in a[set]
  <2>1. ASSUME set \in Sets, e \in a[set] PROVE Insert(set, e) \in Entries(a)
    BY <1>1, <2>1
  <2>2. ASSUME Insert(set, e) \in Entries(a) PROVE set \in Sets /\ e \in a[set]
    <3>1. PICK s \in Sets : \E f \in a[s] : Insert(set, e) = Insert(s, f)
      BY <1>1, <2>2
    <3>2. PICK f \in a[s] : Insert(set, e) = Insert(s, f)
      BY <3>1
    <3>3. set = s /\ e = f
      BY <3>2, Parts
    <3>4. QED  BY <3>3
  <2>3. QED  BY <2>1, <2>2
<1>3. QED  BY <1>1, <1>2

\* A set for each array of the file.
IsAbi(a) == DOMAIN a = Sets /\ a = [set \in Sets |-> a[set]]

\* to_json keeps actions and tables and filters structs and typedefs (abigen.hpp:328-346).
LEMMA JsonIs ==
    ASSUME NEW a, IsAbi(a)
    PROVE  /\ Json(a).structs = {s \in a.structs : ValidStruct(a, s)}
           /\ Json(a).typedefs = {td \in a.typedefs : ValidTypedef(a, td)}
           /\ Json(a).actions = a.actions
           /\ Json(a).tables = a.tables
<1>. DEFINE S == {s \in a.structs : ValidStruct(a, s)}
            T == {td \in a.typedefs : ValidTypedef(a, td)}
<1>1. Json(a) = [a EXCEPT !.structs = S, !.typedefs = T]
  BY DEF Json
<1>. HIDE DEF S, T
<1>2. Json(a) = [[a EXCEPT !.structs = S] EXCEPT !.typedefs = T]
  BY <1>1 DEF IsAbi
<1>. DEFINE b == [a EXCEPT !.structs = S]
<1>3. /\ DOMAIN b = Sets /\ b.structs = S /\ b.actions = a.actions /\ b.tables = a.tables
  BY DEF Sets, IsAbi
<1>. HIDE DEF b
<1>4. /\ Json(a).typedefs = T /\ Json(a).structs = b.structs
      /\ Json(a).actions = b.actions /\ Json(a).tables = b.tables
  BY <1>2, <1>3 DEF b, Sets
<1>5. QED  BY <1>3, <1>4 DEF S, T

\* What is in the sets of a closed abi, and nothing else, gives the names it knows of.
LEMMA Holds ==
    ASSUME NEW p, NEW a, Closed(p, Entries(a))
    PROVE  /\ \A s \in a.structs : Known(p, Entries(a), "structs", s)
           /\ \A td \in a.typedefs : Known(p, Entries(a), "typedefs", td)
           /\ \A x \in a.actions : Known(p, Entries(a), "actions", x)
           /\ \A x \in a.tables : Known(p, Entries(a), "tables", x)
           /\ \A n : StructIn(p, Entries(a), n) => IsBuiltin(n) \/ \E s \in a.structs : s.name = n
           /\ \A n : TypeIn(p, Entries(a), n) =>
                 \/ IsBuiltin(n) \/ (\E s \in a.structs : s.name = n)
                 \/ \E td \in a.typedefs : td.name = n
<1>. DEFINE W == Entries(a)
<1>1. /\ \A s \in a.structs : Known(p, W, "structs", s)
      /\ \A td \in a.typedefs : Known(p, W, "typedefs", td)
      /\ \A x \in a.actions : Known(p, W, "actions", x)
      /\ \A x \in a.tables : Known(p, W, "tables", x)
  BY EntryIn DEF Closed, Sets
<1>2. ASSUME NEW n, StructIn(p, W, n) PROVE IsBuiltin(n) \/ \E s \in a.structs : s.name = n
  <2>1. ASSUME ~IsBuiltin(n) PROVE \E s \in a.structs : s.name = n
    <3>1. PICK x \in W : GivesStruct(p, x, n)
      BY <1>2, <2>1 DEF StructIn
    <3>2. PICK set \in Sets : \E e \in a[set] : x = Insert(set, e)
      BY EntryIn
    <3>3. PICK e \in a[set] : x = Insert(set, e)
      BY <3>2
    <3>4. set = "structs" /\ e.name = n
      BY <3>1, <3>3, Parts DEF GivesStruct
    <3>5. QED  BY <3>4
  <2>2. QED  BY <2>1
<1>3. ASSUME NEW n, TypeIn(p, W, n)
      PROVE  IsBuiltin(n) \/ (\E s \in a.structs : s.name = n) \/ \E td \in a.typedefs : td.name = n
  <2>1. ASSUME ~IsBuiltin(n)
        PROVE  (\E s \in a.structs : s.name = n) \/ \E td \in a.typedefs : td.name = n
    <3>1. PICK x \in W : GivesType(p, x, n)
      BY <1>3, <2>1 DEF TypeIn
    <3>2. PICK set \in Sets : \E e \in a[set] : x = Insert(set, e)
      BY EntryIn
    <3>3. PICK e \in a[set] : x = Insert(set, e)
      BY <3>2
    <3>4. (set = "structs" \/ set = "typedefs") /\ e.name = n
      BY <3>1, <3>3, Parts DEF GivesType, GivesStruct
    <3>5. QED  BY <3>4
  <2>2. QED  BY <2>1
<1>4. QED  BY <1>1, <1>2, <1>3

\* The names that a file, pruned or not, speaks of.
LEMMA SpokenOf ==
    ASSUME NEW j, NEW n \in Spoken(j)
    PROVE  \/ \E s \in j.structs : \E f \in ToSet(s.fields) : n = RemoveSuffix(f)
           \/ \E s \in j.structs : n = s.base /\ n # <<>>
           \/ \E td \in j.typedefs : n = RemoveSuffix(td.type)
           \/ \E x \in j.actions : n = x.type
<1>. DEFINE F == UNION {{RemoveSuffix(f) : f \in ToSet(s.fields)} : s \in j.structs}
            B == {s.base : s \in j.structs} \ {<<>>}
            Y == {RemoveSuffix(td.type) : td \in j.typedefs}
            X == {x.type : x \in j.actions}
<1>1. n \in F \cup B \cup Y \cup X
  BY DEF Spoken
<1>2. /\ n \in F => \E s \in j.structs : \E f \in ToSet(s.fields) : n = RemoveSuffix(f)
      /\ n \in B => \E s \in j.structs : n = s.base /\ n # <<>>
      /\ n \in Y => \E td \in j.typedefs : n = RemoveSuffix(td.type)
      /\ n \in X => \E x \in j.actions : n = x.type
  OBVIOUS
<1>. HIDE DEF F, B, Y, X
<1>3. QED  BY <1>1, <1>2

\* The traversal leaves out nothing that is spoken of (abigen.hpp:37-218).
LEMMA AbiCloses ==
    ASSUME NEW p, NEW a, Closed(p, Entries(a))
    PROVE  Complete(a, Spoken(a) \cup Stored(a))
<1>. DEFINE W == Entries(a)
            D(n) == IsBuiltin(n) \/ n \in Described(a)
<1>1. \A n : StructIn(p, W, n) \/ TypeIn(p, W, n) => D(n)
  BY Holds DEF Described
<1>. HIDE DEF D
<1>2. ASSUME NEW n \in Spoken(a) PROVE D(n)
  <2>1. /\ \A s \in a.structs : Known(p, W, "structs", s)
        /\ \A td \in a.typedefs : Known(p, W, "typedefs", td)
        /\ \A x \in a.actions : Known(p, W, "actions", x)
    BY Holds
  <2>. HIDE DEF W
  <2>2. CASE \E s \in a.structs : \E f \in ToSet(s.fields) : n = RemoveSuffix(f)
    BY <1>1, <2>1, <2>2 DEF Known
  <2>3. CASE \E s \in a.structs : n = s.base /\ n # <<>>
    BY <1>1, <2>1, <2>3 DEF Known
  <2>4. CASE \E td \in a.typedefs : n = RemoveSuffix(td.type)
    BY <1>1, <2>1, <2>4 DEF Known
  <2>5. CASE \E x \in a.actions : n = x.type
    BY <1>1, <2>1, <2>5 DEF Known
  <2>6. QED  BY <2>2, <2>3, <2>4, <2>5, SpokenOf
<1>3. ASSUME NEW n \in Stored(a) PROVE D(n)
  <2>1. PICK x \in a.tables : n = RemoveSuffix(x.key) \/ n = RemoveSuffix(x.value)
    BY DEF Stored
  <2>2. Known(p, W, "tables", x)
    BY Holds
  <2>. HIDE DEF W
  <2>3. QED  BY <1>1, <2>1, <2>2 DEF Known
<1>4. QED  BY <1>2, <1>3 DEF Complete, D

\* to_json leaves out nothing that is spoken of and that it looks for
\* (abigen.hpp:267-346).
LEMMA JsonCloses ==
    ASSUME NEW p, NEW a, IsAbi(a), Closed(p, Entries(a))
    PROVE  Complete(Json(a), Spoken(Json(a)) \cup LookedFor(p, Json(a)))
<1>. DEFINE W == Entries(a)
            D(n) == IsBuiltin(n) \/ n \in Described(Json(a))
<1>1. /\ \A s \in a.structs : Known(p, W, "structs", s)
      /\ \A td \in a.typedefs : Known(p, W, "typedefs", td)
      /\ \A x \in a.actions : Known(p, W, "actions", x)
      /\ \A x \in a.tables : Known(p, W, "tables", x)
  BY Holds
<1>2. \A n : StructIn(p, W, n) => IsBuiltin(n) \/ \E s \in a.structs : s.name = n
  BY Holds
<1>3. \A n : TypeIn(p, W, n) =>
         \/ IsBuiltin(n) \/ (\E s \in a.structs : s.name = n)
         \/ \E td \in a.typedefs : td.name = n
  BY Holds
<1>4. /\ \A s \in a.structs : ValidStruct(a, s) => D(s.name)
      /\ \A td \in a.typedefs : ValidTypedef(a, td) => D(td.name)
  BY JsonIs DEF Described
<1>. HIDE DEF W, D
<1>5. ASSUME NEW n, StructIn(p, W, n),
             \A s \in a.structs : s.name = n /\ ~IsBuiltin(n) => ValidStruct(a, s)
      PROVE  D(n)
  BY <1>2, <1>4, <1>5 DEF D
<1>6. ASSUME NEW n, TypeIn(p, W, n),
             \A s \in a.structs : s.name = n /\ ~IsBuiltin(n) => ValidStruct(a, s),
             \A td \in a.typedefs : td.name = n => ValidTypedef(a, td)
      PROVE  D(n)
  BY <1>3, <1>4, <1>6 DEF D
<1>7. ASSUME NEW s \in a.structs, ValidStruct(a, s), NEW f \in ToSet(s.fields)
      PROVE  D(RemoveSuffix(f))
  <2>. DEFINE n == RemoveSuffix(f)
  <2>1. PICK i \in DOMAIN s.fields : f = s.fields[i]
    BY DEF ToSet
  <2>2. TypeIn(p, W, n)
    BY <1>1 DEF Known
  <2>3. \A z \in a.structs : z.name = n /\ ~IsBuiltin(n) => ValidStruct(a, z)
    BY <2>1 DEF ValidStruct
  <2>4. \A td \in a.typedefs : td.name = n => ValidTypedef(a, td)
    BY <1>7, <2>1 DEF ValidTypedef
  <2>. HIDE DEF n
  <2>5. D(n)
    BY <1>6, <2>2, <2>3, <2>4
  <2>6. QED  BY <2>5 DEF n
<1>8. ASSUME NEW s \in a.structs, s.base # <<>> PROVE D(s.base)
  <2>1. StructIn(p, W, s.base)
    BY <1>1, <1>8 DEF Known
  <2>2. \A z \in a.structs : z.name = s.base /\ ~IsBuiltin(s.base) => ValidStruct(a, z)
    BY DEF ValidStruct
  <2>3. QED  BY <1>5, <2>1, <2>2
<1>9. ASSUME NEW td \in a.typedefs PROVE D(RemoveSuffix(td.type))
  <2>. DEFINE n == RemoveSuffix(td.type)
  <2>1. TypeIn(p, W, n)
    BY <1>1 DEF Known
  <2>2. \A z \in a.structs : z.name = n /\ ~IsBuiltin(n) => ValidStruct(a, z)
    BY DEF ValidStruct
  <2>3. \A x \in a.typedefs : x.name = n => ValidTypedef(a, x)
    BY DEF ValidTypedef
  <2>. HIDE DEF n
  <2>4. D(n)
    BY <1>6, <2>1, <2>2, <2>3
  <2>5. QED  BY <2>4 DEF n
<1>10. ASSUME NEW x \in a.tables
       PROVE  /\ RemoveSuffix(x.value) = x.value => D(x.value)
              /\ RemoveSuffix(x.key) = x.key /\ ~IsAlias(p, x.key) => D(x.key)
  <2>1. /\ TypeIn(p, W, RemoveSuffix(x.value))
        /\ RemoveSuffix(x.key) = x.key /\ ~IsAlias(p, x.key) => StructIn(p, W, x.key)
    BY <1>1 DEF Known
  <2>2. \A n \in {x.key, x.value} :
           \A z \in a.structs : z.name = n /\ ~IsBuiltin(n) => ValidStruct(a, z)
    BY DEF ValidStruct
  <2>3. \A td \in a.typedefs : td.name = x.value => ValidTypedef(a, td)
    BY DEF ValidTypedef
  <2>4. ASSUME RemoveSuffix(x.key) = x.key, ~IsAlias(p, x.key) PROVE D(x.key)
    BY <1>5, <2>1, <2>2, <2>4
  <2>5. ASSUME RemoveSuffix(x.value) = x.value PROVE D(x.value)
    <3>1. TypeIn(p, W, x.value)
      BY <2>1, <2>5
    <3>2. QED  BY <1>6, <2>2, <2>3, <3>1
  <2>6. QED  BY <2>4, <2>5
<1>11. ASSUME NEW x \in a.actions PROVE D(x.type)
  <2>1. StructIn(p, W, x.type)
    BY <1>1 DEF Known
  <2>2. \A z \in a.structs : z.name = x.type /\ ~IsBuiltin(x.type) => ValidStruct(a, z)
    BY DEF ValidStruct
  <2>3. QED  BY <1>5, <2>1, <2>2
<1>12. ASSUME NEW n \in Spoken(Json(a)) \cup LookedFor(p, Json(a)) PROVE D(n)
  <2>. DEFINE j == Json(a)
  <2>1. n \in Spoken(j) \/ n \in LookedFor(p, j)
    BY <1>12
  <2>2. /\ j.structs = {s \in a.structs : ValidStruct(a, s)}
        /\ j.typedefs = {td \in a.typedefs : ValidTypedef(a, td)}
        /\ j.actions = a.actions /\ j.tables = a.tables
    BY JsonIs
  <2>. HIDE DEF j
  <2>3. CASE \E s \in j.structs : \E f \in ToSet(s.fields) : n = RemoveSuffix(f)
    BY <1>7, <2>2, <2>3
  <2>4. CASE \E s \in j.structs : n = s.base /\ n # <<>>
    BY <1>8, <2>2, <2>4
  <2>5. CASE \E td \in j.typedefs : n = RemoveSuffix(td.type)
    BY <1>9, <2>2, <2>5
  <2>6. CASE n \in LookedFor(p, j)
    <3>1. PICK x \in j.tables :
             \/ n = x.value /\ RemoveSuffix(n) = n
             \/ n = x.key /\ RemoveSuffix(n) = n /\ ~IsAlias(p, n)
      BY <2>6 DEF LookedFor
    <3>2. QED  BY <1>10, <2>2, <3>1
  <2>7. CASE \E x \in j.actions : n = x.type
    BY <1>11, <2>2, <2>7
  <2>8. QED  BY <2>1, <2>3, <2>4, <2>5, <2>6, <2>7, SpokenOf
<1>13. QED  BY <1>12 DEF Complete, D

\* An action and the struct of its parameters.
Provided(p, W, d) ==
    /\ Insert("actions", Action(d)) \in W
    /\ \E s : Insert("structs", s) \in W /\ s.name = <<d.name>> /\ s.fields = Names(p, d.fields)

Describes(p, json, D) ==
    \A d \in D : d.kind # "table" =>
        /\ Action(d) \in json.actions
        /\ \E s \in json.structs : s.name = <<d.name>> /\ s.fields = Names(p, d.fields)

\* The struct of an action is not left out.
LEMMA JsonDescribes ==
    ASSUME NEW p, NEW a, IsAbi(a),
           NEW d, Provided(p, Entries(a), d), ~IsBuiltin(<<d.name>>)
    PROVE  /\ Action(d) \in Json(a).actions
           /\ \E s \in Json(a).structs : s.name = <<d.name>> /\ s.fields = Names(p, d.fields)
<1>1. Action(d) \in a.actions
  BY EntryIn DEF Provided
<1>2. PICK s : /\ Insert("structs", s) \in Entries(a)
               /\ s.name = <<d.name>> /\ s.fields = Names(p, d.fields)
  BY DEF Provided
<1>3. s \in a.structs
  BY <1>2, EntryIn
<1>4. Action(d).type = s.name
  BY <1>2 DEF Action
<1>5. ~IsBuiltin(s.name)
  BY <1>2
<1>6. ValidStruct(a, s)
  BY <1>1, <1>4, <1>5 DEF ValidStruct
<1>7. QED  BY <1>1, <1>2, <1>3, <1>6, JsonIs

\* Where names do not clash, an insertion that finds its name taken finds the
\* same action, or a struct with the same fields.
LEMMA StillProvided ==
    ASSUME NEW p, NoClash(p), NEW d \in Declared(p), NEW W, Provided(p, W, d),
           \A x \in W : Item(p, x), NEW V,
           \A set, e : Insert(set, e) \in W =>
               \E x : Insert(set, x) \in V /\ Insert(set, x) \in W /\ x.name = e.name
    PROVE  Provided(p, V, d)
<1>0. \A set, e : Insert(set, e) \in W => EntryOK(p, set, e)
  <2>1. SUFFICES ASSUME NEW set, NEW e, Insert(set, e) \in W PROVE EntryOK(p, set, e)
    OBVIOUS
  <2>2. PICK s, f : Insert(set, e) = Insert(s, f) /\ EntryOK(p, s, f)
    <3>1. Item(p, Insert(set, e))
      BY <2>1
    <3>2. \A t : Insert(set, e) # AddType(t) /\ Insert(set, e) # AddRecord(t) /\ Insert(set, e) # Validate(t)
      BY Parts
    <3>3. QED  BY <3>1, <3>2 DEF Item
  <2>3. set = s /\ e = f
    BY <2>2, Parts
  <2>4. QED  BY <2>2, <2>3
<1>1. Insert("actions", Action(d)) \in V
  <2>1. PICK x : Insert("actions", x) \in V /\ Insert("actions", x) \in W /\ x.name = Action(d).name
    BY DEF Provided
  <2>2. PICK e \in Declared(p) : x = Action(e)
    BY <1>0, <2>1 DEF EntryOK
  <2>3. e = d
    BY <2>1, <2>2 DEF NoClash
  <2>4. QED  BY <2>1, <2>2, <2>3
<1>2. PICK s : Insert("structs", s) \in W /\ s.name = <<d.name>> /\ s.fields = Names(p, d.fields)
  BY DEF Provided
<1>3. PICK x : Insert("structs", x) \in V /\ Insert("structs", x) \in W /\ x.name = s.name
  BY <1>2
<1>4. Origin(p, x)
  BY <1>0, <1>3 DEF EntryOK
<1>5. x.name = <<d.name>>
  BY <1>2, <1>3
<1>6. \A n : <<d.name>> = <<n>> => d.name = n
  OBVIOUS
<1>7. ~\E t \in Types : x.name = <<Type(p, t).name>>
  BY <1>5, <1>6 DEF NoClash
<1>8. ~\E t \in Types :
          Type(p, t).kind \notin {"builtin", "seq", "optional"} /\ x.name = OwnName(p, t)
  BY <1>5 DEF NoClash
<1>9. PICK e \in Declared(p) : x.name = <<e.name>> /\ x.fields = Names(p, e.fields)
  BY <1>4, <1>7, <1>8 DEF Origin
<1>10. e = d
  BY <1>5, <1>6, <1>9 DEF NoClash
<1>11. QED  BY <1>1, <1>3, <1>5, <1>9, <1>10 DEF Provided

-----------------------------------------------------------------------------
(* What a step does to the calls pending and the entries made *)

Sound(p, W) ==
    /\ \A x \in W : Item(p, x)
    /\ Expressible(p) => Closed(p, W)

\* Two sound sets are sound together.
LEMMA Join ==
    ASSUME NEW p, NEW W, NEW V, Sound(p, W), Sound(p, V)
    PROVE  Sound(p, W \cup V)
<1>. DEFINE U == W \cup V
<1>1. \A x \in U : Item(p, x)
  BY DEF Sound
<1>2. ASSUME Expressible(p) PROVE Closed(p, U)
  <2>1. (\A x \in W : x \in U) /\ (\A x \in V : x \in U)
    OBVIOUS
  <2>2. \A set, e : Insert(set, e) \in U => Insert(set, e) \in W \/ Insert(set, e) \in V
    OBVIOUS
  <2>. HIDE DEF U
  <2>3. \A set, e : (Known(p, W, set, e) \/ Known(p, V, set, e)) => Known(p, U, set, e)
    BY <2>1, Wider
  <2>4. QED  BY <1>2, <2>2, <2>3 DEF Sound, Closed
<1>. HIDE DEF U
<1>3. Sound(p, U)
  BY <1>1, <1>2 DEF Sound
<1>4. QED  BY <1>3 DEF U

\* A call that is no insertion is replaced by what it does.
LEMMA Unfold ==
    ASSUME NEW p, NEW x, NEW N, NEW R, NEW W, NEW V, W = {x} \cup R, V = N \cup R,
           Sound(p, W), Sound(p, N),
           Expressible(p) => Stands(p, x, N),
           \A set, e : x # Insert(set, e)
    PROVE  Sound(p, V) /\ \A d : Provided(p, W, d) => Provided(p, V, d)
<1>1. \A set, e : Insert(set, e) \in W => Insert(set, e) \in V
  OBVIOUS
<1>2. \A set, e : Insert(set, e) \in V => Insert(set, e) \in W \/ Insert(set, e) \in N
  OBVIOUS
<1>3. \A y \in W : y = x \/ y \in V
  OBVIOUS
<1>4. \A y \in N : y \in V
  OBVIOUS
<1>5. \A y \in V : y \in N \/ y \in W
  OBVIOUS
<1>6. \A y \in V : Item(p, y)
  BY <1>5 DEF Sound
<1>7. ASSUME Expressible(p) PROVE Closed(p, V)
  <2>1. /\ \A n : (StructIn(p, N, n) => StructIn(p, V, n)) /\ (TypeIn(p, N, n) => TypeIn(p, V, n))
        /\ \A set, e : Known(p, N, set, e) => Known(p, V, set, e)
    BY <1>4, Wider
  <2>2. Stands(p, x, V)
    BY <1>7, <2>1 DEF Stands
  <2>3. \A y \in W : y \in V \/ Stands(p, y, V)
    BY <1>3, <2>2
  <2>4. \A set, e : Insert(set, e) \in V => Insert(set, e) \in W \/ Known(p, V, set, e)
    BY <1>2, <1>7, <2>1 DEF Sound, Closed
  <2>5. Closed(p, W)
    BY <1>7 DEF Sound
  <2>6. QED  BY <2>3, <2>4, <2>5, Replace
<1>8. \A d : Provided(p, W, d) => Provided(p, V, d)
  BY <1>1 DEF Provided
<1>9. QED  BY <1>6, <1>7, <1>8 DEF Sound

\* An insertion into a set that has an entry of the name (std::set::insert).
LEMMA NameTaken ==
    ASSUME NEW p, NEW set, NEW e, NEW W, NEW V, W = {Insert(set, e)} \cup V, Sound(p, W),
           NEW y, Insert(set, y) \in V, y.name = e.name
    PROVE  /\ Sound(p, V)
           /\ NoClash(p) => \A d \in Declared(p) : Provided(p, W, d) => Provided(p, V, d)
<1>1. (\A x \in V : x \in W) /\ (\A x \in W : x = Insert(set, e) \/ x \in V)
  OBVIOUS
<1>2. \A n : /\ GivesStruct(p, Insert(set, e), n) => GivesStruct(p, Insert(set, y), n)
             /\ GivesType(p, Insert(set, e), n) => GivesType(p, Insert(set, y), n)
  BY Parts DEF GivesStruct, GivesType
<1>3. Stands(p, Insert(set, e), V)
  BY <1>2 DEF Stands, StructIn, TypeIn
<1>4. Sound(p, V)
  <2>1. \A x \in W : x \in V \/ Stands(p, x, V)
    BY <1>1, <1>3
  <2>2. \A s, f : Insert(s, f) \in V => Insert(s, f) \in W \/ Known(p, V, s, f)
    BY <1>1
  <2>3. Expressible(p) => Closed(p, V)
    <3>1. SUFFICES ASSUME Expressible(p) PROVE Closed(p, V)
      OBVIOUS
    <3>2. Closed(p, W)
      BY <3>1 DEF Sound
    <3>3. QED  BY <2>1, <2>2, <3>2, Replace
  <2>4. QED  BY <1>1, <2>3 DEF Sound
<1>5. \A s, f : Insert(s, f) \in W =>
         \E x : Insert(s, x) \in V /\ Insert(s, x) \in W /\ x.name = f.name
  <2>1. SUFFICES ASSUME NEW s, NEW f, Insert(s, f) \in W
                 PROVE  \E x : Insert(s, x) \in V /\ Insert(s, x) \in W /\ x.name = f.name
    OBVIOUS
  <2>2. CASE Insert(s, f) = Insert(set, e)
    <3>1. s = set /\ f = e
      BY <2>2, Parts
    <3>2. QED  BY <1>1, <3>1
  <2>3. CASE Insert(s, f) \in V
    BY <1>1, <2>3
  <2>4. QED  BY <1>1, <2>1, <2>2, <2>3
<1>6. ASSUME NoClash(p), NEW d \in Declared(p), Provided(p, W, d) PROVE Provided(p, V, d)
  <2>1. \A x \in W : Item(p, x)
    BY DEF Sound
  <2>2. QED  BY <1>5, <1>6, <2>1, StillProvided
<1>7. QED  BY <1>4, <1>6

\* What add_type and add_struct leave to do.
LEMMA TypeUnfolds ==
    ASSUME NEW p \in Programs, NEW t \in Types
    PROVE  LET N == ToSet(TypeWork(p, t)) IN
           /\ Sound(p, N)
           /\ Expressible(p) => Stands(p, AddType(t), N)
BY TypeWorkOK, TypeWorkItems DEF Sound

\* add_struct of a base class does what the call stood for (abigen.hpp:147-150).
LEMMA RecordUnfolds ==
    ASSUME NEW p \in Programs, NEW t \in Types
    PROVE  LET N == ToSet(StructWork(p, Type(p, t), <<Type(p, t).name>>)) IN
           /\ IsSeq(StructWork(p, Type(p, t), <<Type(p, t).name>>))
           /\ Sound(p, N)
           /\ Expressible(p) => Stands(p, AddRecord(t), N)
<1>. DEFINE d == Type(p, t)
            n == <<d.name>>
            N == ToSet(StructWork(p, d, n))
<1>1. d.fields \in Seq(Types) /\ d.base \in Seq(Types)
  BY TypeTyped
<1>2. IsSeq(StructWork(p, d, n))
  BY <1>1, StructWorkIs
<1>3. \A parent : Origin(p, Struct(n, parent, Names(p, d.fields)))
  <2>1. \A parent, fields : Struct(n, parent, fields).name = <<Type(p, t).name>>
    BY DEF Struct
  <2>2. QED  BY <2>1 DEF Origin
<1>4. \A x \in N : Item(p, x)
  <2>. HIDE DEF d, n
  <2>1. QED  BY <1>1, <1>3, StructWorkItems
<1>5. ASSUME Expressible(p) PROVE Closed(p, N) /\ Stands(p, AddRecord(t), N)
  <2>1. \A b \in ToSet(d.base) : Type(p, b).kind = "struct"
    BY <1>5 DEF Expressible
  <2>2. Closed(p, N) /\ \E x \in N : GivesStruct(p, x, n)
    <3>. HIDE DEF d, n
    <3>1. QED  BY <1>1, <2>1, StructWorkOK
  <2>3. \A m : /\ GivesStruct(p, AddRecord(t), m) => m = n
               /\ GivesType(p, AddRecord(t), m) => m = n
    BY Parts DEF GivesStruct, GivesType
  <2>. HIDE DEF N, n
  <2>4. StructIn(p, N, n) /\ TypeIn(p, N, n)
    BY <2>2 DEF StructIn, TypeIn, GivesType
  <2>5. Stands(p, AddRecord(t), N)
    BY <2>3, <2>4 DEF Stands
  <2>6. QED  BY <2>2, <2>5
<1>. HIDE DEF N
<1>6. Sound(p, N)
  BY <1>4, <1>5 DEF Sound
<1>7. QED  BY <1>2, <1>5, <1>6 DEF N, n, d

\* A declaration that is matched provides its action (fractal-cpp.cpp.in:51-87).
LEMMA DeclUnfolds ==
    ASSUME NEW p \in Programs, NEW d \in Declared(p)
    PROVE  /\ IsSeq(DeclWork(p, d))
           /\ Sound(p, ToSet(DeclWork(p, d)))
           /\ d.kind # "table" => Provided(p, ToSet(DeclWork(p, d)), d)
<1>. DEFINE N == ToSet(DeclWork(p, d))
<1>1. IsSeq(DeclWork(p, d))
  BY DeclWorkIs
<1>2. \A x \in N : Item(p, x)
  BY DeclWorkItems
<1>3. Expressible(p) => Closed(p, N)
  BY DeclWorkOK
<1>4. d.kind # "table" => Provided(p, N, d)
  BY DeclWorkItems DEF Provided
<1>. HIDE DEF N
<1>5. Sound(p, N)
  BY <1>2, <1>3 DEF Sound
<1>6. QED  BY <1>1, <1>4, <1>5 DEF N

\* Validation adds nothing.
LEMMA ValidateUnfolds ==
    ASSUME NEW p, NEW n
    PROVE  Sound(p, {}) /\ Stands(p, Validate(n), {})
<1>1. Validate(n)[1] = "validate"
  BY Parts
<1>2. Stands(p, Validate(n), {})
  BY <1>1 DEF Stands, GivesStruct, GivesType
<1>3. Closed(p, {})
  BY DEF Closed
<1>4. QED  BY <1>2, <1>3 DEF Sound

-----------------------------------------------------------------------------
(* The invariant *)

\* Before, of a program.
Sofar(p, n) == UNION {ToSet(p.inputs[j]) : j \in 1 .. n}

Things == ToSet(work) \cup Entries(abi)

\* The number of inputs begun.
Begun == Len(prog.inputs) - Len(inputs)

Open == IF pc \in {"next", "done"} THEN 0 ELSE 1

\* The actions of T, of those of D, may still come.
Listed(p, W, D, T) ==
    NoClash(p) => \A d \in D : d.kind # "table" => d \in T \/ Provided(p, W, d)

ClosedFile(p, json) ==
    Expressible(p) => Complete(json, Spoken(json) \cup LookedFor(p, json))

TypeOK ==
    /\ prog \in Programs
    /\ inputs \in Seq(Seq(DeclForm)) /\ decls \in Seq(DeclForm)
    /\ IsSeq(work) /\ IsSeq(files)
    /\ IsAbi(abi)
    /\ pc \in {"next", "match", "done", "crashed", "terminated"}

\* Where the generator is among its inputs.
Place ==
    /\ Begun \in 0 .. Len(prog.inputs)
    /\ \A j \in DOMAIN inputs : inputs[j] = prog.inputs[Begun + j]
    /\ pc = "next" => decls = <<>>
    /\ ToSet(decls) \subseteq Sofar(prog, Begun)
    /\ Len(files) + Len(inputs) + Open <= Len(prog.inputs)

\* All that is pending or made is the program's and speaks of what comes too.
Work ==
    /\ Sound(prog, Things)
    /\ Listed(prog, Things, Sofar(prog, Begun), ToSet(decls))

\* The files already written.
Files ==
    /\ \A i \in DOMAIN files : ClosedFile(prog, files[i])
    /\ Len(files) + Len(inputs) + Open = Len(prog.inputs) /\ NoClash(prog) =>
          \A i \in DOMAIN files : Describes(prog, files[i], Sofar(prog, i))

IInv == TypeOK /\ Place /\ Work /\ Files

\* Which declarations have come after the first n inputs.
LEMMA ProgramInputs ==
    ASSUME NEW p \in Programs
    PROVE  /\ p.inputs \in Seq(Seq(DeclForm))
           /\ \A n \in 0 .. Len(p.inputs) : Sofar(p, n) \subseteq Declared(p)
           /\ \A n \in 0 .. Len(p.inputs) - 1 :
                 Sofar(p, n + 1) = Sofar(p, n) \cup ToSet(p.inputs[n + 1])
           /\ Sofar(p, 0) = {}
<1>1. p.inputs \in Seq(Seq(DeclForm))
  BY ProgramsAssumption
<1>. DEFINE m == Len(p.inputs)
<1>2. m \in Nat /\ DOMAIN p.inputs = 1 .. m
  BY <1>1
<1>3. \A n \in 0 .. m : Sofar(p, n) \subseteq Declared(p)
  <2>1. SUFFICES ASSUME NEW n \in 0 .. m, NEW j \in 1 .. n, NEW d \in ToSet(p.inputs[j])
                 PROVE  d \in Declared(p)
    BY DEF Sofar
  <2>2. j \in DOMAIN p.inputs
    BY <1>2
  <2>3. QED  BY <2>2 DEF Declared
<1>4. \A n \in 0 .. m - 1 : Sofar(p, n + 1) = Sofar(p, n) \cup ToSet(p.inputs[n + 1])
  <2>1. SUFFICES ASSUME NEW n \in 0 .. m - 1
                 PROVE  Sofar(p, n + 1) = Sofar(p, n) \cup ToSet(p.inputs[n + 1])
    OBVIOUS
  <2>2. 1 .. n + 1 = (1 .. n) \cup {n + 1}
    BY <1>2
  <2>3. QED  BY <2>2 DEF Sofar
<1>5. Sofar(p, 0) = {}
  BY DEF Sofar
<1>6. QED  BY <1>1, <1>3, <1>4, <1>5

\* The generator starts with nothing to do and nothing made (abi.hpp:8-56).
THEOREM InitInv ==
    Init => IInv
<1>. SUFFICES ASSUME Init PROVE IInv
  OBVIOUS
<1>1. /\ prog \in Programs /\ inputs = prog.inputs /\ decls = <<>> /\ work = <<>>
      /\ files = <<>> /\ pc = "next"
  BY DEF Init
<1>2. IsAbi(abi) /\ \A set \in Sets : abi[set] = {}
  BY DEF Init, Sets, IsAbi
<1>3. ToSet(work) = {} /\ ToSet(decls) = {} /\ IsSeq(work) /\ IsSeq(files)
  BY <1>1, SetOfOne
<1>4. Entries(abi) = {}
  BY <1>2 DEF Entries
<1>5. Things = {}
  BY <1>3, <1>4 DEF Things
<1>6. inputs \in Seq(Seq(DeclForm)) /\ Len(prog.inputs) \in Nat
  BY <1>1, ProgramInputs
<1>7. Begun = 0 /\ Open = 0 /\ Sofar(prog, 0) = {}
  BY <1>1, <1>6, ProgramInputs DEF Begun, Open
<1>8. Sound(prog, {})
  BY ValidateUnfolds
<1>9. TypeOK
  BY <1>1, <1>2, <1>3, <1>6 DEF TypeOK
<1>10. Place
  BY <1>1, <1>3, <1>6, <1>7 DEF Place
<1>11. Work
  BY <1>5, <1>7, <1>8 DEF Work, Listed
<1>12. Files
  BY <1>1 DEF Files
<1>13. QED  BY <1>9, <1>10, <1>11, <1>12 DEF IInv

\* A pending call changes only the work and the sets.
LEMMA CallStep ==
    ASSUME IInv, pc = "match", UNCHANGED <<prog, inputs, decls, files>>,
           pc' \in {"match", "terminated", "crashed"}, IsSeq(work'),
           IsAbi(abi'),
           Sound(prog, Things'),
           NoClash(prog) => \A d \in Declared(prog) :
               Provided(prog, Things, d) => Provided(prog, Things', d)
    PROVE  IInv'
<1>1. Open = 1 /\ Open' = 1 /\ Begun' = Begun
  BY DEF Open, Begun
<1>2. TypeOK'
  BY DEF IInv, TypeOK
<1>3. Place'
  BY <1>1 DEF IInv, Place
<1>4. Work'
  <2>1. Begun \in 0 .. Len(prog.inputs) /\ prog \in Programs
    BY DEF IInv, Place, TypeOK
  <2>2. Sofar(prog, Begun) \subseteq Declared(prog)
    BY <2>1, ProgramInputs
  <2>3. Listed(prog, Things, Sofar(prog, Begun), ToSet(decls))
    BY DEF IInv, Work
  <2>4. Listed(prog, Things', Sofar(prog, Begun), ToSet(decls))
    BY <2>2, <2>3 DEF Listed
  <2>5. prog' = prog /\ decls' = decls
    OBVIOUS
  <2>6. Work' <=> /\ Sound(prog', Things')
                  /\ Listed(prog', Things', Sofar(prog', Begun'), ToSet(decls'))
    BY DEF Work
  <2>7. QED  BY <1>1, <2>4, <2>5, <2>6
<1>5. Files'
  BY <1>1 DEF IInv, Files
<1>6. QED  BY <1>2, <1>3, <1>4, <1>5 DEF IInv

\* The call at the head of the work is done, with this left to do in its place.
LEMMA HeadStep ==
    ASSUME IInv, pc = "match", UNCHANGED <<prog, inputs, decls, files, abi>>,
           pc' \in {"match", "terminated"}, work # <<>>,
           NEW s, work' = s \o Tail(work), IsSeq(s),
           Sound(prog, ToSet(s)), Expressible(prog) => Stands(prog, Head(work), ToSet(s)),
           Head(work)[1] # "insert"
    PROVE  IInv'
<1>1. IsSeq(work) /\ IsAbi(abi)
  BY DEF IInv, TypeOK
<1>2. IsSeq(Tail(work)) /\ ToSet(work) = {Head(work)} \cup ToSet(Tail(work))
  BY <1>1, SetOfTail
<1>3. IsSeq(work') /\ ToSet(work') = ToSet(s) \cup ToSet(Tail(work))
  BY <1>2, SetOfConcat
<1>. DEFINE x == Head(work)
            N == ToSet(s)
            R == ToSet(Tail(work)) \cup Entries(abi)
<1>4. Things = {x} \cup R
  BY <1>2 DEF Things
<1>5. Things' = N \cup R
  <2>1. Things' = ToSet(work') \cup Entries(abi')
    BY DEF Things
  <2>2. abi' = abi
    OBVIOUS
  <2>3. QED  BY <1>3, <2>1, <2>2
<1>6. \A set, e : x # Insert(set, e)
  <2>1. x[1] # "insert"
    OBVIOUS
  <2>. HIDE DEF x
  <2>2. \A set, e : Insert(set, e)[1] = "insert"
    BY DEF Insert
  <2>3. QED  BY <2>1, <2>2
<1>7. Sound(prog, Things)
  BY DEF IInv, Work
<1>8. Sound(prog, N) /\ (Expressible(prog) => Stands(prog, x, N))
  OBVIOUS
<1>. HIDE DEF x, N, R
<1>9. Sound(prog, Things') /\ \A d : Provided(prog, Things, d) => Provided(prog, Things', d)
  BY <1>4, <1>5, <1>6, <1>7, <1>8, Unfold
<1>10. QED  BY <1>1, <1>3, <1>9, CallStep

\* An exhausted stack ends the generator and changes nothing else.
LEMMA CrashStep ==
    ASSUME IInv, pc = "match", UNCHANGED <<prog, inputs, decls, files, abi, work>>, pc' = "crashed"
    PROVE  IInv'
<1>1. IsSeq(work') /\ IsAbi(abi')
  BY DEF IInv, TypeOK
<1>2. Things' = Things
  BY DEF Things
<1>3. Sound(prog, Things')
  BY <1>2 DEF IInv, Work
<1>4. QED  BY <1>1, <1>2, <1>3, CallStep

\* What kind of call is at the head of the work, and of what.
LEMMA HeadItem ==
    ASSUME IInv, work # <<>>
    PROVE  LET x == Head(work) IN
           /\ x[1] = "type" => x = AddType(x[2]) /\ x[2] \in Types
           /\ x[1] = "record" => x = AddRecord(x[2]) /\ x[2] \in Types
           /\ x[1] = "insert" => x = Insert(x[2], x[3]) /\ x[2] \in Sets
           /\ x[1] = "validate" => x = Validate(x[2])
<1>. DEFINE x == Head(work)
<1>1. x \in Things
  <2>1. IsSeq(work)
    BY DEF IInv, TypeOK
  <2>2. QED  BY <2>1, SetOfTail DEF Things
<1>2. Item(prog, x)
  BY <1>1 DEF IInv, Work, Sound
<1>. HIDE DEF x
<1>3. CASE \E t \in Types : x = AddType(t) \/ x = AddRecord(t)
  BY <1>3, Parts DEF x
<1>4. CASE \E n : x = Validate(n)
  <2>1. PICK n : x = Validate(n)
    BY <1>4
  <2>2. x[1] = "validate" /\ x[2] = n
    BY <2>1 DEF Validate
  <2>3. QED  BY <2>1, <2>2 DEF x
<1>5. CASE \E set, e : x = Insert(set, e) /\ EntryOK(prog, set, e)
  <2>1. PICK set, e : x = Insert(set, e) /\ EntryOK(prog, set, e)
    BY <1>5
  <2>2. x[1] = "insert" /\ x[2] = set /\ x[3] = e /\ set \in Sets
    BY <2>1, Parts DEF EntryOK
  <2>3. QED  BY <2>1, <2>2 DEF x
<1>6. QED  BY <1>2, <1>3, <1>4, <1>5 DEF Item

\* add_type keeps the invariant.
LEMMA TypeStep ==
    ASSUME IInv, CallType
    PROVE  IInv'
<1>. DEFINE x == Head(work)
            s == TypeWork(prog, x[2])
<1>1. /\ pc = "match" /\ work # <<>> /\ x[1] = "type"
      /\ UNCHANGED <<prog, inputs, decls, abi, files>>
      /\ \/ work' = s \o Tail(work) /\ pc' = pc
         \/ pc' = "crashed" /\ work' = work
  BY DEF CallType, Call
<1>2. x = AddType(x[2]) /\ x[2] \in Types /\ prog \in Programs
  BY <1>1, HeadItem DEF IInv, TypeOK
<1>3. /\ Sound(prog, ToSet(s)) /\ IsSeq(s)
      /\ Expressible(prog) => Stands(prog, AddType(x[2]), ToSet(s))
  <2>1. \A p \in Programs, t \in Types :
           /\ Sound(p, ToSet(TypeWork(p, t))) /\ IsSeq(TypeWork(p, t))
           /\ Expressible(p) => Stands(p, AddType(t), ToSet(TypeWork(p, t)))
    BY TypeUnfolds, TypeWorkIs
  <2>2. QED  BY <1>2, <2>1
<1>4. CASE pc' = "crashed" /\ work' = work
  BY <1>1, <1>4, CrashStep
<1>5. CASE work' = s \o Tail(work) /\ pc' = pc
  <2>1. Expressible(prog) => Stands(prog, x, ToSet(s))
    BY <1>2, <1>3
  <2>2. x[1] # "insert"
    BY <1>1
  <2>. HIDE DEF s
  <2>3. QED  BY <1>1, <1>3, <1>5, <2>1, <2>2, HeadStep
<1>6. QED  BY <1>1, <1>4, <1>5

\* add_struct of a base class keeps the invariant.
LEMMA RecordStep ==
    ASSUME IInv, CallRecord
    PROVE  IInv'
<1>. DEFINE x == Head(work)
            s == StructWork(prog, Type(prog, x[2]), <<Type(prog, x[2]).name>>)
<1>1. /\ pc = "match" /\ work # <<>> /\ x[1] = "record"
      /\ UNCHANGED <<prog, inputs, decls, abi, files>>
      /\ \/ work' = s \o Tail(work) /\ pc' = pc
         \/ pc' = "crashed" /\ work' = work
  BY DEF CallRecord, Call
<1>2. x = AddRecord(x[2]) /\ x[2] \in Types /\ prog \in Programs
  BY <1>1, HeadItem DEF IInv, TypeOK
<1>3. /\ Sound(prog, ToSet(s)) /\ IsSeq(s)
      /\ Expressible(prog) => Stands(prog, AddRecord(x[2]), ToSet(s))
  BY <1>2, RecordUnfolds
<1>4. CASE pc' = "crashed" /\ work' = work
  BY <1>1, <1>4, CrashStep
<1>5. CASE work' = s \o Tail(work) /\ pc' = pc
  <2>1. Expressible(prog) => Stands(prog, x, ToSet(s))
    BY <1>2, <1>3
  <2>2. x[1] # "insert"
    BY <1>1
  <2>. HIDE DEF s
  <2>3. QED  BY <1>1, <1>3, <1>5, <2>1, <2>2, HeadStep
<1>6. QED  BY <1>1, <1>4, <1>5

\* validate_name keeps the invariant (abigen.hpp:49-72).
LEMMA ValidateStep ==
    ASSUME IInv, CallValidate
    PROVE  IInv'
<1>1. /\ pc = "match" /\ work # <<>> /\ Head(work)[1] = "validate"
      /\ pc' \in {"match", "terminated"} /\ work' = Tail(work)
      /\ UNCHANGED <<prog, inputs, decls, abi, files>>
  BY DEF CallValidate
<1>2. Head(work) = Validate(Head(work)[2])
  BY <1>1, HeadItem
<1>3. Sound(prog, {}) /\ Stands(prog, Head(work), {})
  BY <1>2, ValidateUnfolds
<1>4. IsSeq(<<>>) /\ ToSet(<<>>) = {}
  BY SetOfOne
<1>5. <<>> \o Tail(work) = Tail(work)
  <2>1. IsSeq(work)
    BY DEF IInv, TypeOK
  <2>2. PICK S : Tail(work) \in Seq(S)
    BY <1>1, <2>1, SetOfTail DEF IsSeq
  <2>3. QED  BY <2>2
<1>6. Head(work)[1] # "insert"
  BY <1>1
<1>7. QED  BY <1>1, <1>3, <1>4, <1>5, <1>6, HeadStep

\* std::set::insert keeps the invariant, whether the name is taken or not (abi.hpp:12-54).
LEMMA InsertStep ==
    ASSUME IInv, CallInsert
    PROVE  IInv'
<1>. DEFINE set == Head(work)[2]
            e == Head(work)[3]
            old == abi[set]
            R == ToSet(Tail(work))
            W == {Insert(set, e)} \cup (R \cup Entries(abi))
            V == R \cup Entries(abi')
<1>1. /\ pc = "match" /\ work # <<>> /\ Head(work)[1] = "insert"
      /\ abi' = [abi EXCEPT ![set] = Inserted(abi[set], e)]
      /\ work' = Tail(work)
      /\ UNCHANGED <<prog, inputs, decls, files, pc>>
  BY DEF CallInsert
<1>2. Head(work) = Insert(set, e) /\ set \in Sets
  BY <1>1, HeadItem
<1>3. IsSeq(work) /\ IsAbi(abi)
  BY DEF IInv, TypeOK
<1>4. IsSeq(Tail(work)) /\ ToSet(work) = {Head(work)} \cup R
  BY <1>1, <1>3, SetOfTail
<1>5. Things = W /\ Things' = V
  BY <1>1, <1>2, <1>4 DEF Things
<1>6. /\ IsAbi(abi')
      /\ abi'[set] = Inserted(old, e)
      /\ \A s \in Sets : s # set => abi'[s] = abi[s]
  BY <1>1, <1>2, <1>3 DEF IsAbi
<1>7. Sound(prog, W)
  BY <1>5 DEF IInv, Work
<1>8. Sound(prog, V) /\ (NoClash(prog) => \A d \in Declared(prog) :
                            Provided(prog, W, d) => Provided(prog, V, d))
  <2>1. CASE \E y \in old : y.name = e.name
    <3>1. PICK y \in old : y.name = e.name
      BY <2>1
    <3>2. abi'[set] = abi[set]
      BY <1>6, <2>1 DEF Inserted
    <3>3. \A s \in Sets : abi'[s] = abi[s]
      BY <1>6, <3>2
    <3>4. Entries(abi') = Entries(abi)
      BY <3>3 DEF Entries
    <3>5. Insert(set, y) \in V
      BY <1>2, <3>1, <3>4, EntryIn
    <3>6. W = {Insert(set, e)} \cup V
      BY <3>4
    <3>. HIDE DEF W, V, set, e
    <3>7. QED  BY <1>7, <3>1, <3>5, <3>6, NameTaken
  <2>2. CASE ~\E y \in old : y.name = e.name
    <3>1. abi'[set] = abi[set] \cup {e}
      BY <1>6, <2>2 DEF Inserted
    <3>. DEFINE E == Entries(abi)
                F == Entries(abi')
    <3>2. \A x : x \in F <=> x \in E \/ x = Insert(set, e)
      <4>1. \A x : x \in E <=> \E s \in Sets : \E f \in abi[s] : x = Insert(s, f)
        BY DEF Entries
      <4>2. \A x : x \in F <=> \E s \in Sets : \E f \in abi'[s] : x = Insert(s, f)
        BY DEF Entries
      <4>3. \A s \in Sets : \A f : f \in abi'[s] <=> f \in abi[s] \/ (s = set /\ f = e)
        BY <1>2, <1>6, <3>1
      <4>. HIDE DEF E, F, set, e
      <4>4. QED  BY <1>2, <4>1, <4>2, <4>3
    <3>3. W = V
      <4>. HIDE DEF E, F, set, e, R
      <4>1. {Insert(set, e)} \cup (R \cup E) = R \cup F
        BY <3>2
      <4>2. QED  BY <4>1 DEF E, F
    <3>. HIDE DEF W, V
    <3>4. QED  BY <1>7, <3>3
  <2>3. QED  BY <2>1, <2>2
<1>9. IsSeq(work')
  BY <1>1, <1>4
<1>. HIDE DEF W, V, set, e, old, R
<1>10. Sound(prog, Things')
  BY <1>5, <1>8
<1>11. NoClash(prog) => \A d \in Declared(prog) :
           Provided(prog, Things, d) => Provided(prog, Things', d)
  BY <1>5, <1>8
<1>12. QED  BY <1>1, <1>6, <1>9, <1>10, <1>11, CallStep

\* generate() of the next input: its declarations are to be matched.
LEMMA InputStep ==
    ASSUME IInv, NextInput
    PROVE  IInv'
<1>1. /\ pc = "next" /\ inputs # <<>> /\ decls' = Head(inputs) /\ inputs' = Tail(inputs)
      /\ pc' = "match" /\ UNCHANGED <<prog, work, abi, files>>
  BY DEF NextInput
<1>. DEFINE m == Len(prog.inputs)
            k == Len(inputs)
<1>2. prog.inputs \in Seq(Seq(DeclForm)) /\ inputs \in Seq(Seq(DeclForm)) /\ prog \in Programs
  BY ProgramInputs DEF IInv, TypeOK
<1>3. /\ m \in Nat /\ k \in Nat /\ k # 0
      /\ Tail(inputs) \in Seq(Seq(DeclForm)) /\ Len(Tail(inputs)) = k - 1
      /\ Head(inputs) = inputs[1] /\ Head(inputs) \in Seq(DeclForm)
      /\ \A j \in 1 .. k - 1 : Tail(inputs)[j] = inputs[j + 1]
      /\ DOMAIN inputs = 1 .. k /\ DOMAIN Tail(inputs) = 1 .. k - 1
  BY <1>1, <1>2
<1>4. /\ m - k \in 0 .. m /\ \A j \in 1 .. k : inputs[j] = prog.inputs[(m - k) + j]
      /\ decls = <<>>
  BY <1>1, <1>3 DEF IInv, Place, Begun
<1>5. Begun = m - k /\ Begun' = Begun + 1 /\ Begun + 1 \in 0 .. m /\ Begun \in 0 .. m - 1
  BY <1>1, <1>3, <1>4 DEF Begun
<1>6. Head(inputs) = prog.inputs[Begun + 1]
  BY <1>3, <1>4, <1>5
<1>7. Sofar(prog, Begun + 1) = Sofar(prog, Begun) \cup ToSet(Head(inputs))
  BY <1>2, <1>5, <1>6, ProgramInputs
<1>8. Open = 0 /\ Open' = 1
  BY <1>1 DEF Open
<1>9. TypeOK'
  BY <1>1, <1>3 DEF IInv, TypeOK
<1>10. Len(files') + Len(inputs') + Open' = Len(files) + Len(inputs) + Open
  <2>1. Len(files) \in Nat
    BY DEF IInv, TypeOK, IsSeq
  <2>2. QED  BY <1>1, <1>3, <1>8, <2>1
<1>11. Place'
  <2>1. \A j \in DOMAIN inputs' : inputs'[j] = prog'.inputs[Begun' + j]
    <3>1. SUFFICES ASSUME NEW j \in 1 .. k - 1 PROVE Tail(inputs)[j] = prog.inputs[Begun + 1 + j]
      BY <1>1, <1>3, <1>5
    <3>2. j + 1 \in 1 .. k /\ (m - k) + (j + 1) = Begun + 1 + j
      <4>1. m \in Nat /\ k \in Nat /\ Begun = m - k
        BY <1>3, <1>5
      <4>. HIDE DEF m, k
      <4>2. QED  BY <4>1
    <3>3. QED  BY <1>3, <1>4, <3>2
  <2>2. ToSet(decls') \subseteq Sofar(prog', Begun')
    BY <1>1, <1>5, <1>7
  <2>3. Len(files') + Len(inputs') + Open' <= Len(prog'.inputs)
    BY <1>1, <1>10 DEF IInv, Place
  <2>4. Begun' \in 0 .. Len(prog'.inputs) /\ (pc' = "next" => decls' = <<>>)
    BY <1>1, <1>5
  <2>5. QED  BY <2>1, <2>2, <2>3, <2>4 DEF Place
<1>12. Work'
  <2>1. Things' = Things
    BY <1>1 DEF Things
  <2>2. Sound(prog, Things) /\ Listed(prog, Things, Sofar(prog, Begun), {})
    BY <1>4, SetOfOne DEF IInv, Work
  <2>3. Listed(prog, Things, Sofar(prog, Begun + 1), ToSet(Head(inputs)))
    BY <1>7, <2>2 DEF Listed
  <2>4. QED  BY <1>1, <1>5, <2>1, <2>2, <2>3 DEF Work
<1>13. Files'
  BY <1>1, <1>10 DEF IInv, Files
<1>14. QED  BY <1>9, <1>11, <1>12, <1>13 DEF IInv

\* A declaration is matched.
LEMMA MatchStep ==
    ASSUME IInv, Match
    PROVE  IInv'
<1>. DEFINE d == Head(decls)
            s == DeclWork(prog, d)
<1>1. /\ pc = "match" /\ work = <<>> /\ decls # <<>> /\ work' = s
      /\ decls' = Tail(decls) /\ UNCHANGED <<prog, inputs, abi, files, pc>>
  BY DEF Match
<1>2. prog \in Programs /\ decls \in Seq(DeclForm)
  BY DEF IInv, TypeOK
<1>3. Tail(decls) \in Seq(DeclForm) /\ ToSet(decls) = {d} \cup ToSet(Tail(decls))
  BY <1>1, <1>2, SetOfTail DEF IsSeq
<1>4. ToSet(decls) \subseteq Sofar(prog, Begun) /\ d \in Declared(prog)
  BY <1>2, <1>3, ProgramInputs DEF IInv, Place
<1>5. Begun' = Begun /\ Open' = Open
  BY <1>1 DEF Begun, Open
<1>. HIDE DEF d
<1>6. /\ IsSeq(s) /\ Sound(prog, ToSet(s))
      /\ d.kind # "table" => Provided(prog, ToSet(s), d)
  BY <1>2, <1>4, DeclUnfolds
<1>7. TypeOK'
  BY <1>1, <1>3, <1>6 DEF IInv, TypeOK
<1>8. Place'
  BY <1>1, <1>3, <1>4, <1>5 DEF IInv, Place
<1>9. Work'
  <2>. DEFINE N == ToSet(s)
  <2>1. Things' = N \cup Things
    BY <1>1, SetOfOne DEF Things
  <2>. HIDE DEF N, s
  <2>2. Sound(prog, Things')
    BY <1>6, <2>1, Join DEF IInv, Work, N
  <2>3. \A x : Provided(prog, N, x) \/ Provided(prog, Things, x) => Provided(prog, Things', x)
    BY <2>1 DEF Provided
  <2>4. Listed(prog, Things, Sofar(prog, Begun), ToSet(decls))
    BY DEF IInv, Work
  <2>5. Listed(prog, Things', Sofar(prog, Begun), ToSet(Tail(decls)))
    BY <1>3, <1>6, <2>3, <2>4 DEF Listed, N
  <2>6. Work' <=> /\ Sound(prog', Things')
                  /\ Listed(prog', Things', Sofar(prog', Begun'), ToSet(decls'))
    BY DEF Work
  <2>7. QED  BY <1>1, <1>5, <2>2, <2>5, <2>6
<1>10. Files'
  BY <1>1, <1>5 DEF IInv, Files
<1>11. QED  BY <1>7, <1>8, <1>9, <1>10 DEF IInv

\* to_json of what there is, when nothing is pending (fractal-cpp.cpp.in:145-150).
LEMMA WriteStep ==
    ASSUME IInv, WriteAbi
    PROVE  IInv'
<1>. DEFINE json == Json(abi)
            n == Len(files)
            k == Len(inputs)
            m == Len(prog.inputs)
<1>1. /\ pc = "match" /\ work = <<>> /\ decls = <<>>
      /\ files' = files \/ files' = Append(files, json)
      /\ pc' \in {"next", "done"} /\ UNCHANGED <<prog, inputs, decls, work, abi>>
  BY DEF WriteAbi
<1>2. /\ prog \in Programs /\ IsAbi(abi)
      /\ inputs \in Seq(Seq(DeclForm)) /\ prog.inputs \in Seq(Seq(DeclForm))
  BY ProgramInputs DEF IInv, TypeOK
<1>3. PICK S : files \in Seq(S)
  BY DEF IInv, TypeOK, IsSeq
<1>4. n \in Nat /\ k \in Nat /\ m \in Nat
  BY <1>2, <1>3
<1>5. /\ Append(files, json) \in Seq(S \cup {json}) /\ Len(Append(files, json)) = n + 1
      /\ DOMAIN files = 1 .. n /\ DOMAIN Append(files, json) = 1 .. n + 1
      /\ Append(files, json)[n + 1] = json
      /\ \A i \in 1 .. n : Append(files, json)[i] = files[i]
  <2>. HIDE DEF json
  <2>1. QED  BY <1>3
<1>6. Open = 1 /\ Open' = 0 /\ Begun' = Begun /\ Begun = m - k /\ n + k + 1 <= m
  BY <1>1 DEF Open, Begun, IInv, Place
<1>7. Things = Entries(abi) /\ Things' = Things
  BY <1>1, SetOfOne DEF Things
<1>8. ClosedFile(prog, json)
  <2>1. Expressible(prog) => Closed(prog, Entries(abi))
    BY <1>7 DEF IInv, Work, Sound
  <2>2. QED  BY <1>2, <2>1, JsonCloses DEF ClosedFile
<1>9. NoClash(prog) => Describes(prog, json, Sofar(prog, Begun))
  <2>1. SUFFICES ASSUME NoClash(prog), NEW d \in Sofar(prog, Begun), d.kind # "table"
                 PROVE  /\ Action(d) \in json.actions
                        /\ \E s \in json.structs : s.name = <<d.name>> /\ s.fields = Names(prog, d.fields)
    BY DEF Describes
  <2>2. ToSet(decls) = {}
    BY <1>1, SetOfOne
  <2>3. Provided(prog, Entries(abi), d)
    BY <1>7, <2>1, <2>2 DEF IInv, Work, Listed
  <2>4. d \in Declared(prog)
    BY <1>2, ProgramInputs DEF IInv, Place
  <2>5. ~IsBuiltin(<<d.name>>)
    BY <2>1, <2>4 DEF NoClash
  <2>6. QED  BY <1>2, <2>3, <2>5, JsonDescribes
<1>. HIDE DEF json
<1>10. TypeOK'
  <2>1. IsSeq(files')
    BY <1>1, <1>3, <1>5 DEF IsSeq
  <2>2. QED  BY <1>1, <2>1 DEF IInv, TypeOK
<1>11. Place'
  <2>1. Len(files') + Len(inputs') + Open' <= Len(prog'.inputs)
    BY <1>1, <1>4, <1>5, <1>6
  <2>2. QED  BY <1>1, <1>6, <2>1 DEF IInv, Place
<1>12. Work'
  <2>1. Work' <=> /\ Sound(prog', Things')
                  /\ Listed(prog', Things', Sofar(prog', Begun'), ToSet(decls'))
    BY DEF Work
  <2>2. QED  BY <1>1, <1>6, <1>7, <2>1 DEF IInv, Work
<1>13. Files'
  <2>1. CASE files' = files
    <3>1. ~(Len(files') + Len(inputs') + Open' = Len(prog'.inputs))
      BY <1>1, <1>4, <1>6, <2>1
    <3>2. \A i \in DOMAIN files' : ClosedFile(prog', files'[i])
      BY <1>1, <2>1 DEF IInv, Files
    <3>3. QED  BY <3>1, <3>2 DEF Files
  <2>2. CASE files' = Append(files, json)
    <3>1. \A i \in DOMAIN files' : \/ i \in DOMAIN files /\ files'[i] = files[i]
                                   \/ i = n + 1 /\ files'[i] = json
      <4>1. /\ DOMAIN files' = 1 .. n + 1 /\ DOMAIN files = 1 .. n /\ n \in Nat
            /\ files'[n + 1] = json /\ \A i \in 1 .. n : files'[i] = files[i]
        BY <1>4, <1>5, <2>2
      <4>. HIDE DEF n
      <4>2. \A i \in 1 .. n + 1 : i \in 1 .. n \/ i = n + 1
        BY <4>1
      <4>3. QED  BY <4>1, <4>2
    <3>2. \A i \in DOMAIN files' : ClosedFile(prog', files'[i])
      BY <1>1, <1>8, <3>1 DEF IInv, Files
    <3>3. ASSUME Len(files') + Len(inputs') + Open' = Len(prog'.inputs), NoClash(prog')
          PROVE  \A i \in DOMAIN files' : Describes(prog', files'[i], Sofar(prog', i))
      <4>1. n + k + 1 = m
        BY <1>1, <1>4, <1>5, <1>6, <2>2, <3>3
      <4>2. Begun = n + 1
        BY <1>4, <1>6, <4>1
      <4>3. Len(files) + Len(inputs) + Open = Len(prog.inputs) /\ NoClash(prog)
        BY <1>1, <1>6, <3>3, <4>1
      <4>4. \A i \in DOMAIN files : Describes(prog, files[i], Sofar(prog, i))
        BY <4>3 DEF IInv, Files
      <4>5. Describes(prog, json, Sofar(prog, n + 1))
        BY <1>9, <4>2, <4>3
      <4>6. QED  BY <1>1, <3>1, <4>4, <4>5
    <3>4. QED  BY <3>2, <3>3 DEF Files
  <2>3. QED  BY <1>1, <2>1, <2>2
<1>14. QED  BY <1>10, <1>11, <1>12, <1>13 DEF IInv

\* Each step of the generator keeps the invariant.
THEOREM StepInv ==
    IInv /\ [Next]_vars => IInv'
<1>1. ASSUME IInv, UNCHANGED vars PROVE IInv'
  <2>1. Things' = Things /\ Begun' = Begun /\ Open' = Open
    BY <1>1 DEF vars, Things, Begun, Open
  <2>2. TypeOK' /\ Place'
    BY <1>1, <2>1 DEF IInv, TypeOK, Place, vars
  <2>3. Work'
    <3>1. Work' <=> /\ Sound(prog', Things')
                    /\ Listed(prog', Things', Sofar(prog', Begun'), ToSet(decls'))
      BY DEF Work
    <3>2. QED  BY <1>1, <2>1, <3>1 DEF IInv, Work, vars
  <2>4. Files'
    BY <1>1, <2>1 DEF IInv, Files, vars
  <2>5. QED  BY <2>2, <2>3, <2>4 DEF IInv
<1>2. QED
  BY <1>1, InputStep, MatchStep, TypeStep, RecordStep, InsertStep, ValidateStep, WriteStep
     DEF Next

\* add_type and add_struct call for every type before they insert what speaks of it, so
\* what is gathered for a file describes all it speaks of; and validate_struct and
\* validate_types leave out none of them but for what only a table mentions, with a
\* suffix or as an alias for its key (abigen.hpp:37-218, 220-346).
THEOREM AbiClosedAlways ==
    Spec => []AbiClosed
<1>1. ASSUME IInv, Expressible(prog), pc = "match", work = <<>>, decls = <<>>
      PROVE  Complete(abi, Spoken(abi) \cup Stored(abi))
  <2>1. Things = Entries(abi)
    BY <1>1, SetOfOne DEF Things
  <2>2. Closed(prog, Entries(abi))
    BY <1>1, <2>1 DEF IInv, Work, Sound
  <2>3. QED  BY <2>2, AbiCloses
<1>2. IInv => AbiClosed
  BY <1>1 DEF IInv, Files, ClosedFile, AbiClosed
<1>3. QED  BY <1>2, InitInv, StepInv, PTL DEF Spec

\* The actions of all inputs so far are in a file with their own parameters, as
\* abigen's sets outlive an input and keep what came first (abigen.hpp:22-35).
THEOREM ActionsDescribedAlways ==
    Spec => []ActionsDescribed
<1>1. IInv => ActionsDescribed
  <2>1. SUFFICES ASSUME IInv, Len(files) + Len(inputs) = Len(prog.inputs), NoClash(prog),
                        NEW i \in DOMAIN files, NEW d \in Before(i), d.kind # "table"
                 PROVE  /\ Action(d) \in files[i].actions
                        /\ \E s \in files[i].structs :
                              s.name = <<d.name>> /\ s.fields = Names(prog, d.fields)
    BY DEF ActionsDescribed
  <2>2. Open = 0
    <3>1. /\ inputs \in Seq(Seq(DeclForm)) /\ prog.inputs \in Seq(Seq(DeclForm))
          /\ Len(files) + Len(inputs) + Open <= Len(prog.inputs)
      BY <2>1, ProgramInputs DEF IInv, TypeOK, Place
    <3>2. Len(prog.inputs) \in Nat
      BY <3>1
    <3>3. Open \in {0, 1}
      BY DEF Open
    <3>4. QED  BY <2>1, <3>1, <3>2, <3>3
  <2>3. Len(files) + Len(inputs) + Open = Len(prog.inputs)
    <3>1. inputs \in Seq(Seq(DeclForm)) /\ IsSeq(files)
      BY <2>1 DEF IInv, TypeOK
    <3>2. Len(inputs) \in Nat /\ Len(files) \in Nat
      BY <3>1 DEF IsSeq
    <3>3. QED  BY <2>1, <2>2, <3>2
  <2>4. Describes(prog, files[i], Sofar(prog, i))
    BY <2>1, <2>3 DEF IInv, Files
  <2>5. d \in Sofar(prog, i)
    BY DEF Before, Sofar
  <2>6. QED  BY <2>1, <2>4, <2>5 DEF Describes
<1>2. QED  BY <1>1, InitInv, StepInv, PTL DEF Spec
===============================================================================
