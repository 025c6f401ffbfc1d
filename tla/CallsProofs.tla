------------------------------ MODULE CallsProofs ------------------------------
(***************************************************************************)
(* For all contracts: what a frame hands back is what plain calls of       *)
(* functions would have computed, and no buffer but that of the result is  *)
(* left when it ends.                                                      *)
(***************************************************************************)
EXTENDS Calls, TLAPS, SequenceTheorems, NaturalsInduction, WellFoundedInduction

-----------------------------------------------------------------------------
(* Induction, and the functions defined by it *)

\* A set of natural numbers has a least one.
LEMMA LeastNat ==
    ASSUME NEW T, T \subseteq Nat, T # {}
    PROVE  \E x \in T : \A y \in T : x <= y
<1>. DEFINE R == OpToRel(<, Nat)
<1>1. \E x \in T : \A y \in T : ~(<<y, x>> \in R)
  <2>1. IsWellFoundedOn(R, Nat)
    BY NatLessThanWellFounded
  <2>. HIDE DEF R
  <2>2. QED  BY <2>1, WFMin
<1>2. \A x, y \in Nat : y < x => <<y, x>> \in R
  BY DEF OpToRel
<1>. HIDE DEF R
<1>3. PICK x \in T : \A y \in T : ~(<<y, x>> \in R)
  BY <1>1
<1>4. ASSUME NEW y \in T PROVE x <= y
  <2>1. x \in Nat /\ y \in Nat
    OBVIOUS
  <2>2. ~(y < x)
    BY <1>2, <1>3, <2>1
  <2>3. QED  BY <2>1, <2>2
<1>5. QED  BY <1>4

\* A set with 0 and the successors of its elements holds all natural numbers.
LEMMA Induct ==
    ASSUME NEW S, S \subseteq Nat, 0 \in S, \A n \in Nat : n \in S => n + 1 \in S
    PROVE  S = Nat
<1>1. SUFFICES ASSUME Nat \ S # {} PROVE FALSE
  OBVIOUS
<1>. DEFINE T == Nat \ S
<1>2. PICK x \in T : \A y \in T : x <= y
  <2>1. T \subseteq Nat /\ T # {}
    BY <1>1
  <2>. HIDE DEF T
  <2>2. QED  BY <2>1, LeastNat
<1>3. x \in Nat /\ x # 0 /\ x - 1 \in Nat /\ x = (x - 1) + 1 /\ ~(x <= x - 1)
  OBVIOUS
<1>4. x - 1 \in S
  BY <1>2, <1>3
<1>5. QED  BY <1>2, <1>3, <1>4

\* The variable after none of the calls, and after one more.
LEMMA VariableStep ==
    ASSUME NEW d, NEW calls, NEW args, Len(d.body) \in Nat
    PROVE  LET v == Variable(d, calls, args)
           IN  /\ v[0] = None
               /\ \A k \in 1 .. Len(d.body) :
                     v[k] = Assigned(v[k - 1], d.body[k], calls[CallOf(d.body[k], args)])
<1>. DEFINE E(k, v) == Assigned(v, d.body[k], calls[CallOf(d.body[k], args)])
            Solves(g, n) == g = [k \in 0 .. n |-> IF k = 0 THEN None ELSE E(k, g[k - 1])]
            S == {n \in Nat : \E g : Solves(g, n)}
            N == Len(d.body)
<1>1. S = Nat
  <2>. HIDE DEF E
  <2>1. 0 \in S
    <3>. DEFINE g == [k \in 0 .. 0 |-> None]
    <3>1. Solves(g, 0)
      OBVIOUS
    <3>2. QED  BY <3>1
  <2>2. ASSUME NEW n \in Nat, n \in S PROVE n + 1 \in S
    <3>1. PICK g : Solves(g, n)
      BY <2>2
    <3>. DEFINE gg == [k \in 0 .. n + 1 |-> IF k <= n THEN g[k] ELSE E(n + 1, g[n])]
    <3>2. \A k \in 0 .. n : gg[k] = g[k]
      OBVIOUS
    <3>3. ASSUME NEW k \in 0 .. n + 1
          PROVE  gg[k] = IF k = 0 THEN None ELSE E(k, gg[k - 1])
      <4>1. CASE k = 0
        BY <3>1, <3>2, <4>1
      <4>2. CASE k \in 1 .. n
        <5>1. g[k] = E(k, g[k - 1])
          BY <3>1, <4>2
        <5>2. k \in 0 .. n /\ k - 1 \in 0 .. n /\ k # 0
          BY <4>2
        <5>. HIDE DEF gg
        <5>3. QED  BY <3>2, <5>1, <5>2
      <4>3. CASE k = n + 1
        <5>1. gg[k] = E(n + 1, g[n])
          BY <4>3
        <5>2. k - 1 = n /\ n \in 0 .. n /\ k # 0
          BY <4>3
        <5>. HIDE DEF gg
        <5>3. QED  BY <3>2, <4>3, <5>1, <5>2
      <4>4. QED  BY <4>1, <4>2, <4>3
    <3>4. gg = [k \in 0 .. n + 1 |-> gg[k]]
      OBVIOUS
    <3>. HIDE DEF gg
    <3>5. Solves(gg, n + 1)
      BY <3>3, <3>4
    <3>6. QED  BY <3>5
  <2>. HIDE DEF S
  <2>3. S \subseteq Nat
    BY DEF S
  <2>4. QED  BY <2>1, <2>2, <2>3, Induct
<1>2. Variable(d, calls, args) = CHOOSE g : Solves(g, N)
  BY DEF Variable
<1>. HIDE DEF E
<1>3. Solves(Variable(d, calls, args), N)
  <2>1. \E g : Solves(g, N)
    BY <1>1
  <2>. HIDE DEF Solves
  <2>2. QED  BY <1>2, <2>1
<1>4. N \in Nat
  OBVIOUS
<1>. DEFINE v == Variable(d, calls, args)
<1>. HIDE DEF v, N
<1>5. v[0] = None /\ \A k \in 1 .. N : v[k] = E(k, v[k - 1])
  BY <1>3, <1>4 DEF v
<1>6. QED  BY <1>5 DEF v, N, E

\* What calls give when there is no frame for them, and one frame deeper.
LEMMA DirectStep ==
    ASSUME NEW h, MaxDepth \in Nat
    PROVE  LET D == Direct(h)
           IN  /\ \A x \in Callees \X Seq(Fields) : D[0][x] = Traps
               /\ \A n \in 1 .. MaxDepth : \A x \in Callees \X Seq(Fields) :
                     D[n][x] = Given(h, D[n - 1], x[1], x[2])
<1>. DEFINE X == Callees \X Seq(Fields)
            E0 == [x \in X |-> Traps]
            E(c) == [x \in X |-> Given(h, c, x[1], x[2])]
            F(n, g) == [x \in X |-> IF n = 0 THEN Traps ELSE Given(h, g[n - 1], x[1], x[2])]
            Solves(g, m) == g = [n \in 0 .. m |-> F(n, g)]
            S == {m \in Nat : \E g : Solves(g, m)}
<1>1. ASSUME NEW n \in Nat, NEW g
      PROVE  F(n, g) = IF n = 0 THEN E0 ELSE E(g[n - 1])
  BY DEF F
<1>2. S = Nat
  <2>. HIDE DEF F, E0, E
  <2>1. 0 \in S
    <3>. DEFINE g == [n \in 0 .. 0 |-> E0]
    <3>1. \A n \in 0 .. 0 : g[n] = F(n, g)
      <4>1. g[0] = E0 /\ F(0, g) = E0
        BY <1>1
      <4>. HIDE DEF g
      <4>2. QED  BY <4>1
    <3>2. g = [n \in 0 .. 0 |-> g[n]]
      OBVIOUS
    <3>. HIDE DEF g
    <3>3. Solves(g, 0)
      BY <3>1, <3>2
    <3>4. QED  BY <3>3
  <2>2. ASSUME NEW n \in Nat, n \in S PROVE n + 1 \in S
    <3>1. PICK g : Solves(g, n)
      BY <2>2
    <3>. DEFINE gg == [k \in 0 .. n + 1 |-> IF k <= n THEN g[k] ELSE E(g[n])]
    <3>2. \A k \in 0 .. n : gg[k] = g[k]
      OBVIOUS
    <3>3. ASSUME NEW k \in 0 .. n + 1
          PROVE  gg[k] = IF k = 0 THEN E0 ELSE E(gg[k - 1])
      <4>1. \A j \in 0 .. n : g[j] = IF j = 0 THEN E0 ELSE E(g[j - 1])
        BY <1>1, <3>1
      <4>2. CASE k = 0
        <5>1. 0 \in 0 .. n
          OBVIOUS
        <5>. HIDE DEF gg
        <5>2. QED  BY <3>2, <4>1, <4>2, <5>1
      <4>3. CASE k \in 1 .. n
        <5>1. k \in 0 .. n /\ k - 1 \in 0 .. n /\ k # 0
          BY <4>3
        <5>. HIDE DEF gg
        <5>2. QED  BY <3>2, <4>1, <5>1
      <4>4. CASE k = n + 1
        <5>1. gg[k] = E(g[n])
          BY <4>4
        <5>2. k - 1 = n /\ n \in 0 .. n /\ k # 0
          BY <4>4
        <5>. HIDE DEF gg
        <5>3. QED  BY <3>2, <4>4, <5>1, <5>2
      <4>5. QED  BY <4>2, <4>3, <4>4
    <3>4. gg = [k \in 0 .. n + 1 |-> gg[k]]
      OBVIOUS
    <3>. HIDE DEF gg
    <3>5. \A k \in 0 .. n + 1 : gg[k] = F(k, gg)
      BY <1>1, <3>3
    <3>6. Solves(gg, n + 1)
      BY <3>4, <3>5
    <3>7. QED  BY <3>6
  <2>. HIDE DEF S
  <2>3. S \subseteq Nat
    BY DEF S
  <2>4. QED  BY <2>1, <2>2, <2>3, Induct
<1>3. Direct(h) = CHOOSE g : Solves(g, MaxDepth)
  BY DEF Direct
<1>. DEFINE D == Direct(h)
<1>4. Solves(D, MaxDepth)
  <2>1. \E g : Solves(g, MaxDepth)
    BY <1>2
  <2>. HIDE DEF Solves
  <2>2. QED  BY <1>3, <2>1
<1>. HIDE DEF D, F
<1>5. \A n \in 0 .. MaxDepth : D[n] = IF n = 0 THEN E0 ELSE E(D[n - 1])
  <2>. HIDE DEF E0, E
  <2>1. QED  BY <1>1, <1>4
<1>6. ASSUME NEW x \in X
      PROVE  D[0][x] = Traps /\ \A n \in 1 .. MaxDepth : D[n][x] = Given(h, D[n - 1], x[1], x[2])
  <2>1. E0[x] = Traps /\ \A c : E(c)[x] = Given(h, c, x[1], x[2])
    OBVIOUS
  <2>. HIDE DEF E0, E, X
  <2>2. D[0] = E0 /\ \A n \in 1 .. MaxDepth : D[n] = E(D[n - 1])
    <3>1. 0 \in 0 .. MaxDepth /\ \A n \in 1 .. MaxDepth : n \in 0 .. MaxDepth /\ n # 0
      OBVIOUS
    <3>2. QED  BY <1>5, <3>1
  <2>3. QED  BY <2>1, <2>2
<1>. HIDE DEF E0, E
<1>7. QED  BY <1>6 DEF D

-----------------------------------------------------------------------------
(* Frames *)

FrameFields ==
    {"contract", "action", "data", "pc", "args", "next", "var", "slot", "result", "live"}

\* The buffers of a frame's data and of what it passes to the call it is at, when
\* they are too large for the stack.
Own(f) == Buffer("data", Len(f.data))

Sent(h, f) == Buffer("call", 1 + Len(Passed(h[f.contract][f.action].body[f.next], f.args)))

\* A frame below which there is room for m - 1 more has got from its calls what
\* calls of functions give.
FrameOK(h, m, f) ==
    LET d == h[f.contract][f.action]
        below == Direct(h)[m - 1]
    IN  /\ f = [x \in FrameFields |-> f[x]]
        /\ f.contract \in Contracts /\ f.action \in Actions /\ f.data \in Seq(Fields)
        /\ f.pc \in {"enter", "body", "called", "return"}
        /\ f.pc = "enter" =>
              f.next = 1 /\ f.var = <<>> /\ f.result = <<>> /\ f.live = {}
        /\ f.pc \in {"body", "called"} =>
              /\ f.action \in DOMAIN h[f.contract]
              /\ d.arity <= Len(f.data) /\ f.args = SubSeq(f.data, 1, d.arity)
              /\ f.next \in 1 .. Len(d.body) + 1
              /\ Variable(d, below, f.args)[f.next - 1] = Value(f.var)
              /\ f.live \subseteq Own(f) \cup Sent(h, f)
        /\ f.pc = "called" =>
              /\ f.next <= Len(d.body)
              /\ f.slot = below[CallOf(d.body[f.next], f.args)].value
        /\ f.pc = "return" =>
              /\ Value(f.result) = Direct(h)[m][<<Callee(f), f.data>>]
              /\ f.live \subseteq {"result"}

\* Frame g is of the call that frame f is at.
Waits(h, f, g) ==
    LET d == h[f.contract][f.action]
    IN  /\ f.pc = "body" /\ f.next <= Len(d.body)
        /\ <<Callee(g), g.data>> = CallOf(d.body[f.next], f.args)

\* What is known of a handler.
LEMMA HandlerTyped ==
    ASSUME NEW h \in Programs, NEW c \in Contracts, NEW a \in DOMAIN h[c]
    PROVE  /\ h[c][a].arity \in Nat /\ h[c][a].returns \in Nat
           /\ h[c][a].body \in Seq(CallSites) /\ Len(h[c][a].body) \in Nat
           /\ \A k \in 1 .. Len(h[c][a].body) :
                 /\ h[c][a].body[k] \in CallSites
                 /\ h[c][a].body[k].to \in Contracts /\ h[c][a].body[k].action \in Actions
                 /\ h[c][a].body[k].passes \in 0 .. 2 /\ h[c][a].body[k].expects \in Nat
<1>1. h[c][a].arity \in Nat /\ h[c][a].returns \in Nat /\ h[c][a].body \in Seq(CallSites)
  BY ProgramsAssumption
<1>. DEFINE body == h[c][a].body
<1>. HIDE DEF body
<1>2. Len(body) \in Nat /\ \A k \in 1 .. Len(body) : body[k] \in CallSites
  BY <1>1 DEF body
<1>3. \A x \in CallSites : /\ x.to \in Contracts /\ x.action \in Actions
                           /\ x.passes \in 0 .. 2 /\ x.expects \in Nat
  BY DEF CallSites
<1>4. QED  BY <1>1, <1>2, <1>3 DEF body

\* What is passed to a call is of fields, and the call is one that Direct knows of.
LEMMA CallTyped ==
    ASSUME NEW site \in CallSites, NEW data \in Seq(Fields), NEW n \in Nat, n <= Len(data)
    PROVE  /\ Passed(site, SubSeq(data, 1, n)) \in Seq(Fields)
           /\ CallOf(site, SubSeq(data, 1, n)) \in Callees \X Seq(Fields)
<1>. DEFINE args == SubSeq(data, 1, n)
            all == args \o <<"x", "y">>
<1>1. args \in Seq(Fields) /\ Len(args) \in Nat
  <2>1. 1 \in 1 .. Len(data) + 1 /\ n \in 1 - 1 .. Len(data)
    OBVIOUS
  <2>2. args \in Seq(Fields)
    BY <2>1, SubSeqProperties
  <2>3. QED  BY <2>2
<1>. HIDE DEF args
<1>2. <<"x", "y">> \in Seq(Fields) /\ Len(<<"x", "y">>) = 2
  <2>1. "x" \in Fields /\ "y" \in Fields
    BY TransactionsAssumption
  <2>2. QED  BY <2>1
<1>3. all \in Seq(Fields) /\ Len(all) = Len(args) + 2
  <2>. DEFINE more == <<"x", "y">>
  <2>. HIDE DEF more
  <2>1. args \o more \in Seq(Fields) /\ Len(args \o more) = Len(args) + Len(more)
    BY <1>1, <1>2 DEF more
  <2>2. QED  BY <1>2, <2>1 DEF more
<1>. HIDE DEF all
<1>4. site.passes \in 0 .. 2 /\ site.to \in Contracts /\ site.action \in Actions
  BY DEF CallSites
<1>5. SubSeq(all, 1, site.passes) \in Seq(Fields)
  <2>1. 1 \in 1 .. Len(all) + 1 /\ site.passes \in 1 - 1 .. Len(all)
    BY <1>1, <1>3, <1>4
  <2>2. QED  BY <1>3, <2>1, SubSeqProperties
<1>6. Passed(site, args) \in Seq(Fields)
  BY <1>5 DEF Passed, all
<1>7. CallOf(site, args) \in Callees \X Seq(Fields)
  BY <1>4, <1>6 DEF CallOf, Callees
<1>8. QED  BY <1>6, <1>7 DEF args

\* What a frame gives, from what its calls give.
LEMMA DirectAt ==
    ASSUME NEW h, NEW m \in 1 .. MaxDepth, NEW f,
           f.contract \in Contracts, f.action \in Actions, f.data \in Seq(Fields)
    PROVE  Direct(h)[m][<<Callee(f), f.data>>] = Given(h, Direct(h)[m - 1], Callee(f), f.data)
<1>. DEFINE x == <<Callee(f), f.data>>
<1>1. x \in Callees \X Seq(Fields) /\ x[1] = Callee(f) /\ x[2] = f.data
  BY DEF Callee, Callees
<1>. HIDE DEF x
<1>2. MaxDepth \in Nat
  BY TransactionsAssumption
<1>3. Direct(h)[m][x] = Given(h, Direct(h)[m - 1], x[1], x[2])
  BY <1>1, <1>2, DirectStep
<1>4. QED  BY <1>1, <1>3 DEF x

\* A frame that traps gives nothing.
LEMMA TrapsGiveNothing ==
    ASSUME NEW h, NEW m \in 0 .. MaxDepth, NEW x \in Callees \X Seq(Fields),
           Direct(h)[m][x].traps
    PROVE  Direct(h)[m][x].value = <<>>
<1>1. MaxDepth \in Nat
  BY TransactionsAssumption
<1>2. CASE m = 0
  BY <1>1, <1>2, DirectStep DEF Traps
<1>3. CASE m # 0
  <2>1. m \in 1 .. MaxDepth
    BY <1>3
  <2>2. Direct(h)[m][x] = Given(h, Direct(h)[m - 1], x[1], x[2])
    BY <1>1, <2>1, DirectStep
  <2>. DEFINE g == Direct(h)[m][x]
  <2>3. g = None \/ g = Traps \/ \E w : g = Value(w)
    BY <2>2 DEF Given
  <2>4. g.traps
    OBVIOUS
  <2>. HIDE DEF g
  <2>5. g.value = <<>>
    <3>1. \A w : Value(w).traps = FALSE /\ None.value = <<>> /\ Traps.value = <<>>
      BY DEF None, Traps, Value
    <3>2. QED  BY <2>3, <2>4, <3>1
  <2>6. QED  BY <2>5 DEF g
<1>4. QED  BY <1>2, <1>3

\* A call that traps in what it reads is never made good by a later one.
LEMMA TrapsStay ==
    ASSUME NEW d, NEW calls, NEW args, Len(d.body) \in Nat, NEW k \in 0 .. Len(d.body),
           Variable(d, calls, args)[k].traps
    PROVE  Variable(d, calls, args)[Len(d.body)].traps
<1>. DEFINE v == Variable(d, calls, args)
            S == {n \in Nat : k + n <= Len(d.body) => v[k + n].traps}
<1>1. ASSUME NEW j \in 1 .. Len(d.body), v[j - 1].traps PROVE v[j].traps
  BY <1>1, VariableStep DEF Assigned
<1>. HIDE DEF v
<1>2. S = Nat
  <2>1. 0 \in S
    BY DEF v
  <2>2. ASSUME NEW n \in Nat, n \in S PROVE n + 1 \in S
    <3>1. CASE k + (n + 1) <= Len(d.body)
      <4>1. k + (n + 1) \in 1 .. Len(d.body) /\ (k + (n + 1)) - 1 = k + n /\ k + n <= Len(d.body)
        BY <3>1
      <4>2. v[k + n].traps
        BY <2>2, <4>1
      <4>3. QED  BY <1>1, <4>1, <4>2
    <3>2. QED  BY <3>1
  <2>. HIDE DEF S
  <2>3. S \subseteq Nat
    BY DEF S
  <2>4. QED  BY <2>1, <2>2, <2>3, Induct
<1>. DEFINE n == Len(d.body) - k
<1>3. n \in Nat /\ k + n = Len(d.body) /\ k + n <= Len(d.body)
  OBVIOUS
<1>. HIDE DEF n
<1>4. v[k + n].traps
  BY <1>2, <1>3
<1>5. QED  BY <1>3, <1>4 DEF v

-----------------------------------------------------------------------------
(* What each action makes of the innermost frame *)

\* The action is not one of the contract's, the data is too short, or the body is next.
LEMMA Entered ==
    ASSUME NEW h \in Programs, NEW m \in 1 .. MaxDepth, NEW f, FrameOK(h, m, f), f.pc = "enter"
    PROVE  LET d == h[f.contract][f.action]
           IN  /\ f.action \notin DOMAIN h[f.contract] =>
                     FrameOK(h, m, [f EXCEPT !.pc = "return"])
               /\ f.action \in DOMAIN h[f.contract] /\ Len(f.data) < d.arity =>
                     Direct(h)[m][<<Callee(f), f.data>>] = Traps
               /\ f.action \in DOMAIN h[f.contract] /\ ~(Len(f.data) < d.arity) =>
                     FrameOK(h, m, [f EXCEPT !.pc = "body",
                                             !.args = SubSeq(f.data, 1, d.arity),
                                             !.live = Buffer("data", Len(f.data))])
<1>. DEFINE d == h[f.contract][f.action]
<1>1. /\ f = [x \in FrameFields |-> f[x]]
      /\ f.contract \in Contracts /\ f.action \in Actions /\ f.data \in Seq(Fields)
      /\ f.next = 1 /\ f.var = <<>> /\ f.result = <<>> /\ f.live = {}
  BY DEF FrameOK
<1>2. Direct(h)[m][<<Callee(f), f.data>>] = Given(h, Direct(h)[m - 1], Callee(f), f.data)
  BY <1>1, DirectAt
<1>3. Callee(f).contract = f.contract /\ Callee(f).action = f.action
  BY DEF Callee
<1>4. ASSUME f.action \notin DOMAIN h[f.contract]
      PROVE  FrameOK(h, m, [f EXCEPT !.pc = "return"])
  <2>. DEFINE g == [f EXCEPT !.pc = "return"]
  <2>1. /\ g = [x \in FrameFields |-> g[x]]
        /\ g.contract = f.contract /\ g.action = f.action /\ g.data = f.data
        /\ g.pc = "return" /\ g.result = <<>> /\ g.live = {}
    BY <1>1 DEF FrameFields
  <2>2. Direct(h)[m][<<Callee(f), f.data>>] = Value(<<>>)
    BY <1>2, <1>3, <1>4 DEF Given, None, Value
  <2>3. Callee(g) = Callee(f)
    BY <2>1 DEF Callee
  <2>. HIDE DEF g
  <2>4. FrameOK(h, m, g)
    BY <1>1, <2>1, <2>2, <2>3 DEF FrameOK
  <2>5. QED  BY <2>4 DEF g
<1>5. ASSUME f.action \in DOMAIN h[f.contract], Len(f.data) < d.arity
      PROVE  Direct(h)[m][<<Callee(f), f.data>>] = Traps
  BY <1>2, <1>3, <1>5 DEF Given
<1>6. ASSUME f.action \in DOMAIN h[f.contract], ~(Len(f.data) < d.arity)
      PROVE  FrameOK(h, m, [f EXCEPT !.pc = "body", !.args = SubSeq(f.data, 1, d.arity),
                                     !.live = Buffer("data", Len(f.data))])
  <2>. DEFINE args == SubSeq(f.data, 1, d.arity)
              live == Buffer("data", Len(f.data))
              g == [f EXCEPT !.pc = "body", !.args = args, !.live = live]
  <2>1. live = Own(f)
    BY DEF Own
  <2>2. d.arity \in Nat /\ d.arity <= Len(f.data) /\ Len(d.body) \in Nat
    <3>1. d.arity \in Nat /\ Len(d.body) \in Nat
      BY <1>1, <1>6, HandlerTyped
    <3>2. Len(f.data) \in Nat
      BY <1>1
    <3>3. QED  BY <1>6, <3>1, <3>2
  <2>. HIDE DEF args, live
  <2>3. /\ g = [x \in FrameFields |-> g[x]]
        /\ g.contract = f.contract /\ g.action = f.action /\ g.data = f.data
        /\ g.pc = "body" /\ g.args = args /\ g.live = live /\ g.next = 1 /\ g.var = <<>>
    BY <1>1 DEF FrameFields
  <2>4. Variable(d, Direct(h)[m - 1], args)[0] = Value(<<>>)
    BY <2>2, VariableStep DEF None, Value
  <2>. HIDE DEF g
  <2>5. /\ g.next \in 1 .. Len(d.body) + 1
        /\ Variable(d, Direct(h)[m - 1], g.args)[g.next - 1] = Value(g.var)
    BY SMTT(30), <2>2, <2>3, <2>4
  <2>. HIDE DEF d
  <2>6. Own(g) = Own(f)
    BY <2>3 DEF Own
  <2>7. FrameOK(h, m, g)
    BY <1>1, <1>6, <2>1, <2>2, <2>3, <2>5, <2>6 DEF FrameOK, args, d
  <2>8. QED  BY <2>7 DEF g, args, live, d
<1>7. QED  BY <1>4, <1>5, <1>6

\* The frame of a call, or the host's refusal when it would be one too many.
LEMMA Called ==
    ASSUME NEW h \in Programs, NEW m \in 1 .. MaxDepth, NEW f, FrameOK(h, m, f), f.pc = "body",
           f.next <= Len(h[f.contract][f.action].body), NEW live, live \subseteq Own(f) \cup Sent(h, f)
    PROVE  LET site == h[f.contract][f.action].body[f.next]
               g == Frame(site.to, site.action, Passed(site, f.args))
           IN  /\ m = 1 => FrameOK(h, m, [f EXCEPT !.live = live, !.pc = "called", !.slot = <<>>])
               /\ m # 1 => FrameOK(h, m - 1, g)
               /\ FrameOK(h, m, [f EXCEPT !.live = live])
               /\ Waits(h, [f EXCEPT !.live = live], g)
<1>. DEFINE d == h[f.contract][f.action]
            site == d.body[f.next]
            below == Direct(h)[m - 1]
            data == Passed(site, f.args)
            g == Frame(site.to, site.action, data)
<1>1. /\ f = [x \in FrameFields |-> f[x]]
      /\ f.contract \in Contracts /\ f.action \in Actions /\ f.data \in Seq(Fields)
      /\ f.action \in DOMAIN h[f.contract]
      /\ d.arity <= Len(f.data) /\ f.args = SubSeq(f.data, 1, d.arity)
      /\ f.next \in 1 .. Len(d.body) + 1
      /\ Variable(d, below, f.args)[f.next - 1] = Value(f.var)
  BY DEF FrameOK
<1>2. d.arity \in Nat /\ Len(d.body) \in Nat /\ site \in CallSites
      /\ site.to \in Contracts /\ site.action \in Actions
  <2>1. d.arity \in Nat /\ Len(d.body) \in Nat
    BY <1>1, HandlerTyped
  <2>2. f.next \in 1 .. Len(d.body)
    <3>. DEFINE n == Len(d.body)
    <3>1. f.next \in 1 .. n + 1 /\ f.next <= n /\ n \in Nat
      BY <1>1, <2>1
    <3>. HIDE DEF n
    <3>2. f.next \in 1 .. n
      BY <3>1
    <3>3. QED  BY <3>2 DEF n
  <2>3. QED  BY <1>1, <2>1, <2>2, HandlerTyped
<1>3. data \in Seq(Fields) /\ CallOf(site, f.args) \in Callees \X Seq(Fields)
  <2>. DEFINE n == d.arity
  <2>1. n \in Nat /\ n <= Len(f.data) /\ f.args = SubSeq(f.data, 1, n)
    BY <1>1, <1>2
  <2>. HIDE DEF n, site
  <2>2. /\ Passed(site, SubSeq(f.data, 1, n)) \in Seq(Fields)
        /\ CallOf(site, SubSeq(f.data, 1, n)) \in Callees \X Seq(Fields)
    BY <1>1, <1>2, <2>1, CallTyped
  <2>3. QED  BY <2>1, <2>2
<1>. HIDE DEF d, site, below, data
<1>4. FrameOK(h, m, [f EXCEPT !.live = live]) /\ Waits(h, [f EXCEPT !.live = live], g)
  <2>. DEFINE ff == [f EXCEPT !.live = live]
  <2>1. /\ ff = [x \in FrameFields |-> ff[x]]
        /\ ff.contract = f.contract /\ ff.action = f.action /\ ff.data = f.data
        /\ ff.pc = "body" /\ ff.args = f.args /\ ff.next = f.next /\ ff.var = f.var
        /\ ff.live = live
    BY <1>1 DEF FrameFields
  <2>. HIDE DEF ff
  <2>2. Own(ff) = Own(f) /\ Sent(h, ff) = Sent(h, f)
    BY <2>1 DEF Own, Sent
  <2>3. FrameOK(h, m, ff)
    BY <1>1, <2>1, <2>2 DEF FrameOK, d, below
  <2>4. <<Callee(g), g.data>> = CallOf(site, f.args)
    BY DEF Callee, Frame, CallOf, data
  <2>5. Waits(h, ff, g)
    BY <2>1, <2>4 DEF Waits, d, site
  <2>6. QED  BY <2>3, <2>5 DEF ff
<1>5. ASSUME m # 1 PROVE FrameOK(h, m - 1, g)
  <2>1. /\ g = [x \in FrameFields |-> g[x]]
        /\ g.contract = site.to /\ g.action = site.action /\ g.data = data
        /\ g.pc = "enter" /\ g.next = 1 /\ g.var = <<>> /\ g.result = <<>> /\ g.live = {}
    BY DEF Frame, FrameFields
  <2>. HIDE DEF g
  <2>2. QED  BY <1>2, <1>3, <2>1 DEF FrameOK
<1>6. ASSUME m = 1
      PROVE  FrameOK(h, m, [f EXCEPT !.live = live, !.pc = "called", !.slot = <<>>])
  <2>. DEFINE ff == [f EXCEPT !.live = live, !.pc = "called", !.slot = <<>>]
  <2>1. /\ ff = [x \in FrameFields |-> ff[x]]
        /\ ff.contract = f.contract /\ ff.action = f.action /\ ff.data = f.data
        /\ ff.pc = "called" /\ ff.args = f.args /\ ff.next = f.next /\ ff.var = f.var
        /\ ff.live = live /\ ff.slot = <<>>
    BY <1>1 DEF FrameFields
  <2>2. below[CallOf(site, f.args)].value = <<>>
    <3>1. MaxDepth \in Nat /\ m - 1 = 0
      BY <1>6, TransactionsAssumption
    <3>2. Direct(h)[0][CallOf(site, f.args)] = Traps
      BY <1>3, <3>1, DirectStep
    <3>3. QED  BY <3>1, <3>2 DEF below, Traps
  <2>. HIDE DEF ff
  <2>3. Own(ff) = Own(f) /\ Sent(h, ff) = Sent(h, f)
    BY <2>1 DEF Own, Sent
  <2>4. FrameOK(h, m, ff)
    BY <1>1, <2>1, <2>2, <2>3 DEF FrameOK, d, below, site
  <2>5. QED  BY <2>4 DEF ff
<1>7. QED  BY <1>4, <1>5, <1>6 DEF d, site, data

\* What is known of a frame that is in its body or has made a call.
InsideOK(h, m, f) ==
    LET d == h[f.contract][f.action]
        below == Direct(h)[m - 1]
        v == Variable(d, below, f.args)
    IN  /\ f = [x \in FrameFields |-> f[x]]
        /\ f.contract \in Contracts /\ f.action \in Actions /\ f.data \in Seq(Fields)
        /\ f.action \in DOMAIN h[f.contract] /\ Len(d.body) \in Nat
        /\ f.next \in 1 .. Len(d.body) + 1 /\ v[f.next - 1] = Value(f.var)
        /\ f.live \subseteq Own(f) \cup Sent(h, f)
        /\ \A k \in 1 .. Len(d.body) :
              /\ d.body[k].expects \in Nat
              /\ CallOf(d.body[k], f.args) \in Callees \X Seq(Fields)
              /\ v[k] = Assigned(v[k - 1], d.body[k], below[CallOf(d.body[k], f.args)])
        /\ Direct(h)[m][<<Callee(f), f.data>>] =
              IF v[Len(d.body)].traps THEN Traps
              ELSE Value(Returned(d, f, f.args, v[Len(d.body)].value))

LEMMA Inside ==
    ASSUME NEW h \in Programs, NEW m \in 1 .. MaxDepth, NEW f, FrameOK(h, m, f),
           f.pc \in {"body", "called"}
    PROVE  InsideOK(h, m, f)
<1>. DEFINE d == h[f.contract][f.action]
            below == Direct(h)[m - 1]
            v == Variable(d, below, f.args)
            calls(k) == CallOf(d.body[k], f.args)
<1>1. f.contract \in Contracts /\ f.action \in Actions /\ f.data \in Seq(Fields)
  BY DEF FrameOK
<1>2. /\ f = [x \in FrameFields |-> f[x]]
      /\ f.action \in DOMAIN h[f.contract]
      /\ d.arity <= Len(f.data) /\ f.args = SubSeq(f.data, 1, d.arity)
      /\ f.next \in 1 .. Len(d.body) + 1 /\ v[f.next - 1] = Value(f.var)
      /\ f.live \subseteq Own(f) \cup Sent(h, f)
  BY DEF FrameOK
<1>3. /\ d.arity \in Nat /\ Len(d.body) \in Nat
      /\ \A k \in 1 .. Len(d.body) : d.body[k] \in CallSites /\ d.body[k].expects \in Nat
  BY <1>1, <1>2, HandlerTyped
<1>4. ASSUME NEW k \in 1 .. Len(d.body)
      PROVE  calls(k) \in Callees \X Seq(Fields)
  <2>. DEFINE n == d.arity
              site == d.body[k]
  <2>1. n \in Nat /\ n <= Len(f.data) /\ f.args = SubSeq(f.data, 1, n) /\ site \in CallSites
    BY <1>2, <1>3
  <2>. HIDE DEF n, site
  <2>2. CallOf(site, SubSeq(f.data, 1, n)) \in Callees \X Seq(Fields)
    BY <1>1, <2>1, CallTyped
  <2>3. QED  BY <2>1, <2>2 DEF site
<1>5. \A k \in 1 .. Len(d.body) : v[k] = Assigned(v[k - 1], d.body[k], below[calls(k)])
  <2>. DEFINE args == f.args
  <2>. HIDE DEF below, d, args
  <2>1. LET u == Variable(d, below, args)
        IN  \A k \in 1 .. Len(d.body) :
               u[k] = Assigned(u[k - 1], d.body[k], below[CallOf(d.body[k], args)])
    BY <1>3, VariableStep
  <2>2. QED  BY <2>1 DEF args
<1>6. Direct(h)[m][<<Callee(f), f.data>>] =
         IF v[Len(d.body)].traps THEN Traps
         ELSE Value(Returned(d, f, f.args, v[Len(d.body)].value))
  <2>1. Direct(h)[m][<<Callee(f), f.data>>] = Given(h, below, Callee(f), f.data)
    BY <1>1, DirectAt
  <2>2. Callee(f).contract = f.contract /\ Callee(f).action = f.action
    BY DEF Callee
  <2>3. ASSUME NEW w PROVE Returned(d, Callee(f), f.args, w) = Returned(d, f, f.args, w)
    <3>. DEFINE c == Callee(f)
                args == f.args
                n == d.returns
    <3>1. c.contract = f.contract /\ c.action = f.action
      BY <2>2
    <3>. HIDE DEF c, args, n
    <3>2. [j \in 1 .. n |-> <<c.contract, c.action, j, args, w>>]
            = [j \in 1 .. n |-> <<f.contract, f.action, j, args, w>>]
      BY <3>1
    <3>3. QED  BY <3>2 DEF Returned, c, args, n
  <2>4. ~(Len(f.data) < d.arity)
    <3>. DEFINE n == d.arity
                l == Len(f.data)
    <3>1. n \in Nat /\ n <= l
      BY <1>2, <1>3
    <3>2. l \in Nat
      BY <1>1
    <3>. HIDE DEF n, l
    <3>3. ~(l < n)
      BY <3>1, <3>2
    <3>4. QED  BY <3>3 DEF n, l
  <2>. HIDE DEF below
  <2>5. QED  BY <1>2, <2>1, <2>2, <2>3, <2>4 DEF Given
<1>7. QED  BY <1>1, <1>2, <1>3, <1>4, <1>5, <1>6 DEF InsideOK

\* The call's result is read, is not there, is not asked for or is too short.
LEMMA Collected ==
    ASSUME NEW h \in Programs, NEW m \in 1 .. MaxDepth, NEW f, FrameOK(h, m, f), f.pc = "called"
    PROVE  LET expects == h[f.contract][f.action].body[f.next].expects
               read == expects > 0 /\ f.slot # <<>>
               answer == IF read THEN Buffer("answer", Len(f.slot)) ELSE {}
               g == [f EXCEPT !.pc = "body", !.next = @ + 1,
                              !.var = IF read THEN SubSeq(f.slot, 1, expects) ELSE @,
                              !.live = (@ \cup answer) \ (answer \cup Sent(h, f))]
           IN  /\ read /\ Len(f.slot) < expects =>
                     Direct(h)[m][<<Callee(f), f.data>>] = Traps
               /\ ~(read /\ Len(f.slot) < expects) =>
                     FrameOK(h, m, g) /\ g.live \subseteq Own(g)
<1>. DEFINE d == h[f.contract][f.action]
            k == f.next
            site == d.body[k]
            expects == site.expects
            read == expects > 0 /\ f.slot # <<>>
            below == Direct(h)[m - 1]
            r == below[CallOf(site, f.args)]
            v == Variable(d, below, f.args)
            answer == IF read THEN Buffer("answer", Len(f.slot)) ELSE {}
            freed == answer \cup Sent(h, f)
<1>1. /\ k \in 1 .. Len(d.body) /\ f.slot = r.value
  <2>1. k <= Len(d.body) /\ f.slot = r.value
    BY DEF FrameOK
  <2>2. k \in 1 .. Len(d.body) + 1 /\ Len(d.body) \in Nat
    BY Inside DEF InsideOK
  <2>. DEFINE n == Len(d.body)
  <2>. HIDE DEF k, n
  <2>3. k \in 1 .. n
    <3>1. k \in 1 .. n + 1 /\ k <= n /\ n \in Nat
      BY <2>1, <2>2 DEF n
    <3>2. QED  BY <3>1
  <2>4. QED  BY <2>1, <2>3 DEF n
<1>2. /\ f = [x \in FrameFields |-> f[x]]
      /\ f.contract \in Contracts /\ f.action \in Actions /\ f.data \in Seq(Fields)
      /\ f.action \in DOMAIN h[f.contract] /\ Len(d.body) \in Nat
      /\ v[k - 1] = Value(f.var) /\ f.live \subseteq Own(f) \cup Sent(h, f)
      /\ expects \in Nat /\ CallOf(site, f.args) \in Callees \X Seq(Fields)
      /\ v[k] = Assigned(v[k - 1], site, r)
      /\ Direct(h)[m][<<Callee(f), f.data>>] =
            IF v[Len(d.body)].traps THEN Traps
            ELSE Value(Returned(d, f, f.args, v[Len(d.body)].value))
  <2>1. InsideOK(h, m, f)
    BY Inside
  <2>2. /\ expects \in Nat /\ CallOf(site, f.args) \in Callees \X Seq(Fields)
        /\ v[k] = Assigned(v[k - 1], site, r)
    BY <1>1, <2>1 DEF InsideOK
  <2>3. QED  BY <2>1, <2>2 DEF InsideOK
<1>3. d.arity <= Len(f.data) /\ f.args = SubSeq(f.data, 1, d.arity)
  BY DEF FrameOK
<1>4. r.traps => r.value = <<>>
  <2>. DEFINE x == CallOf(site, f.args)
  <2>1. m - 1 \in 0 .. MaxDepth
    BY TransactionsAssumption
  <2>2. x \in Callees \X Seq(Fields)
    BY <1>2
  <2>. HIDE DEF x
  <2>3. Direct(h)[m - 1][x].traps => Direct(h)[m - 1][x].value = <<>>
    BY <2>1, <2>2, TrapsGiveNothing
  <2>4. QED  BY <2>3 DEF x
<1>. HIDE DEF d, k, site, below, r, v
<1>5. Value(f.var).traps = FALSE
  BY DEF Value
<1>6. ASSUME read, Len(f.slot) < expects
      PROVE  Direct(h)[m][<<Callee(f), f.data>>] = Traps
  <2>1. v[k] = Traps
    <3>1. expects # 0 /\ r.value # <<>> /\ ~r.traps /\ Len(r.value) < expects
      BY <1>1, <1>2, <1>4, <1>6
    <3>2. QED  BY <1>2, <1>5, <3>1 DEF Assigned
  <2>2. v[Len(d.body)].traps
    <3>1. v[k].traps
      BY <2>1 DEF Traps
    <3>2. k \in 0 .. Len(d.body)
      BY <1>1
    <3>3. QED  BY <1>2, <3>1, <3>2, TrapsStay DEF v
  <2>3. QED  BY <1>2, <2>2
<1>7. ASSUME ~(read /\ Len(f.slot) < expects)
      PROVE  v[k] = Value(IF read THEN SubSeq(f.slot, 1, expects) ELSE f.var)
  <2>1. CASE read
    <3>1. expects # 0 /\ r.value # <<>> /\ ~r.traps /\ ~(Len(r.value) < expects)
      BY <1>1, <1>2, <1>4, <1>7, <2>1
    <3>2. QED  BY <1>1, <1>2, <1>5, <2>1, <3>1 DEF Assigned
  <2>2. CASE ~read
    <3>1. expects = 0 \/ r.value = <<>>
      BY <1>1, <1>2, <2>2
    <3>2. QED  BY <1>2, <2>2, <3>1 DEF Assigned
  <2>3. QED  BY <2>1, <2>2
<1>8. ASSUME ~(read /\ Len(f.slot) < expects)
      PROVE  LET g == [f EXCEPT !.pc = "body", !.next = @ + 1,
                                !.var = IF read THEN SubSeq(f.slot, 1, expects) ELSE @,
                                !.live = (@ \cup answer) \ freed]
             IN  FrameOK(h, m, g) /\ g.live \subseteq Own(g)
  <2>. DEFINE var == IF read THEN SubSeq(f.slot, 1, expects) ELSE f.var
              live == (f.live \cup answer) \ freed
              g == [f EXCEPT !.pc = "body", !.next = @ + 1, !.var = var, !.live = live]
  <2>1. v[k] = Value(var)
    BY <1>7, <1>8
  <2>0. live \subseteq Own(f)
    BY <1>2
  <2>. HIDE DEF var, live
  <2>2. /\ g = [x \in FrameFields |-> g[x]]
        /\ g.contract = f.contract /\ g.action = f.action /\ g.data = f.data
        /\ g.pc = "body" /\ g.args = f.args /\ g.next = k + 1 /\ g.var = var
        /\ g.live = live
    BY <1>2 DEF FrameFields, k
  <2>. HIDE DEF g
  <2>3. k + 1 \in 1 .. Len(d.body) + 1 /\ (k + 1) - 1 = k
    BY <1>1, <1>2
  <2>4. g.next \in 1 .. Len(d.body) + 1 /\ v[g.next - 1] = Value(g.var)
    BY <2>1, <2>2, <2>3
  <2>5. g.live \subseteq Own(g)
    BY <2>0, <2>2 DEF Own
  <2>6. FrameOK(h, m, g)
    BY <1>2, <1>3, <2>2, <2>4, <2>5 DEF FrameOK, d, below, v
  <2>7. QED  BY <2>5, <2>6 DEF g, var, live
<1>9. QED  BY <1>6, <1>8 DEF d, k, site

\* All calls are made: the frame gives what Direct says and keeps its result's buffer.
LEMMA Finished ==
    ASSUME NEW h \in Programs, NEW m \in 1 .. MaxDepth, NEW f, FrameOK(h, m, f), f.pc = "body",
           f.next > Len(h[f.contract][f.action].body), f.live \subseteq Own(f)
    PROVE  LET result == Returned(h[f.contract][f.action], f, f.args, f.var)
           IN  FrameOK(h, m, [f EXCEPT !.pc = "return", !.result = result,
                                       !.live = (@ \cup Buffer("result", Len(result))) \ Own(f)])
<1>. DEFINE d == h[f.contract][f.action]
            v == Variable(d, Direct(h)[m - 1], f.args)
            result == Returned(d, f, f.args, f.var)
            buffer == Buffer("result", Len(result))
            g == [f EXCEPT !.pc = "return", !.result = result, !.live = (@ \cup buffer) \ Own(f)]
<1>1. /\ f = [x \in FrameFields |-> f[x]]
      /\ f.contract \in Contracts /\ f.action \in Actions /\ f.data \in Seq(Fields)
      /\ f.next \in 1 .. Len(d.body) + 1 /\ Len(d.body) \in Nat /\ v[f.next - 1] = Value(f.var)
      /\ Direct(h)[m][<<Callee(f), f.data>>] =
            IF v[Len(d.body)].traps THEN Traps
            ELSE Value(Returned(d, f, f.args, v[Len(d.body)].value))
  <2>1. InsideOK(h, m, f)
    BY Inside
  <2>2. QED  BY <2>1 DEF InsideOK
<1>2. f.next - 1 = Len(d.body)
  <2>. DEFINE n == Len(d.body)
              k == f.next
  <2>1. k \in 1 .. n + 1 /\ k > n /\ n \in Nat
    BY <1>1
  <2>. HIDE DEF n, k
  <2>2. k - 1 = n
    BY <2>1
  <2>3. QED  BY <2>2 DEF n, k
<1>3. Direct(h)[m][<<Callee(f), f.data>>] = Value(result)
  <2>1. Value(f.var).traps = FALSE /\ Value(f.var).value = f.var
    BY DEF Value
  <2>. HIDE DEF d, v
  <2>2. QED  BY <1>1, <1>2, <2>1
<1>4. buffer \subseteq {"result"}
  BY DEF Buffer
<1>. HIDE DEF result, buffer
<1>5. /\ g = [x \in FrameFields |-> g[x]]
      /\ g.contract = f.contract /\ g.action = f.action /\ g.data = f.data
      /\ g.pc = "return" /\ g.result = result /\ g.live = (f.live \cup buffer) \ Own(f)
  BY <1>1 DEF FrameFields
<1>. HIDE DEF g
<1>6. Callee(g) = Callee(f)
  BY <1>5 DEF Callee
<1>7. g.live \subseteq {"result"}
  BY <1>4, <1>5
<1>8. FrameOK(h, m, g)
  BY <1>1, <1>3, <1>5, <1>6, <1>7 DEF FrameOK
<1>9. QED  BY <1>8 DEF g, result, buffer

\* The caller finds what its callee gave.
LEMMA Left ==
    ASSUME NEW h \in Programs, NEW m \in 1 .. MaxDepth, NEW f, FrameOK(h, m, f),
           NEW g, Waits(h, f, g), NEW result,
           result = Direct(h)[m - 1][<<Callee(g), g.data>>].value
    PROVE  FrameOK(h, m, [f EXCEPT !.pc = "called", !.slot = result])
<1>. DEFINE d == h[f.contract][f.action]
            ff == [f EXCEPT !.pc = "called", !.slot = result]
<1>1. f = [x \in FrameFields |-> f[x]] /\ f.pc = "body"
  BY DEF FrameOK, Waits
<1>2. /\ ff = [x \in FrameFields |-> ff[x]]
      /\ ff.contract = f.contract /\ ff.action = f.action /\ ff.data = f.data
      /\ ff.pc = "called" /\ ff.args = f.args /\ ff.next = f.next /\ ff.var = f.var
      /\ ff.live = f.live /\ ff.slot = result
  BY <1>1 DEF FrameFields
<1>3. /\ f.next <= Len(d.body)
      /\ result = Direct(h)[m - 1][CallOf(d.body[f.next], f.args)].value
  BY DEF Waits
<1>. HIDE DEF ff
<1>4. Own(ff) = Own(f) /\ Sent(h, ff) = Sent(h, f)
  BY <1>2 DEF Own, Sent
<1>5. FrameOK(h, m, ff)
  BY <1>1, <1>2, <1>3, <1>4 DEF FrameOK
<1>6. QED  BY <1>5 DEF ff

-----------------------------------------------------------------------------
(* Stacks *)

\* Each frame is right for its depth and waits for the next, and the innermost
\* one holds no buffer of a call.
StackOK(h, s) ==
    /\ \E T : s \in Seq(T)
    /\ Len(s) <= MaxDepth
    /\ \A i \in 1 .. Len(s) : FrameOK(h, MaxDepth - i + 1, s[i])
    /\ \A i \in 1 .. Len(s) : i # Len(s) => Waits(h, s[i], s[i + 1])
    /\ \A i \in 1 .. Len(s) : i = Len(s) /\ s[i].pc = "body" => s[i].live \subseteq Own(s[i])

\* The innermost frame of a stack.
LEMMA TopOK ==
    ASSUME NEW h, NEW s, StackOK(h, s), s # <<>>
    PROVE  LET n == Len(s)
           IN  /\ n \in 1 .. MaxDepth /\ MaxDepth - n + 1 \in 1 .. MaxDepth
               /\ FrameOK(h, MaxDepth - n + 1, s[n])
               /\ s[n].pc = "body" => s[n].live \subseteq Own(s[n])
<1>. DEFINE n == Len(s)
<1>1. PICK T : s \in Seq(T)
  BY DEF StackOK
<1>2. n \in Nat /\ n # 0
  BY <1>1
<1>3. n <= MaxDepth /\ MaxDepth \in Nat
  BY TransactionsAssumption DEF StackOK
<1>. HIDE DEF n
<1>4. n \in 1 .. n /\ n \in 1 .. MaxDepth /\ MaxDepth - n + 1 \in 1 .. MaxDepth
  BY <1>2, <1>3
<1>5. QED  BY <1>4 DEF StackOK, n

\* The innermost frame goes on.
LEMMA StackBecomes ==
    ASSUME NEW h, NEW s, StackOK(h, s), s # <<>>, NEW f,
           FrameOK(h, MaxDepth - Len(s) + 1, f),
           Callee(f) = Callee(s[Len(s)]), f.data = s[Len(s)].data,
           f.pc = "body" => f.live \subseteq Own(f)
    PROVE  StackOK(h, [s EXCEPT ![Len(s)] = f])
<1>. DEFINE n == Len(s)
            r == [s EXCEPT ![n] = f]
<1>1. PICK T : s \in Seq(T)
  BY DEF StackOK
<1>2. n \in Nat /\ n # 0 /\ r \in Seq(T \cup {f}) /\ Len(r) = n
      /\ r[n] = f /\ \A i \in 1 .. n : i # n => r[i] = s[i]
  BY <1>1
<1>3. /\ n <= MaxDepth
      /\ \A i \in 1 .. n : FrameOK(h, MaxDepth - i + 1, s[i])
      /\ \A i \in 1 .. n : i # n => Waits(h, s[i], s[i + 1])
      /\ FrameOK(h, MaxDepth - n + 1, f)
      /\ Callee(f) = Callee(s[n]) /\ f.data = s[n].data
  BY DEF StackOK
<1>. HIDE DEF n, r
<1>4. ASSUME NEW i \in 1 .. n PROVE FrameOK(h, MaxDepth - i + 1, r[i])
  BY <1>2, <1>3
<1>5. ASSUME NEW i \in 1 .. n, i # n PROVE Waits(h, r[i], r[i + 1])
  <2>1. i + 1 \in 1 .. n /\ r[i] = s[i] /\ Waits(h, s[i], s[i + 1])
    BY <1>2, <1>3, <1>5
  <2>2. CASE i + 1 = n
    <3>1. Waits(h, s[i], f)
      BY <1>3, <2>1, <2>2 DEF Waits
    <3>2. QED  BY <1>2, <2>1, <2>2, <3>1
  <2>3. CASE i + 1 # n
    BY <1>2, <2>1, <2>3
  <2>4. QED  BY <2>2, <2>3
<1>6. QED  BY <1>2, <1>3, <1>4, <1>5 DEF StackOK, r, n

\* The innermost frame makes a call.
LEMMA StackCalls ==
    ASSUME NEW h, NEW s, StackOK(h, s), s # <<>>, NEW f, NEW g,
           FrameOK(h, MaxDepth - Len(s) + 1, f),
           Callee(f) = Callee(s[Len(s)]), f.data = s[Len(s)].data,
           Len(s) # MaxDepth, FrameOK(h, MaxDepth - Len(s), g), Waits(h, f, g), g.pc = "enter"
    PROVE  StackOK(h, Append([s EXCEPT ![Len(s)] = f], g))
<1>. DEFINE n == Len(s)
            r == [s EXCEPT ![n] = f]
            rr == Append(r, g)
<1>1. PICK T : s \in Seq(T)
  BY DEF StackOK
<1>2. n \in Nat /\ n # 0 /\ r \in Seq(T \cup {f}) /\ Len(r) = n
      /\ r[n] = f /\ \A i \in 1 .. n : i # n => r[i] = s[i]
  BY <1>1
<1>3. /\ n <= MaxDepth /\ n # MaxDepth
      /\ \A i \in 1 .. n : FrameOK(h, MaxDepth - i + 1, s[i])
      /\ \A i \in 1 .. n : i # n => Waits(h, s[i], s[i + 1])
      /\ FrameOK(h, MaxDepth - n + 1, f) /\ FrameOK(h, MaxDepth - n, g)
      /\ Callee(f) = Callee(s[n]) /\ f.data = s[n].data
  BY DEF StackOK
<1>. HIDE DEF n, r
<1>4. rr \in Seq(T \cup {f, g}) /\ Len(rr) = n + 1
      /\ rr[n + 1] = g /\ \A i \in 1 .. n : rr[i] = r[i]
  <2>1. r \in Seq(T \cup {f, g})
    <3>1. T \cup {f} \subseteq T \cup {f, g}
      OBVIOUS
    <3>2. QED  BY <1>2, <3>1
  <2>. DEFINE U == T \cup {f, g}
  <2>2. g \in U
    OBVIOUS
  <2>. HIDE DEF U
  <2>3. Append(r, g) \in Seq(U) /\ Len(Append(r, g)) = Len(r) + 1
        /\ Append(r, g)[Len(r) + 1] = g /\ \A i \in 1 .. Len(r) : Append(r, g)[i] = r[i]
    BY <2>1, <2>2 DEF U
  <2>4. QED  BY <1>2, <2>3 DEF U
<1>. HIDE DEF rr
<1>5. MaxDepth \in Nat /\ n + 1 <= MaxDepth /\ MaxDepth - (n + 1) + 1 = MaxDepth - n
  BY <1>2, <1>3, TransactionsAssumption
<1>6. ASSUME NEW i \in 1 .. n + 1 PROVE FrameOK(h, MaxDepth - i + 1, rr[i])
  <2>1. CASE i = n + 1
    BY <1>3, <1>4, <1>5, <2>1
  <2>2. CASE i = n
    BY <1>2, <1>3, <1>4, <2>2
  <2>3. CASE i \in 1 .. n /\ i # n
    BY <1>2, <1>3, <1>4, <2>3
  <2>4. QED  BY <1>2, <2>1, <2>2, <2>3
<1>7. ASSUME NEW i \in 1 .. n + 1, i # n + 1 PROVE Waits(h, rr[i], rr[i + 1])
  <2>1. i \in 1 .. n /\ rr[i] = r[i]
    BY <1>2, <1>4, <1>7
  <2>2. CASE i = n
    BY <1>2, <1>4, <2>1, <2>2
  <2>3. CASE i # n
    <3>1. i + 1 \in 1 .. n /\ rr[i + 1] = r[i + 1] /\ r[i] = s[i] /\ Waits(h, s[i], s[i + 1])
      BY <1>2, <1>3, <1>4, <2>1, <2>3
    <3>2. CASE i + 1 = n
      <4>1. Waits(h, s[i], f)
        BY <1>3, <3>1, <3>2 DEF Waits
      <4>2. QED  BY <1>2, <2>1, <3>1, <3>2, <4>1
    <3>3. CASE i + 1 # n
      BY <1>2, <2>1, <3>1, <3>3
    <3>4. QED  BY <3>2, <3>3
  <2>4. QED  BY <2>2, <2>3
<1>8. ASSUME NEW i \in 1 .. n + 1, i = n + 1 PROVE rr[i].pc # "body"
  BY <1>4, <1>8
<1>9. QED  BY <1>4, <1>5, <1>6, <1>7, <1>8 DEF StackOK, rr, r, n

\* The innermost frame ends, and its caller finds what Direct says.
LEMMA StackLeaves ==
    ASSUME NEW h \in Programs, NEW s, StackOK(h, s), s # <<>>, NEW result,
           result = Direct(h)[MaxDepth - Len(s) + 1][<<Callee(s[Len(s)]), s[Len(s)].data>>].value
    PROVE  LET n == Len(s) - 1
           IN  StackOK(h, [i \in 1 .. n |->
                             IF i < n THEN s[i]
                             ELSE [s[i] EXCEPT !.pc = "called", !.slot = result]])
<1>. DEFINE n == Len(s) - 1
            E(i) == [s[i] EXCEPT !.pc = "called", !.slot = result]
            c == E(n)
            r == [i \in 1 .. n |->
                    IF i < n THEN s[i] ELSE E(i)]
<1>1. PICK T : s \in Seq(T)
  BY DEF StackOK
<1>2. n \in Nat /\ Len(s) = n + 1 /\ \A i \in 1 .. n : s[i] \in T
  BY <1>1
<1>3. \A i \in 1 .. n : r[i] = IF i # n THEN s[i] ELSE c
  <2>1. \A i \in 1 .. n : r[i] = IF i < n THEN s[i] ELSE E(i)
    <3>. HIDE DEF E, n
    <3>1. QED  OBVIOUS
  <2>2. \A i \in 1 .. n : (i < n) <=> (i # n)
    <3>1. n \in Nat
      BY <1>2
    <3>. HIDE DEF n
    <3>2. QED  BY <3>1
  <2>. HIDE DEF n, r
  <2>3. ASSUME NEW i \in 1 .. n PROVE r[i] = IF i # n THEN s[i] ELSE c
    <3>1. CASE i # n
      <4>1. r[i] = s[i]
        <5>. HIDE DEF E
        <5>1. QED  BY <2>1, <2>2, <3>1
      <4>2. QED  BY <3>1, <4>1
    <3>2. CASE i = n
      <4>1. r[i] = E(i)
        <5>. HIDE DEF E
        <5>1. QED  BY <2>1, <2>2, <3>2
      <4>2. QED  BY <3>2, <4>1
    <3>3. QED  BY <3>1, <3>2
  <2>4. QED  BY <2>3
<1>4. /\ n + 1 <= MaxDepth /\ MaxDepth \in Nat
      /\ \A i \in 1 .. n + 1 : FrameOK(h, MaxDepth - i + 1, s[i])
      /\ \A i \in 1 .. n + 1 : i # n + 1 => Waits(h, s[i], s[i + 1])
      /\ result = Direct(h)[MaxDepth - (n + 1) + 1][<<Callee(s[n + 1]), s[n + 1].data>>].value
  BY <1>2, TransactionsAssumption DEF StackOK
<1>. HIDE DEF c, n
<1>5. r = [i \in 1 .. n |-> r[i]]
  OBVIOUS
<1>. HIDE DEF r
<1>6. r \in Seq(T \cup {c}) /\ Len(r) = n
  <2>1. \A i \in 1 .. n : r[i] \in T \cup {c}
    BY <1>2, <1>3
  <2>2. r \in [1 .. n -> T \cup {c}]
    BY <1>5, <2>1
  <2>3. QED  BY <1>2, <2>2
<1>7. ASSUME n # 0 PROVE FrameOK(h, MaxDepth - n + 1, c) /\ Callee(c) = Callee(s[n])
                         /\ c.data = s[n].data /\ c.pc = "called"
  <2>. DEFINE m == MaxDepth - n + 1
              f == s[n]
              g == s[n + 1]
  <2>1. m \in 1 .. MaxDepth /\ m - 1 = MaxDepth - (n + 1) + 1
    BY <1>2, <1>4, <1>7
  <2>2. FrameOK(h, m, f) /\ Waits(h, f, g)
    BY <1>2, <1>4, <1>7
  <2>3. result = Direct(h)[m - 1][<<Callee(g), g.data>>].value
    BY <1>4, <2>1
  <2>. HIDE DEF m, f, g
  <2>4. FrameOK(h, m, [f EXCEPT !.pc = "called", !.slot = result])
    BY <2>1, <2>2, <2>3, Left
  <2>5. LET cc == [f EXCEPT !.pc = "called", !.slot = result]
        IN  Callee(cc) = Callee(f) /\ cc.data = f.data /\ cc.pc = "called"
    <3>1. f = [x \in FrameFields |-> f[x]]
      BY <2>2 DEF FrameOK
    <3>2. QED  BY <3>1 DEF FrameFields, Callee
  <2>6. QED  BY <2>4, <2>5 DEF m, f, c
<1>8. ASSUME NEW i \in 1 .. n PROVE FrameOK(h, MaxDepth - i + 1, r[i])
  <2>1. CASE i = n
    <3>1. r[i] = c /\ n # 0
      BY <1>2, <1>3, <2>1
    <3>2. QED  BY <1>7, <2>1, <3>1
  <2>2. CASE i # n
    <3>1. r[i] = s[i] /\ i \in 1 .. n + 1
      BY <1>2, <1>3, <2>2
    <3>2. QED  BY <1>4, <3>1
  <2>3. QED  BY <2>1, <2>2
<1>9. ASSUME NEW i \in 1 .. n, i # n PROVE Waits(h, r[i], r[i + 1])
  <2>1. i + 1 \in 1 .. n /\ r[i] = s[i] /\ Waits(h, s[i], s[i + 1]) /\ n # 0
    BY <1>2, <1>3, <1>4, <1>9
  <2>2. CASE i + 1 = n
    <3>1. Waits(h, s[i], c)
      BY <1>7, <2>1, <2>2 DEF Waits
    <3>2. QED  BY <1>3, <2>1, <2>2, <3>1
  <2>3. CASE i + 1 # n
    BY <1>3, <2>1, <2>3
  <2>4. QED  BY <2>2, <2>3
<1>10. ASSUME NEW i \in 1 .. n, i = n PROVE r[i].pc # "body"
  BY <1>2, <1>3, <1>7, <1>10
<1>11. StackOK(h, r)
  <2>1. n <= MaxDepth
    BY <1>2, <1>4
  <2>2. QED  BY <1>6, <1>8, <1>9, <1>10, <2>1 DEF StackOK
<1>12. QED  BY <1>11 DEF r, n

-----------------------------------------------------------------------------
(* The invariant *)

IInv == handlers \in Programs /\ tx \in Transactions /\ StackOK(handlers, stack)

\* What IInv is for.
LEMMA InvProperties ==
    ASSUME IInv PROVE ResultsAsDirect /\ OnlyResultLeaks
<1>1. ASSUME NEW i \in 1 .. Len(stack)
      PROVE  FrameOK(handlers, MaxDepth - i + 1, stack[i])
             /\ (i = Len(stack) /\ stack[i].pc = "body" => stack[i].live \subseteq {"data"})
  <2>1. /\ FrameOK(handlers, MaxDepth - i + 1, stack[i])
        /\ i = Len(stack) /\ stack[i].pc = "body" => stack[i].live \subseteq Own(stack[i])
    BY DEF IInv, StackOK
  <2>2. Own(stack[i]) \subseteq {"data"}
    BY DEF Own, Buffer
  <2>3. QED  BY <2>1, <2>2
<1>2. ASSUME NEW i \in 1 .. Len(stack), stack[i].pc = "return"
      PROVE  /\ Value(stack[i].result)
                  = Direct(handlers)[MaxDepth - i + 1][<<Callee(stack[i]), stack[i].data>>]
             /\ stack[i].live \subseteq {"result"}
  BY <1>1, <1>2 DEF FrameOK
<1>3. QED  BY <1>1, <1>2 DEF ResultsAsDirect, OnlyResultLeaks

LEMMA InitInv == ASSUME Init PROVE IInv
<1>. DEFINE f == Frame(tx.to, tx.action, tx.data)
<1>1. handlers \in Programs /\ tx \in Transactions /\ stack = <<f>>
  BY DEF Init
<1>2. tx.to \in Contracts /\ tx.action \in Actions /\ tx.data \in Seq(Fields)
      /\ MaxDepth \in Nat /\ MaxDepth # 0
  BY <1>1, TransactionsAssumption
<1>3. /\ f = [x \in FrameFields |-> f[x]]
      /\ f.contract = tx.to /\ f.action = tx.action /\ f.data = tx.data
      /\ f.pc = "enter" /\ f.next = 1 /\ f.var = <<>> /\ f.result = <<>> /\ f.live = {}
  BY DEF Frame, FrameFields
<1>. HIDE DEF f
<1>4. FrameOK(handlers, MaxDepth, f)
  BY <1>2, <1>3 DEF FrameOK
<1>5. stack \in Seq({f}) /\ Len(stack) = 1 /\ stack[1] = f /\ MaxDepth - 1 + 1 = MaxDepth
  BY <1>1, <1>2
<1>6. \A i \in 1 .. 1 : i = 1
  OBVIOUS
<1>7. FrameOK(handlers, MaxDepth - 1 + 1, stack[1]) /\ 1 <= MaxDepth /\ stack[1].pc # "body"
  BY <1>2, <1>3, <1>4, <1>5
<1>8. StackOK(handlers, stack)
  BY <1>5, <1>6, <1>7 DEF StackOK
<1>9. QED  BY <1>1, <1>8 DEF IInv

\* The innermost frame traps, and plain calls would have.
LEMMA TrapInv ==
    ASSUME IInv, stack # <<>>, Trap,
           Direct(handlers)[MaxDepth - Len(stack) + 1][<<Callee(Top), Top.data>>] = Traps
    PROVE  IInv'
<1>. DEFINE n == Len(stack) - 1
            s == [i \in 1 .. n |->
                    IF i < n THEN stack[i]
                    ELSE [stack[i] EXCEPT !.pc = "called", !.slot = <<>>]]
<1>1. UNCHANGED <<handlers, tx>>
  BY DEF Trap, Leave
<1>2. StackOK(handlers, stack')
  <2>1. CASE Leave(<<>>)
    <3>1. stack' = s
      BY <2>1 DEF Leave
    <3>2. StackOK(handlers, s)
      <4>1. Traps.value = <<>>
        BY DEF Traps
      <4>2. <<>> = Direct(handlers)[MaxDepth - Len(stack) + 1]
                      [<<Callee(stack[Len(stack)]), stack[Len(stack)].data>>].value
        BY <4>1 DEF Top
      <4>3. handlers \in Programs /\ StackOK(handlers, stack)
        BY DEF IInv
      <4>4. QED  BY ZenonT(40), <4>2, <4>3, StackLeaves
    <3>3. QED  BY <3>1, <3>2
  <2>2. CASE stack' = <<>>
    <3>1. Len(<<>>) = 0 /\ <<>> \in Seq({}) /\ 1 .. 0 = {} /\ 0 <= MaxDepth
      BY TransactionsAssumption
    <3>2. QED  BY <2>2, <3>1 DEF StackOK
  <2>3. QED  BY <2>1, <2>2 DEF Trap
<1>3. QED  BY <1>1, <1>2 DEF IInv

LEMMA BecomesInv ==
    ASSUME IInv, stack # <<>>, NEW f, Becomes(f),
           FrameOK(handlers, MaxDepth - Len(stack) + 1, f),
           Callee(f) = Callee(Top), f.data = Top.data,
           f.pc = "body" => f.live \subseteq Own(f)
    PROVE  IInv'
<1>1. UNCHANGED <<handlers, tx>> /\ stack' = [stack EXCEPT ![Len(stack)] = f]
  BY DEF Becomes
<1>2. StackOK(handlers, [stack EXCEPT ![Len(stack)] = f])
  BY StackBecomes DEF IInv, Top
<1>3. QED  BY <1>1, <1>2 DEF IInv

\* What is known of the innermost frame.
LEMMA TopInv ==
    ASSUME IInv, stack # <<>>
    PROVE  LET m == MaxDepth - Len(stack) + 1
           IN  /\ handlers \in Programs /\ m \in 1 .. MaxDepth
               /\ FrameOK(handlers, m, Top) /\ Top = [x \in FrameFields |-> Top[x]]
               /\ Top.pc = "body" => Top.live \subseteq Own(Top)
<1>1. handlers \in Programs /\ StackOK(handlers, stack)
  BY DEF IInv
<1>2. QED  BY ZenonT(40), <1>1, TopOK DEF Top, FrameOK

LEMMA EnterInv == ASSUME IInv, Enter PROVE IInv'
<1>. DEFINE m == MaxDepth - Len(stack) + 1
            f == Top
            d == Handler(f)
            f1 == [f EXCEPT !.pc = "return"]
            f2 == [f EXCEPT !.pc = "body", !.args = SubSeq(f.data, 1, d.arity),
                            !.live = Buffer("data", Len(f.data))]
<1>1. stack # <<>> /\ f.pc = "enter"
  BY DEF Enter, At
<1>2. /\ handlers \in Programs /\ m \in 1 .. MaxDepth /\ FrameOK(handlers, m, f)
      /\ f = [x \in FrameFields |-> f[x]]
  BY <1>1, TopInv
<1>3. /\ f.action \notin DOMAIN handlers[f.contract] => FrameOK(handlers, m, f1)
      /\ f.action \in DOMAIN handlers[f.contract] /\ Len(f.data) < d.arity =>
            Direct(handlers)[m][<<Callee(f), f.data>>] = Traps
      /\ f.action \in DOMAIN handlers[f.contract] /\ ~(Len(f.data) < d.arity) =>
            FrameOK(handlers, m, f2)
  <2>. HIDE DEF f, m
  <2>1. QED  BY <1>1, <1>2, Entered DEF Handler
<1>4. CASE f.action \notin DOMAIN handlers[f.contract]
  <2>1. Becomes(f1)
    BY <1>4 DEF Enter
  <2>2. Callee(f1) = Callee(f) /\ f1.data = f.data /\ f1.pc # "body"
    <3>. HIDE DEF f
    <3>1. QED  BY <1>2 DEF Callee, FrameFields
  <2>. HIDE DEF f1
  <2>3. QED  BY <1>1, <1>3, <1>4, <2>1, <2>2, BecomesInv
<1>5. CASE f.action \in DOMAIN handlers[f.contract] /\ Len(f.data) < d.arity
  <2>1. Trap
    BY <1>5 DEF Enter
  <2>2. QED  BY <1>1, <1>3, <1>5, <2>1, TrapInv
<1>6. CASE f.action \in DOMAIN handlers[f.contract] /\ ~(Len(f.data) < d.arity)
  <2>1. Becomes(f2)
    BY <1>6 DEF Enter
  <2>2. Callee(f2) = Callee(f) /\ f2.data = f.data /\ f2.live \subseteq Own(f2)
    <3>. HIDE DEF f, d
    <3>1. Callee(f2) = Callee(f) /\ f2.data = f.data /\ f2.live = Buffer("data", Len(f.data))
      BY <1>2 DEF Callee, FrameFields
    <3>2. QED  BY <3>1 DEF Own
  <2>. HIDE DEF f2
  <2>3. QED  BY <1>1, <1>3, <1>6, <2>1, <2>2, BecomesInv
<1>7. QED  BY <1>4, <1>5, <1>6

LEMMA CallInv == ASSUME IInv, Call PROVE IInv'
<1>. DEFINE m == MaxDepth - Len(stack) + 1
            t == Top
            call == Handler(t).body[t.next]
            data == Passed(call, t.args)
            live == t.live \cup Buffer("call", 1 + Len(data))
            f == [t EXCEPT !.live = live]
            ff == [t EXCEPT !.live = live, !.pc = "called", !.slot = <<>>]
            g == Frame(call.to, call.action, data)
<1>1. stack # <<>> /\ t.pc = "body" /\ t.next <= Len(Handler(t).body)
  BY DEF Call, At
<1>2. /\ handlers \in Programs /\ m \in 1 .. MaxDepth /\ FrameOK(handlers, m, t)
      /\ t = [x \in FrameFields |-> t[x]] /\ t.live \subseteq Own(t)
  BY <1>1, TopInv
<1>3. live \subseteq Own(t) \cup Sent(handlers, t)
  BY <1>2 DEF Sent, Handler
<1>4. /\ m = 1 => FrameOK(handlers, m, ff)
      /\ m # 1 => FrameOK(handlers, m - 1, g)
      /\ FrameOK(handlers, m, f)
      /\ Waits(handlers, f, g)
  <2>. HIDE DEF t, m, live
  <2>1. QED  BY <1>1, <1>2, <1>3, Called DEF Handler
<1>5. Callee(f) = Callee(t) /\ f.data = t.data /\ Callee(ff) = Callee(t) /\ ff.data = t.data
      /\ ff.pc = "called" /\ [f EXCEPT !.pc = "called", !.slot = <<>>] = ff
  <2>. HIDE DEF t, live
  <2>1. QED  BY <1>2 DEF Callee, FrameFields
<1>6. g.pc = "enter"
  BY DEF Frame
<1>7. MaxDepth \in Nat /\ Len(stack) \in Nat
  BY TransactionsAssumption DEF IInv, StackOK
<1>8. (Len(stack) = MaxDepth <=> m = 1) /\ m - 1 = MaxDepth - Len(stack)
  BY <1>7
<1>9. CASE Len(stack) = MaxDepth
  <2>1. Becomes([f EXCEPT !.pc = "called", !.slot = <<>>])
    BY <1>9 DEF Call
  <2>2. Becomes(ff)
    BY <1>5, <2>1
  <2>3. FrameOK(handlers, MaxDepth - Len(stack) + 1, ff)
    BY <1>4, <1>8, <1>9
  <2>. HIDE DEF ff
  <2>4. QED  BY <1>1, <1>5, <2>2, <2>3, BecomesInv
<1>10. CASE Len(stack) # MaxDepth
  <2>1. stack' = Append([stack EXCEPT ![Len(stack)] = f], g) /\ UNCHANGED <<handlers, tx>>
    BY <1>10 DEF Call
  <2>2. StackOK(handlers, Append([stack EXCEPT ![Len(stack)] = f], g))
    <3>1. FrameOK(handlers, MaxDepth - Len(stack) + 1, f)
          /\ FrameOK(handlers, MaxDepth - Len(stack), g)
      BY <1>4, <1>8, <1>10
    <3>2. StackOK(handlers, stack)
      BY DEF IInv
    <3>3. Callee(f) = Callee(stack[Len(stack)]) /\ f.data = stack[Len(stack)].data
      BY <1>5 DEF Top
    <3>. HIDE DEF f, g
    <3>4. QED  BY <1>1, <1>4, <1>6, <1>10, <3>1, <3>2, <3>3, StackCalls
  <2>3. QED  BY <2>1, <2>2 DEF IInv
<1>11. QED  BY <1>9, <1>10

LEMMA CollectInv == ASSUME IInv, Collect PROVE IInv'
<1>. DEFINE m == MaxDepth - Len(stack) + 1
            f == Top
            expects == handlers[f.contract][f.action].body[f.next].expects
            read == expects > 0 /\ f.slot # <<>>
            answer == IF read THEN Buffer("answer", Len(f.slot)) ELSE {}
            g == [f EXCEPT !.pc = "body", !.next = @ + 1,
                           !.var = IF read THEN SubSeq(f.slot, 1, expects) ELSE @,
                           !.live = (@ \cup answer) \ (answer \cup Sent(handlers, f))]
<1>1. stack # <<>> /\ f.pc = "called"
  BY DEF Collect, At
<1>2. /\ handlers \in Programs /\ m \in 1 .. MaxDepth /\ FrameOK(handlers, m, f)
      /\ f = [x \in FrameFields |-> f[x]]
  BY <1>1, TopInv
<1>3. /\ read /\ Len(f.slot) < expects =>
            Direct(handlers)[m][<<Callee(f), f.data>>] = Traps
      /\ ~(read /\ Len(f.slot) < expects) =>
            FrameOK(handlers, m, g) /\ g.live \subseteq Own(g)
  <2>. HIDE DEF f, m
  <2>1. QED  BY <1>1, <1>2, Collected
<1>4. CASE read /\ Len(f.slot) < expects
  <2>1. Trap
    BY <1>4 DEF Collect, Handler
  <2>2. QED  BY <1>1, <1>3, <1>4, <2>1, TrapInv
<1>5. CASE ~(read /\ Len(f.slot) < expects)
  <2>1. Becomes(g)
    BY <1>5 DEF Collect, Handler, Sent
  <2>2. Callee(g) = Callee(f) /\ g.data = f.data
    <3>. HIDE DEF f, read, expects, answer
    <3>1. QED  BY <1>2 DEF Callee, FrameFields
  <2>3. FrameOK(handlers, MaxDepth - Len(stack) + 1, g) /\ g.live \subseteq Own(g)
    BY <1>3, <1>5
  <2>. HIDE DEF g
  <2>4. QED  BY <1>1, <2>1, <2>2, <2>3, BecomesInv
<1>6. QED  BY <1>4, <1>5

LEMMA FinishInv == ASSUME IInv, Finish PROVE IInv'
<1>. DEFINE m == MaxDepth - Len(stack) + 1
            f == Top
            result == Returned(handlers[f.contract][f.action], f, f.args, f.var)
            live == (f.live \cup Buffer("result", Len(result))) \ Own(f)
            g == [f EXCEPT !.pc = "return", !.result = result, !.live = live]
<1>1. stack # <<>> /\ f.pc = "body" /\ f.next > Len(handlers[f.contract][f.action].body)
  BY DEF Finish, At, Handler
<1>2. /\ handlers \in Programs /\ m \in 1 .. MaxDepth /\ FrameOK(handlers, m, f)
      /\ f = [x \in FrameFields |-> f[x]] /\ f.live \subseteq Own(f)
  BY <1>1, TopInv
<1>3. FrameOK(handlers, m, g)
  <2>. HIDE DEF f, m
  <2>1. QED  BY <1>1, <1>2, Finished
<1>4. Becomes(g)
  BY DEF Finish, Handler, Own
<1>5. Callee(g) = Callee(f) /\ g.data = f.data /\ g.pc # "body"
  <2>. HIDE DEF f, result, live
  <2>1. QED  BY <1>2 DEF Callee, FrameFields
<1>. HIDE DEF g
<1>6. QED  BY <1>1, <1>3, <1>4, <1>5, BecomesInv

LEMMA ReturnInv == ASSUME IInv, Return PROVE IInv'
<1>. DEFINE n == Len(stack) - 1
            m == MaxDepth - Len(stack) + 1
            f == Top
            s == [i \in 1 .. n |->
                    IF i < n THEN stack[i]
                    ELSE [stack[i] EXCEPT !.pc = "called", !.slot = f.result]]
<1>1. stack # <<>> /\ f.pc = "return" /\ stack' = s /\ UNCHANGED <<handlers, tx>>
  BY DEF Return, At, Leave
<1>2. handlers \in Programs /\ FrameOK(handlers, m, f)
  BY <1>1, TopInv
<1>3. Value(f.result) = Direct(handlers)[m][<<Callee(f), f.data>>]
  <2>. HIDE DEF f, m
  <2>1. QED  BY <1>1, <1>2 DEF FrameOK
<1>4. f.result = Direct(handlers)[MaxDepth - Len(stack) + 1]
                    [<<Callee(stack[Len(stack)]), stack[Len(stack)].data>>].value
  <2>1. Value(f.result).value = f.result
    BY DEF Value
  <2>2. QED  BY <1>3, <2>1 DEF Top
<1>5. StackOK(handlers, stack)
  BY DEF IInv
<1>6. StackOK(handlers, s)
  <2>. DEFINE result == f.result
  <2>1. result = Direct(handlers)[MaxDepth - Len(stack) + 1]
                    [<<Callee(stack[Len(stack)]), stack[Len(stack)].data>>].value
    BY <1>4
  <2>2. stack # <<>> /\ handlers \in Programs
    BY <1>1, <1>2
  <2>. HIDE DEF result, s, f, m
  <2>3. StackOK(handlers, [i \in 1 .. n |->
                    IF i < n THEN stack[i]
                    ELSE [stack[i] EXCEPT !.pc = "called", !.slot = result]])
    BY <1>5, <2>1, <2>2, StackLeaves
  <2>4. QED  BY <2>3 DEF result, s
<1>. HIDE DEF s
<1>7. QED  BY <1>1, <1>2, <1>6 DEF IInv

LEMMA NextInv == ASSUME IInv, [Next]_vars PROVE IInv'
<1>1. CASE UNCHANGED vars
  BY <1>1 DEF IInv, vars
<1>2. QED  BY <1>1, EnterInv, CallInv, CollectInv, FinishInv, ReturnInv DEF Next

LEMMA InvAlways == Spec => []IInv
<1>1. Init => IInv
  BY InitInv
<1>2. IInv /\ [Next]_vars => IInv'
  BY NextInv
<1>3. QED  BY <1>1, <1>2, PTL DEF Spec

-----------------------------------------------------------------------------
(* Theorems *)

\* Through buffers and the host's one slot, a frame hands back what plain calls of
\* functions would have computed, whatever the contracts and the transaction.
THEOREM ResultsAsDirectAlways == Spec => []ResultsAsDirect
<1>1. IInv => ResultsAsDirect
  BY InvProperties
<1>2. QED  BY <1>1, InvAlways, PTL

\* execute_action and action::call free every buffer but that of the result.
THEOREM OnlyResultLeaksAlways == Spec => []OnlyResultLeaks
<1>1. IInv => OnlyResultLeaks
  BY InvProperties
<1>2. QED  BY <1>1, InvAlways, PTL
===============================================================================
