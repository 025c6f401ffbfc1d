-------------------------------- MODULE MCCalls --------------------------------
(* Two contracts that call each other and themselves, with the caller's and the *)
(* callee's idea of a signature in every relation.                             *)
EXTENDS Calls

MCActions == {"f", "g", "none"}

MCFields == {"d", "e", "x", "y"}

CallTo(to, action, passes, expects) ==
    [to |-> to, action |-> action, passes |-> passes, expects |-> expects]

Handled(arity, body, returns) == [arity |-> arity, body |-> body, returns |-> returns]

\* The first contract calls the second, twice or through to itself.
FirstBodies ==
    {<<CallTo("second", "g", n, e), CallTo("second", a, m, f)>> :
        n \in 0 .. 2, m \in 0 .. 1, e \in 0 .. 2, f \in 0 .. 2, a \in {"g", "none"}}

SecondBodies ==
    {<<>>} \cup {<<CallTo("first", "f", n, e)>> : n \in 0 .. 2, e \in 0 .. 2}

MCPrograms ==
    {[first |-> [f |-> Handled(arity, body, ret)],
      second |-> [g |-> Handled(1, back, got)]] :
        arity \in 1 .. 2, ret \in 0 .. 2, got \in 0 .. 2,
        body \in FirstBodies, back \in SecondBodies}

MCTransactions ==
    {[to |-> "first", action |-> "f", data |-> <<"d">>],
     [to |-> "first", action |-> "f", data |-> <<"d", "e">>]}
===============================================================================
