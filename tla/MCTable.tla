-------------------------------- MODULE MCTable --------------------------------
(***************************************************************************)
(* Two tables with the same keys.  Keys pack into no byte (a structure     *)
(* with no field), into one, into the two that fit and into three; one is  *)
(* the beginning of another, as integers of different widths may be.       *)
(* Values pack into up to three bytes, of which two fit on the stack, and  *)
(* differently in each table.                                              *)
(***************************************************************************)
EXTENDS Table, TLC

CONSTANTS people, balances

MCTables == {people, balances}
MCTableName == people :> 1 @@ balances :> 2

MCPackedKey ==
    people :> ("e" :> <<0>> @@ "one" :> <<1>> @@ "two" :> <<1, 0>> @@ "long" :> <<1, 0, 1>>)
    @@ balances :> ("e" :> <<>> @@ "one" :> <<0>> @@ "two" :> <<0, 0>> @@ "long" :> <<0, 0, 0>>)
MCPackedValue ==
    people :> ("a" :> <<0>> @@ "b" :> <<1, 1, 0>>)
    @@ balances :> ("a" :> <<1, 1>> @@ "b" :> <<1, 0>>)
=============================================================================
