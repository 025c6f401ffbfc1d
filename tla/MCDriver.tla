------------------------------- MODULE MCDriver -------------------------------
(* Command lines over two directories that hold a file of the same name, two of *)
(* them at a time, one of which has one input only.                            *)
EXTENDS Driver

CONSTANTS p1, p2

MCProcs == {p1, p2}

Command(tool, inputs, link, out) ==
    [tool |-> tool, inputs |-> inputs, link |-> link, out |-> out]

A == <<"src", "a">>
B == <<"src", "b">>
C == <<"lib", "a">>         \* another file of the name of A

OutAB == <<"out", "ab">>
OutC == <<"out", "c">>

MCSources == {A, B, C}
MCOutputs == {OutAB, OutC}

MCCommands ==
    {Command("cpp", <<A, B>>, TRUE, OutAB), Command("cpp", <<A, C>>, TRUE, OutAB),
     Command("cpp", <<B>>, TRUE, NoOut), Command("cpp", <<C>>, TRUE, OutC),
     Command("cpp", <<C>>, FALSE, OutC), Command("cc", <<B>>, TRUE, OutC),
     Command("cc", <<B, C>>, TRUE, NoOut), Command("cc", <<B, C>>, FALSE, NoOut),
     Command("cc", <<C>>, TRUE, NoOut)}

MCLeftovers ==
    {{}, {<<OutAB, Content("contract", <<B>>)>>,
          <<<<"tmp", "a", "o">>, Content("object", <<C>>)>>}}

MCInit == Init /\ Len(cmd[p2].inputs) = 1

MCSpec == MCInit /\ [][Next]_vars /\ \A p \in MCProcs : WF_vars(Step(p))
===============================================================================
