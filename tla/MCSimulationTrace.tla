-------------------------- MODULE MCSimulationTrace --------------------------
(* An instance of SimulationTrace for TLC: an account, the fee token, another
   contract. *)
EXTENDS SimulationTrace

CONSTANTS acc, strk, a

MCContracts == {acc, strk, a}

\* How the classes of the three contracts are known, and which are Voyager's.
Way(x, y, z, voyager) ==
    [data |-> [c \in MCContracts |-> CASE c = acc -> x [] c = strk -> y [] OTHER -> z],
     voyager |-> voyager]

MCShows == {Way("none", "none", "inline", {}), Way("old", "none", "new", {a, acc}),
            Way("inline", "chain", "old", {}), Way("new", "old", "broken", {strk})}

Shape(body, lead, back) == [body |-> body, lead |-> lead, back |-> back]

MCShapes == {Shape(FALSE, <<>>, FALSE), Shape(FALSE, <<"wrapper">>, FALSE),
             Shape(TRUE, <<>>, FALSE), Shape(TRUE, <<"wrapper", "body">>, TRUE)}
=============================================================================
