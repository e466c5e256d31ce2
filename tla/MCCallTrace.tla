---------------------------- MODULE MCCallTrace ----------------------------
(* Instances of CallTrace for TLC. *)
EXTENDS CallTrace, TLC

CONSTANTS f, core, loop, a

OneNamed == {f}
OneCore == {core}
OneLoop == {loop}
OwnedByF == (loop :> f)
TwoChildren == <<2, 1>>
SomeLocations == {<<>>, <<a>>}
=============================================================================
