------------------------ MODULE MCVoyagerPersistence ------------------------
(* Instances of VoyagerPersistence and ClassPages for TLC. *)
EXTENDS ClassPages, TLC

CONSTANTS c1, i1, w1, r1, r2, p1, v1, v2

OneClass == {c1}
InlineBuild == (c1 :> i1)
OtherBuild == (c1 :> w1)
OneRequest == {r1}
TwoRequests == {r1, r2}
OnePage == {p1}
NoPage == {}
TwoIds == {v1, v2}
=============================================================================
