-------------------------- MODULE MCVoyagerPipeline --------------------------
(* Instances of VoyagerPipeline for TLC. *)
EXTENDS VoyagerPipeline, TLC

CONSTANTS c1, c2, s1, d1, d2, r1, r2

OneClass == {c1}
TwoClasses == {c1, c2}
NoSimple == {}
OneSimple == {s1}
OneDebug == {d1}
TwoDebug == {d1, d2}
OneRetry == {r1}
TwoRetries == {r1, r2}
=============================================================================
