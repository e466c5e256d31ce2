------------------------ MODULE MCVerificationWorkflow ------------------------
(* Instances of VerificationWorkflow for TLC. *)
EXTENDS VerificationWorkflow, TLC

CONSTANTS plain, inline, old, f1, m1

\* A class of a new Cairo version with its inline build, and an old class.
AllClasses == {plain, inline, old}
InlineAll == (plain :> inline @@ inline :> inline @@ old :> NoHash)

PlainAndOld == {{plain, old}}

OneFull == {f1}
OneMinimal == {m1}
OneEach == {f1, m1}
=============================================================================
