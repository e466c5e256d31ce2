------------------------- MODULE MCToolchainBinaries -------------------------
(* Instances of ToolchainBinaries for TLC. *)
EXTENDS ToolchainBinaries, TLC

CONSTANTS server1, server2, cairo1, cairo2

TwoServers == {server1, server2}
TwoReleases == {1, 2}
TwoNames == {cairo1, cairo2}

\* Two releases of Scarb that ship one Cairo version, and two of Sozo.
BinaryNames ==
    ("Scarb" :> (1 :> cairo1 @@ 2 :> cairo1) @@ "Sozo" :> (1 :> cairo1 @@ 2 :> cairo2))
=============================================================================
