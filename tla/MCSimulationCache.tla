-------------------------- MODULE MCSimulationCache --------------------------
(* Instances of SimulationCache for TLC. *)
EXTENDS SimulationCache, TLC

CONSTANTS c1, c2, x1, x2, main, sepolia, t1, t2

AsksFor(api, tx, rpc, block) == [api |-> api, tx |-> tx, rpc |-> rpc, block |-> block]

\* The same calldata simulated and debugged, at the latest block and at a
\* given one.
ByArguments == {AsksFor("calldata", x1, main, Latest), AsksFor("calldata", x1, main, 0),
                AsksFor("debug", x1, main, Latest)}
\* The same transaction hash on two chains, by chain name and by endpoint.
ByHash == {AsksFor("chainHash", x1, main, 0), AsksFor("rpcHash", x1, main, 0),
           AsksFor("rpcHash", x1, sepolia, 0)}
Mixed == ByArguments \cup ByHash
    \cup {AsksFor("calldata", x1, sepolia, 0), AsksFor("chainHash", x2, main, 0)}
OneRequest == {AsksFor("calldata", x1, main, 0)}

TwoTxs == {x1, x2}
TwoRpcs == {main, sepolia}
OneClass == {c1}
TwoClasses == {c1, c2}
UsesNone == (x1 :> {} @@ x2 :> {})
UsesBoth == (x1 :> {c1, c2} @@ x2 :> {})
TwoTasks == {t1, t2}

Symmetry == Permutations(TwoTasks)
=============================================================================
