----------------------------- MODULE ForkedChain -----------------------------
(***************************************************************************)
(* The chain that a simulation forks: blocks of transactions and the state *)
(* they leave, as an RPC node serves it.  Only the node is modelled here;  *)
(* what the server makes of it is TransactionRun.  It is external, taken   *)
(* from how simulate/src/state.rs and transaction_info.rs use it.          *)
(***************************************************************************)
EXTENDS Integers, Sequences, FiniteSets

CONSTANTS
    Contracts, Classes, Values, Nonces, Data,
    Deprecated,     \* the classes that are written in Cairo 0
    Zero,           \* the value of storage nobody has written
    None,           \* nothing
    Genesis,        \* the state before the first block
    Chains          \* the chains considered, each a sequence of blocks

\* What a transaction changes: storage[c] is written, deploy[c] and
\* replace[c] are given a class, and classes are declared.
Partial(S, T) == UNION {[D -> T] : D \in SUBSET S}
Effect == [storage: Partial(Contracts, Values), deploy: Partial(Contracts, Classes),
           replace: Partial(Contracts, Classes), declare: SUBSET Classes]
Kinds == {"invoke", "declare", "l1_handler", "deploy_account"}
Transaction == [kind: Kinds, version: {0, 1, 3}, sender: Contracts, nonce: Nonces,
                calldata: Data, effect: Effect]
State == [storage: [Contracts -> Values], class: Partial(Contracts, Classes),
          declared: SUBSET Classes]

ASSUME DeprecatedAssumption == Deprecated \subseteq Classes
ASSUME ChainsAssumption ==
    /\ Zero \in Values /\ None \notin Contracts \cup Classes \cup Values \cup Nonces \cup Data
    /\ Genesis \in State
    /\ \A chain \in Chains : chain \in Seq(Seq(Transaction))

Over(f, g) == [x \in DOMAIN f \cup DOMAIN g |-> IF x \in DOMAIN g THEN g[x] ELSE f[x]]

After(state, tx) ==
    [storage |-> Over(state.storage, tx.effect.storage),
     class |-> Over(Over(state.class, tx.effect.deploy), tx.effect.replace),
     declared |-> state.declared \cup tx.effect.declare]

\* The state after the first k of some transactions, from `state` on.
Applied(state, txs, k) ==
    LET after[j \in 0..Len(txs)] == IF j = 0 THEN state ELSE After(after[j - 1], txs[j])
    IN after[k]

\* The state after the first k transactions of block n.
StateAt(chain, n, k) ==
    LET ends[m \in 0..Len(chain)] ==
            IF m = 0 THEN Genesis ELSE Applied(ends[m - 1], chain[m], Len(chain[m]))
    IN Applied(ends[n - 1], chain[n], k)

\* Only contracts that exist have storage: a transaction writes to contracts
\* that exist by its end.  (The protocol's own address 0x1 is no contract of
\* the model.)
ASSUME StorageAssumption ==
    /\ \A c \in Contracts \ DOMAIN Genesis.class : Genesis.storage[c] = Zero
    /\ \A chain \in Chains : \A n \in 1..Len(chain) : \A k \in 1..Len(chain[n]) :
          DOMAIN chain[n][k].effect.storage \subseteq DOMAIN StateAt(chain, n, k).class

\* simulate/src/transaction_info.rs: what the server can tell of a
\* transaction of a block.
TxSender(tx) == IF tx.kind = "deploy_account" THEN None ELSE tx.sender
TxNonce(tx) == IF tx.version = 0 /\ tx.kind \in {"invoke", "declare"} THEN None ELSE tx.nonce
TxCalldata(tx) == IF tx.kind = "declare" THEN None ELSE tx.calldata
TxVersion(tx) == IF tx.kind = "deploy_account" THEN 1 ELSE tx.version

\* The rules of the protocol for nonces: in a block, two transactions of an
\* account have different ones, but for those of version 0; and so have two
\* messages, whose handlers have version 0.  The calldata of a constructor is
\* not that of an account's transaction, which is a list of calls.
OfAccount(tx) == tx.kind \in {"invoke", "declare"} /\ tx.version # 0
ASSUME NoncesAssumption ==
    \A chain \in Chains : \A n \in 1..Len(chain) : \A i, j \in 1..Len(chain[n]) :
        LET tx == chain[n][i]
            other == chain[n][j]
        IN /\ tx.kind = "l1_handler" => tx.version = 0
           /\ i # j /\ OfAccount(tx) /\ OfAccount(other) /\ tx.sender = other.sender
                 => tx.nonce # other.nonce
           /\ i # j /\ tx.kind = "l1_handler" /\ other.kind = "l1_handler"
                 => tx.nonce # other.nonce
           /\ tx.kind = "deploy_account" /\ other.kind = "invoke" => tx.calldata # other.calldata
=============================================================================
