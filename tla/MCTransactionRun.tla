-------------------------- MODULE MCTransactionRun --------------------------
(* Instances of TransactionRun for TLC. *)
EXTENDS TransactionRun, TLC

CONSTANTS a, b, f,      \* an account, a contract, one that is deployed later
          x, y, z,      \* a class, two that are declared later, z in Cairo 0
          d1, d2

AllContracts == {a, b, f}
AllClasses == {x, y, z}
Cairo0 == {z}
AllData == {d1, d2}
Start == [storage |-> [c \in AllContracts |-> 0], class |-> (a :> x @@ b :> x),
          declared |-> {x}]

NoEffect == [storage |-> Empty, deploy |-> Empty, replace |-> Empty, declare |-> {}]
Tx(kind, version, nonce, calldata, effect) ==
    [kind |-> kind, version |-> version, sender |-> a, nonce |-> nonce, calldata |-> calldata,
     effect |-> effect]

\* The same account calls the same contract again; a class is declared, a
\* contract deployed and another one upgraded to it in between.
First == Tx("invoke", 3, 1, d1, [NoEffect EXCEPT !.storage = (b :> 1)])
Declares == Tx("declare", 3, 2, d2, [NoEffect EXCEPT !.declare = {y}])
DeclaresOld == Tx("declare", 1, 0, d2, [NoEffect EXCEPT !.declare = {z}])
Deploys == Tx("invoke", 3, 3, d1, [NoEffect EXCEPT !.deploy = (f :> y), !.replace = (b :> y)])
Handler == [Tx("l1_handler", 0, 1, d2, [NoEffect EXCEPT !.storage = (b :> 1 @@ a :> 1)]) EXCEPT !.sender = b]
Account == Tx("deploy_account", 3, 0, d2, NoEffect)
Old == Tx("invoke", 0, 0, d2, [NoEffect EXCEPT !.storage = (f :> 1)])

Asked == {[NoArgs EXCEPT !.mode = mode, !.sender = a, !.version = 3, !.calldata = d1] :
              mode \in {"simple", "debug"}}

TwoChains == {<< <<DeclaresOld, First, Declares, Deploys>>, <<Old>> >>,
              << <<DeclaresOld, Handler, First>>, <<Declares, Account, Deploys>> >>}
=============================================================================
