--------------------------- MODULE TransactionRun ---------------------------
(***************************************************************************)
(* One transaction run again on a fork of the chain: simulate/src/         *)
(* simulate.rs for the simple trace, debugger.rs for the debug trace.  The *)
(* run finds its block and its place in it, replays the transactions       *)
(* before it from their traces (state.rs, ForkStateReader), executes the   *)
(* transaction, and only then asks for the data that shows the classes it  *)
(* has executed.  Classes are verified and compiled by others meanwhile.   *)
(*                                                                         *)
(* Abstracted: gas and fees, decoding, the Ethereum log of a message; a    *)
(* contract has one storage cell.                                          *)
(***************************************************************************)
EXTENDS ForkedChain

CONSTANTS
    MadeUp,         \* bound: arguments of transactions that are not on the chain
    MaxCalls,       \* bound: contract calls of the transaction
    MaxChanges,     \* bound: classes whose inline builds change meanwhile
    MaxFaults       \* bound: steps in which the node, the tables or the bucket fail

VARIABLES
    chain,
    inCache,        \* classes with inline data in the external class cache
    inTables,       \* classes verified with an inline build by Walnut
    pc,
    args,           \* SimulationArgs
    block, index,   \* the block it runs in and the transactions replayed
    replayed,
    cache,          \* InMemoryForkCache
    calls,          \* contract calls, in the order they are made
    data,           \* the builds that the classes are shown by
    changes,        \* the storage changes, by call
    result,
    \* history
    changed,                    \* classes whose inline builds have changed or were missed
    reads,                      \* what the execution was told
    faults

sources == <<inCache, inTables>>
vars == <<chain, inCache, inTables, pc, args, block, index, replayed, cache, calls, data, changes,
          result, changed, reads, faults>>

\* The code of a class: that of the chain, or the inline build of Walnut or
\* of Voyager.  No build is code that cannot be had.
Build == {"original", "walnut", "voyager"}

\* Only classes with Sierra code have inline builds.
Sierra == Classes \ Deprecated

\* `own` is the transaction that is asked for, <<block, place>>, or <<0, 0>>
\* for a transaction that is made up.
Args == [mode: {"simple", "debug"}, by: {"hash", "message", "arguments"}, own: Nat \X Nat,
         kind: Kinds, version: {0, 1, 3}, sender: Contracts, nonce: Nonces \cup {None},
         calldata: Data \cup {None}]
Call == [contract: Contracts, class: Classes \cup {None}, build: Build \cup {None},
         writes: Values \cup {None}]
Cache == [storage: Partial(Contracts, Values), class: Partial(Contracts, Classes),
          compiled: Partial(Classes, Build)]
Read == [kind: {"storage"}, contract: Contracts, value: Values] \cup
        [kind: {"class"}, contract: Contracts, value: Classes \cup {None}]
\* A change as it is shown; `before` is None until the node is asked.
Change == [contract: Contracts, before: Values \cup {None}, after: Values]

ASSUME MadeUpAssumption == \A a \in MadeUp : a \in Args /\ a.by = "arguments"
ASSUME ContractsAssumption == Contracts # {}
ASSUME NoneAssumption ==
    None \notin Build \cup {"shown", "messages", "resources", "unsupported", "error"}
ASSUME BoundsAssumption == MaxFaults \in Nat

Empty == [x \in {} |-> None]
PCs == {"ask", "transaction", "receipt", "message", "block", "fork", "replay", "validate", "execute",
        "post", "classes", "map", "before", "done"}
NoArgs == [mode |-> "simple", by |-> "arguments", own |-> <<0, 0>>, kind |-> "invoke",
           version |-> 0, sender |-> CHOOSE c \in Contracts : TRUE, nonce |-> None,
           calldata |-> None]

Init ==
    /\ chain \in Chains
    /\ inCache \in SUBSET Sierra /\ inTables \in SUBSET Sierra
    /\ changed = {}
    /\ pc = "ask"
    /\ args = NoArgs
    /\ block = 0 /\ index = 0 /\ replayed = 0
    /\ cache = [storage |-> Empty, class |-> Empty, compiled |-> Empty]
    /\ calls = <<>>
    /\ data = Empty
    /\ changes = Empty
    /\ result = None
    /\ reads = {}
    /\ faults = 0

Run == UNCHANGED <<chain, sources, changed>>
Fault == faults < MaxFaults /\ faults' = faults + 1
NoFault == UNCHANGED faults
Stop(answer) == pc' = "done" /\ result' = answer
NotRun == UNCHANGED <<index, replayed, cache, calls, data, changes, reads>>

-----------------------------------------------------------------------------
(* Which transaction *)

\* extract_submitted_tx: the arguments that a transaction of the chain gives.
\* Transactions of version 0 get nonce zero, which the model has as its own.
Submitted(mode, by, own) ==
    LET tx == chain[own[1]][own[2]]
    IN [mode |-> mode, by |-> by, own |-> own, kind |-> tx.kind, version |-> tx.version,
        sender |-> tx.sender, nonce |-> tx.nonce, calldata |-> tx.calldata]

Placed == UNION {{<<n, i>> : i \in 1..Len(chain[n])} : n \in 1..Len(chain)}

AskByHash ==
    /\ pc = "ask"
    /\ \E own \in Placed : args' = Submitted("simple", "hash", own)
    /\ pc' = "transaction"
    /\ UNCHANGED <<block, result>> /\ NotRun /\ NoFault /\ Run

\* A debug trace is asked for with the arguments and the block of the simple
\* one; only the signature is fetched again.
AskDebug ==
    /\ pc = "ask"
    /\ \E own \in Placed :
          /\ chain[own[1]][own[2]].kind # "deploy_account"
          /\ args' = Submitted("debug", "hash", own)
          /\ block' = own[1]
    /\ pc' = "block"
    /\ UNCHANGED result /\ NotRun /\ NoFault /\ Run

\* A transaction that is not on the chain, in a block or the latest one.
AskByArguments ==
    /\ pc = "ask"
    /\ args' \in MadeUp
    /\ block' \in 1..Len(chain)
    /\ pc' = "block"
    /\ UNCHANGED result /\ NotRun /\ NoFault /\ Run

\* The message of an Ethereum transaction gives the arguments of its handler;
\* one without a message to Starknet is answered by what it has.
AskByMessage ==
    /\ pc = "ask"
    /\ \/ \E own \in Placed :
             /\ chain[own[1]][own[2]].kind = "l1_handler"
             /\ args' = Submitted("simple", "message", own)
             /\ pc' = "message" /\ UNCHANGED result
       \/ Stop("messages") /\ UNCHANGED args
    /\ UNCHANGED block /\ NotRun /\ NoFault /\ Run

\* process_l1_handler_transaction: without an answer from Voyager the handler
\* is run in the latest block.
FindBlockOfMessage ==
    /\ pc = "message"
    /\ \/ block' = args.own[1] /\ NoFault
       \/ block' = Len(chain) /\ Fault
    /\ pc' = "block"
    /\ UNCHANGED <<args, result>> /\ NotRun /\ Run

FetchTransaction ==
    /\ pc = "transaction"
    /\ \/ Stop("error") /\ Fault
       \/ args.kind = "deploy_account" /\ Stop("unsupported") /\ NoFault
       \/ args.kind # "deploy_account" /\ pc' = "receipt" /\ UNCHANGED result /\ NoFault
    /\ UNCHANGED <<args, block>> /\ NotRun /\ Run

\* A transaction that ran out of resources is shown as the receipt tells; one
\* that is not in a block yet is an error.
FetchReceipt ==
    /\ pc = "receipt"
    /\ \/ Stop("error") /\ Fault /\ UNCHANGED block
       \/ Stop("resources") /\ NoFault /\ UNCHANGED block
       \/ pc' = "block" /\ block' = args.own[1] /\ UNCHANGED result /\ NoFault
    /\ UNCHANGED args /\ NotRun /\ Run

-----------------------------------------------------------------------------
(* Its place in the block *)

\* Mutant: the nonce is not compared.
SameNonceIgnored(tx) == TRUE

SameNonce(tx) == args.nonce # None => TxNonce(tx) = args.nonce

match_transaction(tx) ==
    /\ TxVersion(tx) = args.version
    /\ TxSender(tx) \in {None, args.sender}
    /\ SameNonce(tx)
    /\ args.calldata # None => TxCalldata(tx) = args.calldata

\* The transactions before the first one that matches; none if none does.
extract_transaction_index ==
    LET hits == {i \in 1..Len(chain[block]) : match_transaction(chain[block][i])}
    IN IF hits = {} THEN 0 ELSE (CHOOSE i \in hits : \A j \in hits : i <= j) - 1

ExtractBlock ==
    /\ pc = "block"
    /\ \/ Stop("error") /\ Fault /\ UNCHANGED index
       \/ /\ index' = extract_transaction_index
          /\ pc' = "fork"
          /\ UNCHANGED result /\ NoFault
    /\ UNCHANGED <<args, block, replayed, cache, calls, data, changes, reads>> /\ Run

-----------------------------------------------------------------------------
(* The fork: prepare_storage_view *)

\* The block number of the fork, and the one before, where the node is read.
Adjusted == StateAt(chain, block, 0)
Before == StateAt(chain, block, index)
BlockEnd == StateAt(chain, block, Len(chain[block]))

\* The traces are fetched unless the block has a single transaction.
PrepareStorageView ==
    /\ pc = "fork"
    /\ \/ Len(chain[block]) > 1 /\ Stop("error") /\ Fault
       \/ /\ pc' = IF Len(chain[block]) > 1 THEN "replay" ELSE "validate"
          /\ UNCHANGED result /\ NoFault
    /\ UNCHANGED <<args, block>> /\ NotRun /\ Run

\* A class that an earlier transaction declares is fetched at the block
\* itself: the one before does not have it.
DeclaredAt == BlockEnd

\* collect_storage_diffs, collect_deploy_contract, collect_declared_classes,
\* for the next transaction.  Nonces, replaced classes and the declarations
\* of Cairo 0 classes, which a trace has under another name, are not replayed.
\* A class that cannot be fetched is logged.
ReplayTransaction ==
    /\ pc = "replay" /\ replayed < index
    /\ LET effect == chain[block][replayed + 1].effect
           fetched == {x \in effect.declare \ Deprecated : x \in DeclaredAt.declared}
       IN \E got \in {fetched, {}} :
             /\ cache' = [storage |-> Over(cache.storage, effect.storage),
                          class |-> Over(cache.class, effect.deploy),
                          compiled |-> Over(cache.compiled, [x \in got |-> "original"])]
             /\ IF got = fetched THEN NoFault ELSE Fault
    /\ replayed' = replayed + 1
    /\ UNCHANGED <<pc, args, block, index, calls, data, changes, result, reads>> /\ Run

EndReplay ==
    /\ pc = "replay" /\ replayed = index
    /\ pc' = "validate"
    /\ UNCHANGED <<args, block, result>> /\ NotRun /\ NoFault /\ Run

-----------------------------------------------------------------------------
(* The state that the execution reads *)

\* get_class_hash_at.  A contract that the node does not have has no class.
ClassHashAt(c) ==
    IF c \in DOMAIN cache.class THEN cache.class[c]
    ELSE IF c \in DOMAIN Adjusted.class THEN Adjusted.class[c] ELSE None

\* Mutant: the inline build is taken for simple traces too.
InlineForAll == TRUE

\* only_non_inlined_class: a simple trace runs the code of the chain.
InlineAllowed == args.mode = "debug"

\* get_compiled_class: what is compiled already, then the external class
\* cache, then a class verified in the tables, then the node.
CompiledClass(x) ==
    IF x \in DOMAIN cache.compiled THEN cache.compiled[x]
    ELSE IF InlineAllowed /\ x \in inCache THEN "voyager"
    ELSE IF InlineAllowed /\ x \in inTables THEN "walnut"
    ELSE IF x \in Adjusted.declared THEN "original" ELSE None

\* What it comes to when the tables, the bucket or the node do not answer, or
\* the build does not compile: a verified class whose inline build cannot be
\* had is run by its class file or by the node's class.
MissedClass(x) ==
    IF x \in DOMAIN cache.compiled \cup {None} THEN {}
    ELSE IF InlineAllowed /\ x \in inTables \ inCache THEN {"original", None}
    ELSE {None}

Lookup(x, build) ==
    \/ build = CompiledClass(x) /\ NoFault /\ UNCHANGED changed
    \/ /\ build \in MissedClass(x) /\ Fault
       /\ changed' = IF build = None THEN changed ELSE changed \cup {x}

Compiles(x, build) ==
    IF build = None THEN cache.compiled ELSE Over(cache.compiled, [y \in {x} |-> build])

\* Mutant: what was replayed does not count for contracts that the node has.
StorageOfNode(c) ==
    IF c \in DOMAIN Adjusted.class THEN Adjusted.storage[c]
    ELSE IF c \in DOMAIN cache.storage THEN cache.storage[c] ELSE Zero

\* get_storage_at; the default of a contract that the node does not have is
\* not kept.
StorageAt(c) ==
    IF c \in DOMAIN cache.storage THEN cache.storage[c]
    ELSE IF c \in DOMAIN Adjusted.class THEN Adjusted.storage[c] ELSE Zero

StorageKept(c) ==
    IF c \in DOMAIN cache.storage \cup DOMAIN Adjusted.class
    THEN Over(cache.storage, [x \in {c} |-> StorageAt(c)])
    ELSE cache.storage

-----------------------------------------------------------------------------
(* The execution, of which the blockifier asks the reader above.             *)

Executing == pc \in {"validate", "execute"}

\* should_validate and should_execute
Runs == CASE pc = "validate" -> args.by # "arguments" /\ args.kind # "l1_handler"
          [] pc = "execute" -> args.kind # "declare"
          [] OTHER -> FALSE

Called(c, class, build) ==
    calls' = Append(calls, [contract |-> c, class |-> class, build |-> build, writes |-> None])

\* A call of a contract: its class is looked up, then the code of the class.
\* A call of a contract without code fails, as does one whose class or code
\* the node does not answer for; the sender is called first.
CallContract(c) ==
    /\ Executing /\ Runs /\ Len(calls) < MaxCalls
    /\ calls = <<>> => c = args.sender
    /\ LET class == ClassHashAt(c)
       IN \/ \E build \in Build \cup {None} :
                /\ Lookup(class, build)
                /\ Called(c, class, build)
                /\ cache' = [cache EXCEPT
                              !.class = IF class = None THEN @ ELSE Over(@, [x \in {c} |-> class]),
                              !.compiled = Compiles(class, build)]
                /\ reads' = reads \cup {[kind |-> "class", contract |-> c, value |-> class]}
          \/ /\ c \notin DOMAIN cache.class
             /\ Called(c, None, None)
             /\ UNCHANGED <<cache, reads, changed>> /\ Fault
    /\ UNCHANGED <<chain, sources, pc, args, block, index, replayed, data, changes, result>>

\* A contract deployed by the transaction runs its constructor; its class is
\* not the reader's.
DeployContract(c, x) ==
    /\ Executing /\ Runs /\ calls # <<>> /\ Len(calls) < MaxCalls
    /\ c \notin DOMAIN Before.class
    /\ \A i \in DOMAIN calls : calls[i].contract # c
    /\ \E build \in Build \cup {None} :
          /\ Lookup(x, build)
          /\ Called(c, x, build)
          /\ cache' = [cache EXCEPT !.compiled = Compiles(x, build)]
    /\ UNCHANGED <<chain, sources, pc, args, block, index, replayed, data, changes, result, reads>>

\* A write reads the value it replaces, once in a transaction.
Write(v) ==
    /\ Executing /\ Runs /\ calls # <<>>
    /\ LET i == Len(calls)
           c == calls[i].contract
       IN /\ calls[i].build # None /\ calls[i].writes = None
          /\ calls' = [calls EXCEPT ![i].writes = v]
          /\ cache' = [cache EXCEPT !.storage = StorageKept(c)]
          /\ reads' = reads \cup {[kind |-> "storage", contract |-> c, value |-> StorageAt(c)]}
    /\ UNCHANGED <<pc, args, block, index, replayed, data, changes, result>> /\ NoFault /\ Run

\* A validation or an execution that fails leaves no call info, and the run
\* goes on.
EndExecution ==
    /\ Executing
    /\ Runs => calls # <<>>
    /\ pc' = IF pc = "validate" THEN "execute" ELSE "post"
    /\ UNCHANGED <<args, block, result>> /\ NotRun /\ NoFault /\ Run

\* handle_post_exec_and_collect_gas_vectors, of a simple trace: the report
\* and the fee transfer of version 3 may fail, and then nothing is shown.
PostExec ==
    /\ pc = "post"
    /\ \/ args.mode = "simple" /\ args.version = 3 /\ Stop("error") /\ Fault
       \/ pc' = "classes" /\ UNCHANGED result /\ NoFault
    /\ UNCHANGED <<args, block>> /\ NotRun /\ Run

-----------------------------------------------------------------------------
(* What is shown of it *)

Executed == {calls[i].class : i \in {i \in DOMAIN calls : calls[i].build # None}}

\* The data of a class: of the tables if it is verified there, else of the
\* class cache.  A simple trace has the build that matches the chain.
DataOf(x, missed) ==
    IF args.mode = "simple" THEN "original"
    ELSE IF x \in inTables \ missed THEN "walnut" ELSE "voyager"

\* The tables or the bucket may not answer for some.  A compilation that the
\* run itself starts here is one by others just before.
FetchClasses ==
    /\ pc = "classes"
    /\ \E missed \in SUBSET (Executed \cap inTables) :
          /\ data' = [x \in Executed \cap ((inTables \ missed) \cup inCache) |-> DataOf(x, missed)]
          /\ changed' = changed \cup missed
          /\ IF missed = {} THEN NoFault ELSE Fault
    /\ pc' = "map"
    /\ UNCHANGED <<chain, sources, args, block, index, replayed, cache, calls, changes, result, reads>>

\* Mutant: every value before is asked of the node.
KnownNever(c) == None

\* What the fork knows of a cell that a call has written.
Known(c) == IF c \in DOMAIN cache.storage THEN cache.storage[c] ELSE None

\* create_function_calls_map_generic: a class without data is shown by the
\* code that the fork has, and one that does not compile ends it all.
MapCalls ==
    /\ pc = "map"
    /\ \/ Stop("error") /\ Fault /\ UNCHANGED changes
       \/ /\ changes' = IF args.mode = "debug" THEN changes
                        ELSE [i \in {i \in DOMAIN calls : calls[i].writes # None} |->
                                 [contract |-> calls[i].contract,
                                  before |-> Known(calls[i].contract),
                                  after |-> calls[i].writes]]
          /\ pc' = IF args.mode = "debug" THEN "done" ELSE "before"
          /\ result' = IF args.mode = "debug" THEN "shown" ELSE result
          /\ NoFault
    /\ UNCHANGED <<args, block, index, replayed, cache, calls, data, reads>> /\ Run

\* fetch_before_storage_changes: the node is asked for an unknown value at the
\* block itself.
Filled(change) ==
    IF change.before = None THEN [change EXCEPT !.before = BlockEnd.storage[change.contract]]
    ELSE change

\* Changes without a value before, or with the same one, are not shown.
FetchBefore ==
    /\ pc = "before"
    /\ \E fails \in BOOLEAN :
          LET filled == [i \in DOMAIN changes |-> IF fails THEN changes[i] ELSE Filled(changes[i])]
          IN /\ changes' = [i \in {i \in DOMAIN changes :
                                      filled[i].before \notin {None, filled[i].after}} |-> filled[i]]
             /\ IF fails THEN Fault ELSE NoFault
    /\ Stop("shown")
    /\ UNCHANGED <<args, block, index, replayed, cache, calls, data, reads>> /\ Run

-----------------------------------------------------------------------------
(* The others *)

Compiled(x) == x \notin inCache /\ inCache' = inCache \cup {x} /\ UNCHANGED inTables
Lapsed(x) == x \in inCache /\ inCache' = inCache \ {x} /\ UNCHANGED inTables
Verified(x) == x \notin inTables /\ inTables' = inTables \cup {x} /\ UNCHANGED inCache

Others ==
    /\ pc \notin {"ask", "done"}
    /\ \E x \in Sierra :
          /\ Cardinality(changed \cup {x}) <= MaxChanges
          /\ Compiled(x) \/ Lapsed(x) \/ Verified(x)
          /\ changed' = changed \cup {x}
    /\ UNCHANGED <<chain, pc, args, block, index, replayed, cache, calls, data, changes, result,
                   reads, faults>>

Next ==
    \/ AskByHash \/ AskDebug \/ AskByArguments \/ AskByMessage
    \/ FindBlockOfMessage \/ FetchTransaction \/ FetchReceipt \/ ExtractBlock
    \/ PrepareStorageView \/ ReplayTransaction \/ EndReplay
    \/ \E c \in Contracts : CallContract(c)
    \/ \E c \in Contracts, x \in Classes : DeployContract(c, x)
    \/ \E v \in Values : Write(v)
    \/ EndExecution \/ PostExec
    \/ FetchClasses \/ MapCalls \/ FetchBefore
    \/ Others

Spec == Init /\ [][Next]_vars

-----------------------------------------------------------------------------
(* Properties *)

\* The types of the state.
TypeOK ==
    /\ inCache \in SUBSET Sierra /\ inTables \in SUBSET Sierra /\ changed \in SUBSET Sierra
    /\ pc \in PCs
    /\ args \in Args
    /\ block \in 0..Len(chain)
    /\ index \in Nat /\ (index = 0 \/ index < Len(chain[block]))
    /\ replayed \in 0..index
    /\ cache \in Cache
    /\ calls \in Seq(Call)
    /\ data \in Partial(Classes, Build)
    /\ changes \in [DOMAIN changes -> Change] /\ DOMAIN changes \subseteq DOMAIN calls
    /\ result \in {None, "shown", "messages", "resources", "unsupported", "error"}
    /\ reads \in SUBSET Read
    /\ faults \in 0..MaxFaults

\* A transaction of the chain that is run by its hash finds its own place in
\* its block by its fields, which the model has differ as they do on a chain.
\* Transactions without a nonce or calldata in the block (version 0 and
\* declarations) never match and are run before all others of their block.
FindsItself ==
    pc \notin {"ask", "transaction", "receipt", "message", "block"} /\ result = None
        /\ args.by = "hash" /\ args.kind # "declare" /\ TxNonce(args) # None
        => index = args.own[2] - 1

\* Replaying storage and deployments over the state of the block before gives
\* the execution what the chain had before its transaction; the class of a
\* contract that was upgraded earlier in the block is not (state.rs has a
\* TODO for it).
Upgraded == UNION {DOMAIN chain[block][i].effect.replace : i \in 1..index}
ReadsAreBefore ==
    \A r \in reads :
        IF r.kind = "storage" THEN r.value = Before.storage[r.contract]
        ELSE r.contract \in Upgraded
             \/ r.value = IF r.contract \in DOMAIN Before.class THEN Before.class[r.contract] ELSE None

\* As long as nothing fails, every class that was declared before the
\* transaction can be run, those of its own block included; but for Cairo 0
\* classes of its own block, whose declarations are not replayed.
NotReplayed == Deprecated \ Adjusted.declared
DeclaredClassesRun ==
    faults = 0 => \A i \in DOMAIN calls :
        calls[i].class \in Before.declared \ NotReplayed => calls[i].build # None

\* The fork is the chain as it was before the transaction: what the execution
\* reads from it and the classes it runs, whatever was replayed, fetched or
\* cached on the way.
ForkIsBefore == TypeOK /\ ReadsAreBefore /\ DeclaredClassesRun

\* The code that was executed is the code that the trace is mapped by, or the
\* steps of the trace are shown at wrong places.  A simple trace always is so;
\* a debug trace if the class had an inline build from one source at most when
\* it started, none has come or gone since, and it was not declared in the same
\* block.  A verified class whose build was missed once is another exception:
\* it has run the original code, or is shown by another build than it has run.
Steady(x) ==
    /\ x \notin changed
    /\ ~(x \in inCache /\ x \in inTables)
    /\ \A i \in 1..index : x \notin chain[block][i].effect.declare
MappedIsExecuted ==
    result = "shown" => \A i \in DOMAIN calls :
        calls[i].build # None /\ calls[i].class \in DOMAIN data
            => data[calls[i].class] = calls[i].build \/ (args.mode = "debug" /\ ~Steady(calls[i].class))

\* A change of storage is shown with the value from before the transaction,
\* and none is left out as long as the node answers.  A contract that the
\* block before does not have is different: if nobody has written to it the
\* value before is taken from the end of the block.
Kept(c) == c \in DOMAIN Adjusted.class \cup DOMAIN cache.storage
ChangesAreTrue ==
    result = "shown" /\ args.mode = "simple" =>
        /\ \A i \in DOMAIN changes :
              Kept(changes[i].contract) => changes[i].before = Before.storage[changes[i].contract]
        /\ \A i \in DOMAIN calls :
              calls[i].writes # None /\ Kept(calls[i].contract)
                  => (i \in DOMAIN changes
                      <=> calls[i].writes # Before.storage[calls[i].contract])
=============================================================================
