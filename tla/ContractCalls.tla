---------------------------- MODULE ContractCalls ----------------------------
(***************************************************************************)
(* The contract calls of a transaction that has been executed, as they are *)
(* numbered for a trace: simulate/src/contract_calls_map.rs walks the call *)
(* trace of the executor once, a call before the calls it has made.        *)
(*                                                                         *)
(* The executor's trace is not a variable: each step of the walk finds     *)
(* another call (or the end of one) that an executor can have left there.  *)
(* Deployments without a constructor are passed over and not modelled.     *)
(***************************************************************************)
EXTENDS Integers, Sequences, FiniteSets

CONSTANTS
    Contracts,      \* storage addresses
    Account,        \* the account that the transaction is sent by
    Strk,           \* the STRK token, by which fees are paid
    None,
    MaxCalls,       \* bound: calls in the trace, the root included
    MaxEvents       \* bound: events emitted

ASSUME ContractsAssumption == {Account, Strk} \subseteq Contracts /\ Account # Strk
ASSUME BoundsAssumption == MaxCalls \in Nat \ {0} /\ MaxEvents \in Nat
ASSUME NoneAssumption == None \notin Nat

VARIABLES
    calls,          \* contract_calls_map; the call ids are 1, 2, ...
    open,           \* calls being walked, each with the flame chart node whose
                    \* list of children its calls are put into
    flame,          \* flame chart: for each node, the node that has it
    deepest, deepestLevel,  \* deepest_failed_contract_call_id and its level
    emitted,        \* detected_events
    pc

walk == <<calls, open, flame, deepest, deepestLevel, emitted>>

Root == 1
Top == 0            \* the list of the chart itself
CallIds == DOMAIN calls

Call == [contract: Contracts \cup {None}, entry: {"root", "validate", "execute", "other"},
         parent: Nat, kids: Seq(Nat), level: Nat, failed: BOOLEAN, hidden: BOOLEAN]

NewCall(contract, entry, parent, level, failed, hidden) ==
    [contract |-> contract, entry |-> entry, parent |-> parent, kids |-> <<>>,
     level |-> level, failed |-> failed, hidden |-> hidden]

WalkInit ==
    /\ calls = <<NewCall(None, "root", 0, 0, FALSE, TRUE)>>
    /\ open = <<[call |-> Root, list |-> Top]>>
    /\ flame = [i \in {} |-> Top]
    /\ deepest = None
    /\ deepestLevel = 0
    /\ emitted = <<>>
    /\ pc = "walk"

Here == open[Len(open)]

\* The account is asked to validate and to execute, even if it has not
\* validated; a fee that cannot be paid is an error and leaves no trace.
\* Everything else is called by one of these.
Entry(n) == <<"validate", "execute", "other">>[n]
Calls(contract, entry, failed) ==
    LET n == Len(calls[Here.call].kids) + 1
    IN \/ /\ Here.call = Root /\ n <= 3
          /\ entry = Entry(n)
          /\ contract = IF n = 3 THEN Strk ELSE Account
          /\ n = 3 => ~failed
       \/ Here.call # Root /\ entry = "other"

\* Mutant: the first failed call stays, wherever the others are.
DeeperFirst(level) == deepest = None

\* The level is that of the first failed call, also when the call is replaced.
Deeper(level) == deepest = None \/ level > deepestLevel

\* Mutant: the calls of a hidden call go nowhere.
ListOfHidden(id, hidden) == id

\* The calls of a hidden call are put where the call would have been.
ListOf(id, hidden) == IF hidden THEN Here.list ELSE id

\* process_call, up to the calls it has made.
EnterCall(contract, entry, failed) ==
    /\ pc = "walk" /\ Len(calls) < MaxCalls
    /\ Calls(contract, entry, failed)
    /\ LET id == Len(calls) + 1
           level == Len(open)
           hidden == contract = Strk
       IN /\ calls' = Append([calls EXCEPT ![Here.call].kids = Append(@, id)],
                             NewCall(contract, entry, Here.call, level, failed, hidden))
          /\ deepest' = IF failed /\ Deeper(level) THEN id ELSE deepest
          /\ deepestLevel' = IF failed /\ deepest = None THEN level ELSE deepestLevel
          /\ flame' = IF hidden THEN flame
                      ELSE [i \in DOMAIN flame \cup {id} |-> IF i = id THEN Here.list ELSE flame[i]]
          /\ open' = Append(open, [call |-> id, list |-> ListOf(id, hidden)])
    /\ UNCHANGED <<emitted, pc>>

\* An event of the call that is being walked.  `keys[0]` of an event is its
\* name; a contract may emit events without keys, and of names that no ABI has.
EmitEvent(name) ==
    /\ pc = "walk" /\ Here.call # Root /\ Len(emitted) < MaxEvents
    /\ emitted' = Append(emitted, [call |-> Here.call, name |-> name])
    /\ UNCHANGED <<calls, open, flame, deepest, deepestLevel, pc>>

\* Back to the caller; when the root is left, all calls have their numbers.
LeaveCall ==
    /\ pc = "walk"
    /\ \/ Len(open) > 1 /\ open' = SubSeq(open, 1, Len(open) - 1) /\ UNCHANGED pc
       \/ Len(open) = 1 /\ Len(calls) > 1 /\ pc' = "ready" /\ UNCHANGED open
    /\ UNCHANGED <<calls, flame, deepest, deepestLevel, emitted>>

Walk ==
    \/ \E contract \in Contracts, entry \in {"validate", "execute", "other"}, failed \in BOOLEAN :
          EnterCall(contract, entry, failed)
    \/ \E name \in {"known", "unknown", "none"} : EmitEvent(name)
    \/ LeaveCall

-----------------------------------------------------------------------------

\* A call, the one that has made it, and so on up to the root.
PathIn(cs) ==
    LET path[c \in Nat] == IF c \notin DOMAIN cs THEN {} ELSE {c} \cup path[cs[c].parent]
    IN path
Path == PathIn(calls)

\* The types; calls are numbered before those they have made, and are the
\* children of their parents, in the order of the ids, and of nobody else.
WalkTypeOK ==
    /\ calls \in Seq(Call)
    /\ open \in Seq([call: CallIds, list: CallIds \cup {Top}]) /\ Len(open) > 0
    /\ DOMAIN flame \subseteq CallIds
    /\ deepest \in CallIds \cup {None}
    /\ deepestLevel \in Nat
    /\ emitted \in Seq([call: CallIds, name: {"known", "unknown", "none"}])
    /\ \A c \in CallIds :
          /\ c # Root => /\ calls[c].parent \in 1..c - 1
                         /\ calls[c].level = calls[calls[c].parent].level + 1
          /\ LET kids == calls[c].kids
             IN /\ \A i, j \in DOMAIN kids : i < j => kids[i] < kids[j]
                /\ {kids[i] : i \in DOMAIN kids} = {d \in CallIds : calls[d].parent = c}

\* The flame chart has the visible calls, each under the nearest visible call
\* above it, whatever hidden calls are between them.
FlameIsVisibleTree ==
    /\ DOMAIN flame = {c \in CallIds : ~calls[c].hidden}
    /\ \A c \in DOMAIN flame :
          LET above == Path[calls[c].parent] \cap DOMAIN flame
          IN flame[c] = IF above = {} THEN Top ELSE CHOOSE a \in above : \A b \in above : b <= a
=============================================================================
