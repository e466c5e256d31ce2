-------------------------- MODULE SimulationResult ---------------------------
(***************************************************************************)
(* The simple trace of a transaction that has been executed: the function  *)
(* calls of its contract calls (simulate/src/function_calls.rs), and what  *)
(* simulate() then makes of both (simulate.rs): which call has failed, if  *)
(* any, which function calls are shown, which calls can be debugged.       *)
(*                                                                         *)
(* Abstracted: the function calls of a contract call are those of module   *)
(* CallTrace; here they are how many inner calls they have linked (the     *)
(* first ones of the contract call, CallTrace!CallContract) and whether    *)
(* one of them has panicked.  Decoding and names are left out.             *)
(***************************************************************************)
EXTENDS ContractCalls

CONSTANT
    Shows           \* ways in which the classes of the contracts can be known

\* `data`: a class without data, with data that does not compile, one that is
\* in the fork's cache only, one of an old compiler, of a new one without and
\* with an inline build.  `voyager`: verified by Voyager.
ClassKinds == {"none", "broken", "chain", "old", "new", "inline"}
ASSUME ShowsAssumption == \A s \in Shows : DOMAIN s.data = Contracts /\ s.voyager \subseteq Contracts

VARIABLES
    mode,           \* which of the two traces is made
    shows,
    left,           \* calls with VM data that are still to be mapped
    functions,      \* function_calls_map, by contract call
    stored,         \* calls whose storage changes are recorded
    panicCall, panicLevel,  \* the call of deepest_function_call_id_with_panic
    available,      \* call_debugger_data_available
    linked,         \* calls with a function_call_id
    events,         \* the events shown, by the call they are shown at
    result,         \* execution_result, or how the simulation ended without one
    blamed,         \* the call with the error message
    flagged         \* the call whose function is shown as the reason

built == <<left, functions, stored, panicCall, panicLevel, available, linked>>
report == <<events, result, blamed, flagged>>

NoFunctions == [c \in {} |-> None]

BuildInit ==
    /\ mode \in {"simple", "debug"}
    /\ shows \in Shows
    /\ left = {}
    /\ functions = NoFunctions
    /\ stored = {}
    /\ panicCall = None /\ panicLevel = 0
    /\ available = {} /\ linked = {}
    /\ events = <<>>
    /\ result = None /\ blamed = None /\ flagged = None

KindOf(c) == shows.data[calls[c].contract]
HasData(c) == KindOf(c) \in {"old", "new", "inline"}

-----------------------------------------------------------------------------
(* create_function_calls_map_generic *)

\* A call that has failed before it was run has no VM data; the root has none.
Begin ==
    /\ pc = "ready" /\ pc' = "build"
    /\ \E failed \in SUBSET {c \in CallIds \ {Root} : calls[c].failed /\ calls[c].kids = <<>>} :
          left' = CallIds \ ({Root} \cup failed)
    /\ UNCHANGED <<walk, mode, shows, functions, stored, panicCall, panicLevel, available, linked,
                   report>>

\* update_panic_info
IsDeeper(c) == panicCall = None \/ calls[c].level > panicLevel

\* update_call_metadata: new compilers need an inline build for the debugger.
Debuggable(c) == KindOf(c) \in {"old", "inline"}

\* One call, in whatever order the hash map has them.  `n` are the inner calls
\* that its functions have linked.
MapCall(c, n, panics) ==
    /\ pc = "build" /\ c \in left
    /\ KindOf(c) # "broken"
    /\ panics => calls[c].failed
    /\ left' = left \ {c}
    /\ stored' = IF mode = "simple" /\ KindOf(c) # "none" THEN stored \cup {c} ELSE stored
    /\ IF HasData(c)
       THEN /\ functions' = [i \in DOMAIN functions \cup {c} |->
                                IF i = c THEN [linked |-> n, panics |-> panics] ELSE functions[i]]
            /\ linked' = linked \cup {c}
            /\ available' = IF Debuggable(c) THEN available \cup {c} ELSE available \ {c}
            /\ panicCall' = IF panics /\ IsDeeper(c) THEN c ELSE panicCall
            /\ panicLevel' = IF panics /\ IsDeeper(c) THEN calls[c].level ELSE panicLevel
       ELSE n = 0 /\ ~panics /\ UNCHANGED <<functions, linked, available, panicCall, panicLevel>>
    /\ UNCHANGED <<walk, pc, mode, shows, report>>

\* One class that cannot be compiled, and the whole trace is an error.
MapBroken(c) ==
    /\ pc = "build" /\ c \in left
    /\ KindOf(c) = "broken"
    /\ pc' = "done" /\ result' = "error"
    /\ UNCHANGED <<walk, mode, shows, built, events, blamed, flagged>>

Build ==
    \/ Begin
    \/ \E c \in CallIds : \/ \E n \in 0..Len(calls[c].kids), panics \in BOOLEAN : MapCall(c, n, panics)
                          \/ MapBroken(c)

-----------------------------------------------------------------------------
(* simulate(), once the function calls are there *)

\* Mutant: the calls are marked before the function calls are built, which
\* says again what is available.
OfferedFirst == {c \in available \cup CallIds :
                    IF c \in linked THEN c \in available
                    ELSE calls[c].contract \in shows.voyager}

\* Voyager's classes can be debugged, whatever update_call_metadata has said.
Offered == available \cup {c \in CallIds : calls[c].contract \in shows.voyager}

\* A panicked function is the reason unless a call has failed deeper down.
PanicCounts == deepest # None => calls[panicCall].level >= calls[deepest].level

Reason == IF panicCall # None /\ PanicCounts THEN panicCall ELSE deepest

\* is_deepest_panic_result of a function; not if no call has failed.
Flagged == IF panicCall # None /\ deepest # None /\ PanicCounts THEN panicCall ELSE None

\* An inner call is a child of one of the function calls.
IsLinked(c, i) == i <= functions[c].linked

\* filter_and_hide_unlinked_function_calls, of visible calls only.
Unlinked == {c \in linked : /\ ~calls[c].hidden
                            /\ \E i \in DOMAIN calls[c].kids : ~IsLinked(c, i)}

\* get_execution_result.  `receipt`: the transaction's receipt has a failure
\* and its post-execution was simulated.
IsReverted(reason, receipt) == IF reason = None THEN receipt ELSE calls[reason].failed

\* An event is shown at one of the calls of its contract: the map from
\* addresses to calls keeps the last one it is given, in any order.
CallsAt(e) == {c \in CallIds : calls[c].contract = calls[e.call].contract}

KnownOf(es) ==
    LET upto[n \in 0..Len(es)] ==
            IF n = 0 THEN <<>>
            ELSE IF es[n].name = "known" THEN Append(upto[n - 1], es[n]) ELSE upto[n - 1]
    IN upto[Len(es)]
Shown == KnownOf(emitted)

\* create_emitted_events_list takes the first key of every event.
Crash ==
    /\ pc = "build" /\ mode = "simple" /\ left = {}
    /\ \E i \in DOMAIN emitted : emitted[i].name = "none"
    /\ pc' = "done" /\ result' = "crash"
    /\ UNCHANGED <<walk, mode, shows, built, events, blamed, flagged>>

Report(receipt) ==
    /\ pc = "build" /\ mode = "simple" /\ left = {}
    /\ \A i \in DOMAIN emitted : emitted[i].name # "none"
    /\ available' = Offered
    /\ linked' = linked \ Unlinked
    /\ \E at \in [DOMAIN Shown -> CallIds] :
          /\ \A i, j \in DOMAIN Shown :
                at[i] \in CallsAt(Shown[i])
                /\ (calls[at[i]].contract = calls[at[j]].contract => at[i] = at[j])
          /\ events' = [i \in DOMAIN Shown |-> at[Len(Shown) + 1 - i]]
    /\ flagged' = Flagged
    /\ IF IsReverted(Reason, receipt)
       THEN result' = "reverted" /\ blamed' = IF Reason = None THEN Root ELSE Reason
       ELSE result' = "succeeded" /\ blamed' = None
    /\ pc' = "done"
    /\ UNCHANGED <<walk, mode, shows, left, functions, stored, panicCall, panicLevel>>

-----------------------------------------------------------------------------
(* Properties *)

BuildTypeOK ==
    /\ mode \in {"simple", "debug"}
    /\ shows \in Shows
    /\ left \subseteq CallIds
    /\ DOMAIN functions \subseteq CallIds \ left
    /\ \A c \in DOMAIN functions :
          functions[c] \in [linked: 0..Len(calls[c].kids), panics: BOOLEAN]
    /\ stored \subseteq CallIds /\ available \subseteq CallIds /\ linked \subseteq DOMAIN functions
    /\ panicCall \in DOMAIN functions \cup {None} /\ panicLevel \in Nat
    /\ events \in Seq(CallIds)
    /\ result \in {None, "succeeded", "reverted", "debugged", "error", "crash"}
    /\ blamed \in CallIds \cup {None} /\ flagged \in CallIds \cup {None}

Reported == pc = "done" /\ mode = "simple" /\ result \in {"succeeded", "reverted"}
Failed == {c \in CallIds : calls[c].failed}

\* The failed calls lie on one chain from a call of the account down, as they
\* do when a failure is not caught: each has failed for the one below it.
OneChain == \A c, d \in Failed : c \in Path[d] \/ d \in Path[c]

\* A transaction with a failed call is reported as reverted, with the message
\* at a call that has failed; and if the failed calls lie on one chain, it is
\* the call that failed first, whatever order the function calls were built
\* in and whoever of the chain has function calls.  The function shown as the
\* reason is one of that call, and no function of a deeper call has panicked.
FailureExplained ==
    /\ Reported /\ Failed # {} =>
          /\ result = "reverted" /\ blamed \in Failed
          /\ OneChain => \A c \in Failed : c \in Path[blamed]
    /\ Reported /\ flagged # None =>
          /\ flagged = blamed /\ functions[flagged].panics
          /\ \A c \in DOMAIN functions :
                functions[c].panics => calls[c].level <= calls[flagged].level

\* Nothing of a call is lost.  Through function calls or without them its
\* inner calls are shown: if its function calls are kept they link them all,
\* and they are kept whenever they do.  A class that Voyager has verified can
\* be debugged, with function calls and without.  An event is shown at a call
\* of the contract that has emitted it, at the very call if there is but one.
CallsShown ==
    Reported =>
        /\ \A c \in DOMAIN functions :
              ~calls[c].hidden => (c \in linked <=> functions[c].linked = Len(calls[c].kids))
        /\ \A c \in CallIds : calls[c].contract \in shows.voyager => c \in available
        /\ \A i \in DOMAIN events :
              LET e == Shown[Len(events) + 1 - i]
                  there == {c \in CallIds : calls[c].contract = calls[e.call].contract}
              IN events[i] \in there /\ (Cardinality(there) = 1 => events[i] = e.call)
=============================================================================
