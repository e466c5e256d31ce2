--------------------------- MODULE SimulationTrace ---------------------------
(***************************************************************************)
(* The debug trace of a transaction that has been executed: the traces of  *)
(* its contract calls put together into one (simulate/src/                 *)
(* debugger_trace.rs), the step that each call is shown at, and the step   *)
(* the debugger starts from (debugger.rs).  The calls are those of         *)
(* ContractCalls, their functions are built as for the simple trace.       *)
(*                                                                         *)
(* Abstracted: a mapped call has the entry point's wrapper, which is       *)
(* hidden, and possibly the real entry point, which is its body and has    *)
(* made the inner calls.  Events are only looked at for the simple trace.  *)
(***************************************************************************)
EXTENDS SimulationResult

CONSTANT
    Shapes          \* what the functions of a call and its trace can look like

VARIABLES
    shape,          \* of each mapped call: has it a body, and its execution_trace
    work,           \* what merge_debugger_trace has still to do, the next first
    trace,          \* the debugger trace
    callStep,       \* debugger_trace_step_index of contract calls
    functionStep,   \* and of functions
    initial         \* initial_step_index

debug == <<shape, work, trace, callStep, functionStep, initial>>
vars == <<walk, pc, mode, shows, built, report, debug>>

Parts == {"wrapper", "body"}
\* `lead`: the locations before the inner calls; `back`: one after them.
ASSUME ShapesAssumption ==
    \A s \in Shapes :
        /\ s.body \in BOOLEAN /\ s.back \in BOOLEAN
        /\ s.lead \in Seq(IF s.body THEN Parts ELSE {"wrapper"})
        /\ s.back => s.body

\* `at`: which of the call's locations it is.
Location(c, part, i) == [kind |-> "location", call |-> c, part |-> part, at |-> i]
Inner(c) == [kind |-> "call", call |-> c, part |-> "wrapper", at |-> 0]

Init ==
    /\ WalkInit /\ BuildInit
    /\ shape = [c \in {} |-> None]
    /\ work = <<>> /\ trace = <<>>
    /\ callStep = [c \in {} |-> None] /\ functionStep = [f \in {} |-> None]
    /\ initial = None

Kids(c) == [i \in DOMAIN calls[c].kids |-> Inner(calls[c].kids[i])]

\* The execution_trace of a call: it steps into the inner calls that its
\* functions have linked; a trace may be empty.
TraceOf(c) ==
    LET s == shape[c]
    IN [i \in DOMAIN s.lead |-> Location(c, s.lead[i], i)]
           \o SubSeq(Kids(c), 1, functions[c].linked)
           \o (IF s.back THEN <<Location(c, "body", Len(s.lead) + 1)>> ELSE <<>>)

\* All calls have been mapped; the merge begins at the root.
Merge ==
    /\ pc = "build" /\ mode = "debug" /\ left = {}
    /\ shape' \in [DOMAIN functions -> Shapes]
    /\ \A c \in DOMAIN functions : functions[c].linked > 0 => shape'[c].body
    /\ work' = <<Inner(Root)>>
    /\ pc' = "merge"
    /\ UNCHANGED <<walk, mode, shows, built, report, trace, callStep, functionStep, initial>>

HasTrace(c) == c \in DOMAIN functions /\ TraceOf(c) # <<>>

Merging == pc = "merge" /\ work # <<>>
Kept == UNCHANGED <<walk, pc, mode, shows, built, report, shape, initial>>

\* The step with index i, from zero as in the code.
At(i) == IF i + 1 \in DOMAIN trace THEN trace[i + 1] ELSE Inner(Root)

Put(f, x, step) == [y \in DOMAIN f \cup {x} |-> IF y \in DOMAIN f THEN f[y] ELSE step]

\* Mutant: the index is that of the step that comes next.
LastIndexNext(t) == Len(t)

LastIndex(t) == Len(t) - 1

\* A call and a function are shown at their first location.
MergeLocation ==
    /\ Merging /\ work[1].kind = "location"
    /\ trace' = Append(trace, work[1])
    /\ functionStep' = Put(functionStep, <<work[1].call, work[1].part>>, LastIndex(trace'))
    /\ callStep' = Put(callStep, work[1].call, LastIndex(trace'))
    /\ work' = Tail(work)
    /\ Kept

MergeCall ==
    /\ Merging /\ work[1].kind = "call" /\ HasTrace(work[1].call)
    /\ work' = TraceOf(work[1].call) \o Tail(work)
    /\ UNCHANGED <<trace, callStep, functionStep>> /\ Kept

Instead(c) == Kids(c)

\* The reason is shown in place of the trace, and then the inner calls.
MergeNoTrace ==
    /\ Merging /\ work[1].kind = "call" /\ ~HasTrace(work[1].call)
    /\ trace' = Append(trace, work[1])
    /\ work' = Instead(work[1].call) \o Tail(work)
    /\ UNCHANGED <<callStep, functionStep>> /\ Kept

\* Functions without a location are shown where their contract call is.
Inherit ==
    /\ pc = "merge" /\ work = <<>>
    /\ functionStep' =
          [f \in DOMAIN functionStep \cup
                 {x \in (DOMAIN callStep) \X Parts :
                     x[1] \in DOMAIN functions /\ (x[2] = "body" => shape[x[1]].body)} |->
              IF f \in DOMAIN functionStep THEN functionStep[f] ELSE callStep[f[1]]]
    /\ pc' = "point"
    /\ UNCHANGED <<walk, mode, shows, built, report, shape, work, trace, callStep, initial>>

-----------------------------------------------------------------------------
(* Where the debugger starts, and where it goes for a call *)

\* find_real_entrypoint_step
RealStep(c) ==
    IF <<c, "body">> \in DOMAIN functionStep THEN functionStep[<<c, "body">>] ELSE None

\* find_first_verified_child_entrypoint_step looks at a call before those it
\* has made, which is the order of the ids.
FirstVerified(c) ==
    LET below == {d \in CallIds \ {c} : c \in Path[d] /\ RealStep(d) # None}
    IN IF below = {} THEN None ELSE RealStep(CHOOSE d \in below : \A e \in below : d <= e)

StartIn(entry) ==
    LET of == {c \in CallIds : calls[c].entry = entry}
        account == CHOOSE c \in of : TRUE
    IN IF of = {} THEN None
       ELSE IF RealStep(account) # None THEN RealStep(account) ELSE FirstVerified(account)

\* find_initial_debugger_step, and then apply_real_entrypoint_step_indices.
Point ==
    /\ pc = "point"
    /\ initial' = IF StartIn("validate") # None THEN StartIn("validate") ELSE StartIn("execute")
    /\ callStep' = [c \in DOMAIN callStep |-> IF RealStep(c) # None THEN RealStep(c) ELSE callStep[c]]
    /\ functionStep' = [f \in DOMAIN functionStep |->
                           IF f[2] = "wrapper" /\ RealStep(f[1]) # None THEN RealStep(f[1])
                           ELSE functionStep[f]]
    /\ pc' = "done" /\ result' = "debugged"
    /\ UNCHANGED <<walk, mode, shows, built, events, blamed, flagged, shape, work, trace>>

-----------------------------------------------------------------------------

Next ==
    \/ /\ Walk
       /\ mode = "debug" => emitted' = <<>>
       /\ UNCHANGED <<mode, shows, built, report, debug>>
    \/ Build /\ UNCHANGED debug
    \/ Crash /\ UNCHANGED debug
    \/ \E receipt \in BOOLEAN : Report(receipt) /\ UNCHANGED debug
    \/ Merge
    \/ MergeLocation
    \/ MergeCall
    \/ MergeNoTrace
    \/ Inherit
    \/ Point

Spec == Init /\ [][Next]_vars

-----------------------------------------------------------------------------
(* Properties *)

Step == [kind: {"location", "call"}, call: CallIds, part: Parts, at: Nat]

\* The calls, their numbers and the traces have their types, and the flame
\* chart is the tree of the visible calls from the first step to the last.
TreeOK ==
    /\ WalkTypeOK /\ BuildTypeOK /\ FlameIsVisibleTree
    /\ work \in Seq(Step) /\ trace \in Seq(Step)
    /\ DOMAIN callStep \subseteq CallIds /\ DOMAIN functionStep \subseteq CallIds \X Parts
    /\ pc \in {"walk", "ready", "build", "merge", "point", "done"}

Debugged == pc = "done" /\ result = "debugged"

\* A call is stepped into unless it is an inner call that the functions of
\* a call above it have not linked (a library call, a deployment).
IsReached(c) ==
    \A d \in Path[c] \ {Root} :
        LET p == calls[d].parent
        IN HasTrace(p) => \E i \in 1..functions[p].linked : calls[p].kids[i] = d

\* A call's own steps; a call without a trace stands for itself.
Own(c) ==
    IF HasTrace(c)
    THEN {s \in {TraceOf(c)[i] : i \in DOMAIN TraceOf(c)} : s.kind = "location"}
    ELSE {Inner(c)}

\* Every call is stepped into once: its own steps are there, in their order,
\* also if a call without a trace has made it.  The debugger goes through the
\* calls in the order in which they were made, and back to their callers.
MergedOnce ==
    /\ {trace[i] : i \in DOMAIN trace} = UNION {Own(c) : c \in {d \in CallIds : IsReached(d)}}
    /\ \A i, j \in DOMAIN trace :
          i < j => \/ trace[i].call < trace[j].call
                   \/ trace[i].call = trace[j].call /\ trace[i].at < trace[j].at
                   \/ trace[j].call \in Path[trace[i].call] \ {trace[i].call}

\* Where a call or one of its functions is shown is a location of that call,
\* and not behind its body: of the body if the debugger has seen it there.
IsBodyOf(c, s) == s.kind = "location" /\ s.call = c /\ s.part = "body"
StepsAreOwn ==
    /\ \A c \in DOMAIN callStep : At(callStep[c]).kind = "location" /\ At(callStep[c]).call = c
    /\ \A f \in DOMAIN functionStep :
          /\ At(functionStep[f]).call = f[1]
          /\ (\E i \in DOMAIN trace : IsBodyOf(f[1], trace[i]))
                => IsBodyOf(f[1], At(functionStep[f]))

\* The debugger starts in the account's validation or execution, in the real
\* entry point of the account or of a call below; without a start, there is
\* no entry point that it could have started from.
StartsAtEntryPoint ==
    LET accounts == {c \in CallIds : calls[c].entry \in {"validate", "execute"}}
        entries == {d \in CallIds : <<d, "body">> \in DOMAIN functionStep
                                    /\ Path[d] \cap accounts # {}}
    IN IF initial = None THEN entries = {}
       ELSE At(initial).kind = "location" /\ At(initial).call \in entries

\* The debugger can walk the whole transaction: every call is stepped into
\* once and in order, and the indexes of calls and functions, made on the way
\* and corrected at the end, lead to steps of their own.
DebuggerWalksCalls == Debugged => MergedOnce /\ StepsAreOwn /\ StartsAtEntryPoint
=============================================================================
