------------------------------ MODULE CallTrace ------------------------------
(***************************************************************************)
(* The function calls of one contract call, rebuilt from the trace of the  *)
(* Cairo VM (internal-tracing/src/call_trace.rs, CallTraceBuilder).  The   *)
(* builder takes one trace entry after the other and tells the calls from  *)
(* the frame pointer: a higher one is an entry into a function, a lower    *)
(* one a return.  `stack` is the VM's own stack, which the builder does    *)
(* not see; it is there to say what the result should be.                  *)
(*                                                                         *)
(* Abstracted: arguments and decoded values; a result is a panic or not.   *)
(* The debugger's trace is built in every run; simple traces only build    *)
(* the tree, by the same steps.                                            *)
(***************************************************************************)
EXTENDS Integers, Sequences, FiniteSets

CONSTANTS
    Named, Core,    \* functions of the contract; functions of core::
    Loops,          \* loops, which are compiled to functions of their own
    Owner,          \* the function or loop each loop is part of
    Unnamed,        \* a function without a debug name
    Wrapper,        \* the entry point, which no function calls
    Children,       \* the contract calls this one has made, in order
    LocationLists,  \* the code locations that a Sierra statement can have
    First,          \* next_call_id when the trace is begun
    None,           \* no call, no location
    MaxFrames,      \* bound: frames entered
    MaxEvents       \* bound: entries with a system call or with code locations

Functions == Named \cup Core \cup Loops \cup {Unnamed, Wrapper}

ASSUME FunctionsAssumption ==
    /\ Named \cap Loops = {} /\ Core \cap Loops = {}
    /\ {Unnamed, Wrapper} \cap (Named \cup Core \cup Loops) = {}
    /\ \A l \in Loops : Owner[l] \in Named \cup Loops
ASSUME FirstAssumption == First \in Nat \ {0}
ASSUME ChildrenAssumption ==
    /\ Children \in Seq(1..First - 1)
    /\ \A i, j \in DOMAIN Children : Children[i] = Children[j] => i = j
ASSUME NoneAssumption == None \notin Int
ASSUME LocationsAssumption ==
    \A locs \in LocationLists : locs \in Seq({locs[i] : i \in DOMAIN locs} \ {None})

VARIABLES
    nodes,          \* function_calls_map and event_calls_map, by call id
    next_call_id,
    current,        \* current_call_id
    nesting,        \* nesting_level
    loopParent,     \* loop_parent_map
    childIndex,     \* contract_call_index
    panicLevel,     \* deepest_panic_result_level
    panicCall,      \* deepest_panic_result_call_id
    trace,          \* debugger_execution_trace
    prevLocation, prevLocations,
    \* the VM and history
    stack,          \* frames: fp, function and the call it belongs to
    frames,         \* frames entered so far, which is the fp of the last
    made,           \* for each inner call, how and in which call it was made
    panicked,       \* the call whose frame has panicked first
    shape,          \* what was entered: only functions with calls of their
                    \* own, loops too, or unnamed functions as well
    events,         \* entries with a system call or with code locations so far
    pc

vars == <<nodes, next_call_id, current, nesting, loopParent, childIndex, panicLevel, panicCall,
          trace, prevLocation, prevLocations,
          stack, frames, made, panicked, shape, events, pc>>

Root == First

\* `kids` are the children_call_ids: calls and events by the ids they get
\* here, inner contract calls by the ids they have.  `from` is the fp of the
\* frame whose results are recorded.
Node == [kind: {"function", "event"}, fn: Functions, parent: Nat, kids: SUBSET Nat, fp: Nat,
         hidden: BOOLEAN, result: {"none", "ok", "panic"}, from: Nat]

FunctionCall(fn, parent, fp) ==
    [kind |-> "function", fn |-> fn, parent |-> parent, kids |-> {}, fp |-> fp,
     hidden |-> fn \in Core \cup {Wrapper}, result |-> "none", from |-> 0]
EventCall(parent) ==
    [kind |-> "event", fn |-> Unnamed, parent |-> parent, kids |-> {}, fp |-> 0,
     hidden |-> FALSE, result |-> "none", from |-> 0]

\* The first entry is the entry point's, whose wrapper is hidden.
Init ==
    /\ nodes = [i \in {Root} |-> FunctionCall(Wrapper, 0, 1)]
    /\ next_call_id = First + 1
    /\ current = Root
    /\ nesting = 0
    /\ loopParent = [l \in {} |-> 0]
    /\ childIndex = 0
    /\ panicLevel = -1
    /\ panicCall = None
    /\ trace = <<>>
    /\ prevLocation = None
    /\ prevLocations = <<>>
    /\ stack = <<[fp |-> 1, fn |-> Wrapper, call |-> Root]>>
    /\ frames = 1
    /\ made = <<>>
    /\ panicked = None
    /\ shape = "straight"
    /\ events = 0
    /\ pc = "run"

Top == stack[Len(stack)]

-----------------------------------------------------------------------------
(* The debugger's part of an entry *)

AtLocation(call, loc) == [kind |-> "location", call |-> call, loc |-> loc]
AtContractCall(child) == [kind |-> "contract", call |-> child, loc |-> None]

\* A location that is not the last one, of a statement that has not the same
\* list as the last statement.
IsNew(locs, i) ==
    LET prev == IF i = 1 THEN prevLocation ELSE locs[i - 1]
    IN prev = None \/ (locs[i] # prev /\ locs # prevLocations)

\* The debugger's trace after the first i locations of a statement.
Added(call, locs, i) ==
    LET upto[n \in 0..Len(locs)] ==
            IF n = 0 THEN trace
            ELSE IF IsNew(locs, n) THEN Append(upto[n - 1], AtLocation(call, locs[n]))
            ELSE upto[n - 1]
    IN upto[i]

\* process_debugger_trace, for the call that is current by now.  An entry of
\* several statements is followed by entries that stay, one for each.
Located(locs) ==
    /\ events' = IF locs = <<>> THEN events ELSE events + 1
    /\ events' <= MaxEvents
    /\ trace' = Added(current', locs, Len(locs))
    /\ prevLocation' = IF locs = <<>> THEN prevLocation ELSE locs[Len(locs)]
    /\ prevLocations' = locs

\* An entry without a statement.
Unlocated == UNCHANGED <<events, trace, prevLocation, prevLocations>>

-----------------------------------------------------------------------------
(* Entries into functions *)

\* Mutant: calls of core:: are not entered in their parents.
AttachShown(parent, node) ==
    nodes' = [i \in DOMAIN nodes \cup {next_call_id} |->
                 IF i = next_call_id THEN node
                 ELSE IF i = parent /\ ~node.hidden
                 THEN [nodes[i] EXCEPT !.kids = @ \cup {next_call_id}]
                 ELSE nodes[i]]

\* The new call gets the next id and becomes a child of `parent`.
Attach(parent, node) ==
    nodes' = [i \in DOMAIN nodes \cup {next_call_id} |->
                 IF i = next_call_id THEN node
                 ELSE IF i = parent THEN [nodes[i] EXCEPT !.kids = @ \cup {next_call_id}]
                 ELSE nodes[i]]

Enter ==
    /\ pc = "run" /\ panicked = None /\ frames < MaxFrames
    /\ frames' = frames + 1
    /\ UNCHANGED <<childIndex, panicLevel, panicCall, made, panicked, pc>>

Push(fn, call) == stack' = Append(stack, [fp |-> frames + 1, fn |-> fn, call |-> call])

\* create_new_function_call: those of core:: are hidden.
EnterFunction(fn) ==
    /\ fn \in Named \cup Core
    /\ Enter
    /\ Attach(current, FunctionCall(fn, current, frames + 1))
    /\ next_call_id' = next_call_id + 1
    /\ current' = next_call_id
    /\ nesting' = nesting + 1
    /\ Push(fn, next_call_id)
    /\ UNCHANGED <<loopParent, shape>>

\* Mutant: the parent of a loop is whatever call is current.
EnterLoopAnew(fn) ==
    /\ fn \in Loops /\ Top.fn \in {fn, Owner[fn]}
    /\ Enter
    /\ loopParent' = [l \in DOMAIN loopParent \cup {fn} |->
                         IF l = fn THEN current ELSE loopParent[l]]
    /\ Push(fn, Top.call)
    /\ shape' = IF shape = "straight" THEN "loops" ELSE shape
    /\ UNCHANGED <<nodes, next_call_id, current, nesting>>

\* A loop gets no call; the first time it is entered, the current call is
\* remembered as its parent, and every time after that is current again.  A
\* loop is entered by the code it is part of, and by itself.
EnterLoop(fn) ==
    /\ fn \in Loops /\ Top.fn \in {fn, Owner[fn]}
    /\ Enter
    /\ \/ /\ fn \in DOMAIN loopParent
          /\ current' = loopParent[fn]
          /\ UNCHANGED loopParent
       \/ /\ fn \notin DOMAIN loopParent
          /\ loopParent' = [l \in DOMAIN loopParent \cup {fn} |->
                               IF l = fn THEN current ELSE loopParent[l]]
          /\ UNCHANGED current
    /\ Push(fn, Top.call)
    /\ shape' = IF shape = "straight" THEN "loops" ELSE shape
    /\ UNCHANGED <<nodes, next_call_id, nesting>>

\* No debug name, or no function at the entry's statement.
EnterUnnamed ==
    /\ Enter
    /\ Push(Unnamed, Top.call)
    /\ shape' = "unnamed"
    /\ UNCHANGED <<nodes, next_call_id, current, nesting, loopParent>>

-----------------------------------------------------------------------------
(* Returns *)

\* Mutant: a return is looked for in the frame of the call itself.
LeavesToItself(fp) ==
    /\ nodes[current].parent # 0
    /\ nodes[current].fp = fp

\* A return leaves the current call if it comes back to the parent's frame.
Leaves(fp) ==
    /\ nodes[current].parent # 0
    /\ nodes[nodes[current].parent].fp = fp

\* Mutant: a later panic counts as deeper.
IsDeepestLast == TRUE

\* check_for_panic_result
IsDeepest == nesting > panicLevel

\* A panic goes through every frame up to the root.
Return(panics) ==
    /\ pc = "run" /\ Len(stack) > 1
    /\ panicked # None => panics
    /\ panicked' = IF panics /\ panicked = None THEN Top.call ELSE panicked
    /\ stack' = SubSeq(stack, 1, Len(stack) - 1)
    /\ IF Leaves(stack[Len(stack) - 1].fp)
       THEN /\ nodes' = [nodes EXCEPT ![current].result = IF panics THEN "panic" ELSE "ok",
                                      ![current].from = Top.fp]
            /\ current' = nodes[current].parent
            /\ nesting' = nesting - 1
            /\ panicLevel' = IF panics /\ IsDeepest THEN nesting ELSE panicLevel
            /\ panicCall' = IF panics /\ IsDeepest THEN current ELSE panicCall
       ELSE UNCHANGED <<nodes, current, nesting, panicLevel, panicCall>>
    /\ UNCHANGED <<next_call_id, loopParent, childIndex, frames, made, shape, pc>>

-----------------------------------------------------------------------------
(* Entries that stay in their frame.  A system call is made in the middle of *)
(* a libfunc, never where a frame begins or is returned to.                  *)

Stay ==
    /\ pc = "run" /\ panicked = None
    /\ UNCHANGED <<nodes, next_call_id, current, childIndex, made>>

Frame == UNCHANGED <<nesting, loopParent, panicLevel, panicCall, stack, frames, panicked,
                     shape, pc>>

SysCall ==
    /\ pc = "run" /\ panicked = None /\ events < MaxEvents
    /\ events' = events + 1
    /\ UNCHANGED current

\* The VM makes the next inner call, by call_contract or otherwise: library
\* calls and deployments are inner calls too.
Makes(kind) ==
    /\ Len(made) < Len(Children)
    /\ made' = Append(made, [kind |-> kind, call |-> Top.call])

\* Mutant: the index is not advanced.
NotAdvanced(i) == i

Advanced(i) == i + 1

\* handle_system_calls takes the next inner call for the one of call_contract.
CallContract ==
    /\ SysCall /\ Makes("call_contract")
    /\ LET child == Children[childIndex + 1]
       IN /\ nodes' = [nodes EXCEPT ![current].kids = @ \cup {child}]
          /\ trace' = Append(trace, AtContractCall(child))
    /\ childIndex' = Advanced(childIndex)
    /\ UNCHANGED <<next_call_id, prevLocation, prevLocations>>

\* Library calls and deployments are not looked at.
LibraryCall ==
    /\ SysCall /\ Makes("library_call")
    /\ UNCHANGED <<nodes, next_call_id, childIndex, trace, prevLocation, prevLocations>>

\* An event with a name gets an id of its own.
EmitEvent ==
    /\ SysCall
    /\ Attach(current, EventCall(current))
    /\ next_call_id' = next_call_id + 1
    /\ UNCHANGED <<childIndex, made, trace, prevLocation, prevLocations>>

-----------------------------------------------------------------------------

\* check_root_panic_result: without a panic so far, the last entry tells
\* whether the root has panicked.
Finish(panics) ==
    /\ pc = "run" /\ Len(stack) = 1
    /\ panicked # None => panics
    /\ pc' = "done"
    /\ panicked' = IF panics /\ panicked = None THEN Top.call ELSE panicked
    /\ panicCall' = IF panics /\ panicCall = None THEN Root ELSE panicCall
    /\ UNCHANGED <<nodes, next_call_id, current, nesting, loopParent, childIndex, panicLevel,
                   trace, prevLocation, prevLocations,
                   stack, frames, made, shape, events>>

Next ==
    \/ \E locs \in LocationLists :
          /\ \/ \E fn \in Named \cup Core : EnterFunction(fn)
             \/ \E fn \in Loops : EnterLoop(fn)
             \/ EnterUnnamed
             \/ \E panics \in BOOLEAN : Return(panics)
             \/ Stay /\ Frame
          /\ Located(locs)
    \/ (EnterUnnamed \/ \E panics \in BOOLEAN : Return(panics)) /\ Unlocated
    \/ CallContract /\ Frame
    \/ LibraryCall /\ Frame
    \/ EmitEvent /\ Frame
    \/ \E panics \in BOOLEAN : Finish(panics)

Spec == Init /\ [][Next]_vars

-----------------------------------------------------------------------------
(* Properties *)

EntryType == [kind: {"location", "contract"}, call: Nat,
              loc: {None} \cup UNION {{locs[i] : i \in DOMAIN locs} : locs \in LocationLists}]

\* The types of the state but for `trace`; ids are given out without a gap.
TypeOK ==
    /\ next_call_id \in Nat
    /\ nodes \in [Root..next_call_id - 1 -> Node]
    /\ current \in DOMAIN nodes
    /\ nesting \in Int
    /\ DOMAIN loopParent \subseteq Loops
    /\ \A l \in DOMAIN loopParent : loopParent[l] \in DOMAIN nodes
    /\ childIndex \in 0..Len(made)
    /\ panicLevel \in Int
    /\ panicCall \in DOMAIN nodes \cup {None}
    /\ stack \in Seq([fp: Nat, fn: Functions, call: DOMAIN nodes]) /\ Len(stack) > 0
    /\ frames \in Nat
    /\ made \in Seq([kind: {"call_contract", "library_call"}, call: DOMAIN nodes])
    /\ Len(made) <= Len(Children)
    /\ shape \in {"straight", "loops", "unnamed"}
    /\ panicked \in DOMAIN nodes \cup {None}

Parent(i) == nodes[i].parent
Straight == shape = "straight"
IsFunction(i) == nodes[i].kind = "function"

\* Whatever loops, unnamed functions and system calls come, the calls form a
\* tree under the root: parents are function calls with a smaller id, a call
\* is a child of its parent and of nobody else, and each inner contract call
\* is linked by at most one call.  The front end walks this tree by
\* children_call_ids.
TreeOK ==
    /\ TypeOK
    /\ Parent(Root) = 0 /\ IsFunction(Root) /\ IsFunction(current)
    /\ \A i \in DOMAIN nodes \ {Root} :
          Parent(i) \in DOMAIN nodes /\ Parent(i) < i /\ IsFunction(Parent(i))
    /\ \A i, j \in DOMAIN nodes : j \in nodes[i].kids <=> Parent(j) = i
    /\ \A i, j \in DOMAIN nodes :
          nodes[i].kids \cap nodes[j].kids # {} => i = j

\* In a trace without loops and unnamed functions the builder knows the
\* stack: the current call is that of the VM's frame, the parents are those
\* of the frames below, and every call has the results of its own frame.
CallsMatchFrames ==
    Straight =>
        /\ current = Top.call
        /\ nesting = Len(stack) - 1
        /\ \A k \in 2..Len(stack) : Parent(stack[k].call) = stack[k - 1].call
        /\ \A k \in 1..Len(stack) : nodes[stack[k].call].fp = stack[k].fp
        /\ \A i \in DOMAIN nodes : nodes[i].from \in {0, nodes[i].fp}

\* The call shown as the reason of a failure panicked itself; without loops
\* and unnamed functions it is the one whose frame panicked first.
PanicIsFirst ==
    pc = "done" =>
        /\ panicCall = None <=> panicked = None
        /\ panicCall \notin {None, Root} => nodes[panicCall].result = "panic"
        /\ Straight => panicCall = panicked

Steps == {k \in DOMAIN trace : trace[k].kind = "contract"}
StepsInto(k, child) == k \in Steps /\ trace[k].call = child

\* In a trace without library calls and deployments, an inner contract call
\* hangs under the function that made it (as long as the current call is
\* known), and the debugger steps into every inner call once, in the order in
\* which they were made.  It never stops at the same location twice in a row.
InnerCallsLinked ==
    /\ (\A i \in DOMAIN made : made[i].kind = "call_contract") =>
          /\ \A k \in Steps : \E i \in DOMAIN made : StepsInto(k, Children[i])
          /\ \A i \in DOMAIN made : \E k \in Steps : StepsInto(k, Children[i])
          /\ \A i, j \in DOMAIN made : \A k, n \in Steps :
                StepsInto(k, Children[i]) /\ StepsInto(n, Children[j]) => (k < n <=> i < j)
          /\ Straight => \A i \in DOMAIN made : Children[i] \in nodes[made[i].call].kids
    /\ trace \in Seq(EntryType)
    /\ \A k \in 1..Len(trace) - 1 :
          trace[k].kind = "location" /\ trace[k + 1].kind = "location"
              => trace[k].loc # trace[k + 1].loc

\* As long as there is one loop, of a function that is called once, and every
\* function has a name, an iteration begins at the call of that function,
\* whatever the last one has called and left open: loop_parent_map.
LoopsComeBack ==
    [][ \A l \in DOMAIN loopParent :
            Len(stack') > Len(stack) /\ stack'[Len(stack')].fn = l
            /\ DOMAIN loopParent = {l} /\ shape = "loops"
            /\ Cardinality({i \in DOMAIN nodes : nodes[i].fn = Owner[l]}) = 1
                => current' = Top.call ]_vars
=============================================================================
