-------------------------- MODULE CompilationLatch --------------------------
(***************************************************************************)
(* What the tracking half of ExternalClassCache promises its callers, with *)
(* no channels, maps or locks: a two-stage latch for each class.  While a  *)
(* class is "building", callers may wait for its original class (Phase 1)  *)
(* or for its full data; once the original is published only the full data *)
(* is left to wait for; when the latch closes nobody waits.  The step that *)
(* changes the stage releases everybody who waits for it.                  *)
(***************************************************************************)
CONSTANTS Classes, SimpleReqs, DebugReqs

VARIABLES
    stage,      \* the stage of each class: "idle", "building", "original"
    early,      \* the requests waiting for the original class of each class
    full        \* the requests waiting for the full data of each class

latchVars == <<stage, early, full>>

Init ==
    /\ stage = [c \in Classes |-> "idle"]
    /\ early = [c \in Classes |-> {}]
    /\ full = [c \in Classes |-> {}]

Open(c) ==
    /\ stage[c] = "idle"
    /\ stage' = [stage EXCEPT ![c] = "building"]
    /\ UNCHANGED <<early, full>>

PublishOriginal(c) ==
    /\ stage[c] = "building"
    /\ stage' = [stage EXCEPT ![c] = "original"]
    /\ early' = [early EXCEPT ![c] = {}]
    /\ UNCHANGED full

Close(c) ==
    /\ stage[c] = "original"
    /\ stage' = [stage EXCEPT ![c] = "idle"]
    /\ full' = [full EXCEPT ![c] = {}]
    /\ UNCHANGED early

AwaitOriginal(c, s) ==
    /\ stage[c] = "building"
    /\ early' = [early EXCEPT ![c] = @ \cup {s}]
    /\ UNCHANGED <<stage, full>>

\* Only the wait for the original class has a timeout.
GiveUp(c, s) ==
    /\ s \in early[c]
    /\ early' = [early EXCEPT ![c] = @ \ {s}]
    /\ UNCHANGED <<stage, full>>

AwaitFull(c, d) ==
    /\ stage[c] # "idle"
    /\ full' = [full EXCEPT ![c] = @ \cup {d}]
    /\ UNCHANGED <<stage, early>>

Next ==
    \E c \in Classes :
        \/ Open(c) \/ PublishOriginal(c) \/ Close(c)
        \/ \E s \in SimpleReqs : AwaitOriginal(c, s) \/ GiveUp(c, s)
        \/ \E d \in DebugReqs : AwaitFull(c, d)

Spec == Init /\ [][Next]_latchVars
=============================================================================
