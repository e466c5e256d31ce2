------------------------- MODULE ExternalClassCache -------------------------
(***************************************************************************)
(* The in-memory cache of classes compiled from Voyager sources            *)
(* (internal-tracing/src/external_class_cache.rs): the entries, the two    *)
(* maps of watch channels that track a compilation in progress, and the    *)
(* set of classes marked as failed.  Each operator is one operation of     *)
(* `ExternalClassCache`; the processes that call them are in               *)
(* VoyagerPipeline.                                                        *)
(***************************************************************************)
CONSTANT Classes        \* class hashes

VARIABLES
    cache,      \* cache: moka map from a class to its (partial) entry
    phase1,     \* phase1_ready: the Phase 1 channel of each class
    pending,    \* pending_compilations: the Phase 2 channel of each class
    failed      \* failed_compilations: classes marked failed

cacheVars == <<cache, phase1, pending, failed>>

(***************************************************************************)
(* An entry is reduced to which parts it holds: the non-inline class that  *)
(* matches the chain (original_contract_class) and the inline debug data   *)
(* (data, which always comes with inline_strategy_class_hash).             *)
(***************************************************************************)
Entry == [held: BOOLEAN, orig: BOOLEAN, data: BOOLEAN]
NoEntry == [held |-> FALSE, orig |-> FALSE, data |-> FALSE]
CachedExternalClass(orig, data) == [held |-> TRUE, orig |-> orig, data |-> data]

\* "none": no receiver in the map; "open": its channel still holds false;
\* "done": true was sent and the receiver is still in the map.
Channel == {"none", "open", "done"}

\* The types of the maps.
CacheTypeOK ==
    /\ cache \in [Classes -> Entry]
    /\ phase1 \in [Classes -> Channel]
    /\ pending \in [Classes -> Channel]
    /\ failed \in SUBSET Classes

CacheInit ==
    /\ cache = [c \in Classes |-> NoEntry]
    /\ phase1 = [c \in Classes |-> "none"]
    /\ pending = [c \in Classes |-> "none"]
    /\ failed = {}

-----------------------------------------------------------------------------
(* Entries *)

set(c, orig, data) ==
    cache' = [cache EXCEPT ![c] = CachedExternalClass(orig, data)]

invalidate(c) == cache' = [cache EXCEPT ![c] = NoEntry]

contains(c) == cache[c].held

-----------------------------------------------------------------------------
(* Compilation tracking *)

is_compiling(c) == pending[c] # "none"

\* Mutant: the guard looks into the Phase 1 map.
CanStartPhase1Map(c) == phase1[c] = "none"

\* start_compilation returns None when the class is already tracked.
CanStart(c) == ~is_compiling(c)

start_compilation(c) ==
    /\ phase1' = [phase1 EXCEPT ![c] = "open"]
    /\ pending' = [pending EXCEPT ![c] = "open"]

\* Mutants: Phase 2 is never sent; the callers do not look whether the value
\* was sent before they wait for it.
DropPhase2(c) == pending' = [pending EXCEPT ![c] = "open"]
BlocksOnAnyPhase1(c) == phase1[c] # "none"
BlocksOnAnyPending(c) == pending[c] # "none"

\* signal_phase1_ready and finish_compilation send on the channel first and
\* take the map's write lock afterwards, so each is two steps.
SendPhase1(c) == phase1' = [phase1 EXCEPT ![c] = "done"]
RemovePhase1(c) == phase1' = [phase1 EXCEPT ![c] = "none"]
SendPhase2(c) == pending' = [pending EXCEPT ![c] = "done"]
RemovePending(c) == pending' = [pending EXCEPT ![c] = "none"]

\* A caller blocks only on a channel that is in its map and still holds false.
BlocksOnPhase1(c) == phase1[c] = "open"
BlocksOnPending(c) == pending[c] = "open"

-----------------------------------------------------------------------------
(* Failure markers *)

\* Mutant: the failure is not recorded.
ForgetFailure(c) == failed' = failed \ {c}

mark_failed(c) == failed' = failed \cup {c}
clear_failed(c) == failed' = failed \ {c}
has_failed(c) == c \in failed
=============================================================================
