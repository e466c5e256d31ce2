--------------------------- MODULE SimulationCache ---------------------------
(***************************************************************************)
(* The cache of simulation and debug results (server/src/services/         *)
(* simulation_cache.rs) and the handlers around it (handlers/simulate.rs,  *)
(* handlers/debugger.rs): resolve the block, look the request up, check    *)
(* that no class was verified since the entry was cached, else simulate    *)
(* and cache.  Each task is one blocking task of spawn_blocking_with_      *)
(* timeout: it goes on after its client got a 408, so the timeout changes  *)
(* nothing here.  Verifications and new blocks happen at any time.         *)
(***************************************************************************)
EXTENDS Naturals, FiniteSets

CONSTANTS
    SimRequests,    \* what clients ask for, see RequestType
    Txs, Rpcs,      \* calldata or transaction hashes; chains, by RPC endpoint
    Classes,        \* class hashes
    Uses,           \* the classes each transaction executes
    Latest,         \* no block number: the latest block
    Tasks,          \* bound: blocking tasks at a time
    MaxBlock,       \* bound: the last block
    MaxLapses       \* bound: entries that expire or are evicted

Blocks == 0..MaxBlock
RequestType == [api: {"calldata", "debug", "chainHash", "rpcHash"}, tx: Txs,
                rpc: Rpcs, block: Blocks \cup {Latest}]

ASSUME SimRequestsAssumption == SimRequests # {} /\ SimRequests \subseteq RequestType
ASSUME RpcsAssumption == "starknet" \notin Rpcs
ASSUME LatestAssumption == Latest \notin Blocks
ASSUME UsesAssumption == Uses \in [Txs -> SUBSET Classes]
ASSUME CacheBoundsAssumption == MaxBlock \in Nat /\ MaxLapses \in Nat

VARIABLES
    entries,    \* cache: the entry under each key
    verified,   \* contract_classes: the classes verified so far
    head,       \* the latest block
    taskPc, req, \* where each task is, and the request it handles
    keyBlock,   \* the block resolved for the key
    found,      \* the entry read from the cache
    result,     \* the result of the simulation, with the classes verified at
                \* cache time once they are fetched
    lapses

cacheVars == <<entries, verified, head, taskPc, req, keyBlock, found, result, lapses>>

-----------------------------------------------------------------------------
(* Keys and entries *)

ByArgs(r) == r.api \in {"calldata", "debug"}

\* Mutant: debug keys without their prefix.
KeyWithoutPrefix(r, b) ==
    IF ByArgs(r) THEN <<"args", r.tx, r.rpc, b>>
    ELSE <<"hash", r.tx, IF r.api = "chainHash" THEN r.rpc ELSE "starknet">>

\* What is hashed: the arguments with the block and the URL, or the
\* transaction hash with the chain, for which /v1/simulate-transaction passes
\* the constant "starknet".
CacheKey(r, b) ==
    IF ByArgs(r) THEN <<r.api, r.tx, r.rpc, b>>
    ELSE <<"hash", r.tx, IF r.api = "chainHash" THEN r.rpc ELSE "starknet">>

Keys == {CacheKey(r, b) : r \in SimRequests, b \in Blocks}

Kind(r) == IF r.api = "debug" THEN "Debug" ELSE "Simulation"

\* `kind`, `tx`, `rpc`, `block` and `shows` describe the result: what was run,
\* where, and the verified classes its trace was built with.  `atCache` is
\* verified_class_hashes_at_cache_time.
Result == [kind: {"Simulation", "Debug"}, tx: Txs, rpc: Rpcs,
           block: Blocks \cup {Latest}, shows: SUBSET Classes, atCache: SUBSET Classes]
Nothing == [state |-> "absent"]
EntryType == {Nothing} \cup [state: {"fresh", "expired"}, result: Result]

SimPC == {"idle", "resolve", "get", "check", "invalidate", "simulate",
           "fetch", "insert"}

\* The types of the state; in particular a cache key is only ever made with a
\* resolved block number (keyBlock), never with "latest".
CacheTypeOK ==
    /\ entries \in [Keys -> EntryType]
    /\ verified \in SUBSET Classes
    /\ head \in Blocks
    /\ taskPc \in [Tasks -> SimPC]
    /\ req \in [Tasks -> SimRequests]
    /\ keyBlock \in [Tasks -> Blocks]
    /\ found \in [Tasks -> EntryType]
    /\ result \in [Tasks -> Result \cup {Nothing}]
    /\ lapses \in 0..MaxLapses

CacheInit ==
    /\ entries = [k \in Keys |-> Nothing]
    /\ verified = {}
    /\ head = 0
    /\ taskPc = [t \in Tasks |-> "idle"]
    /\ req = [t \in Tasks |-> CHOOSE r \in SimRequests : TRUE]
    /\ keyBlock = [t \in Tasks |-> 0]
    /\ found = [t \in Tasks |-> Nothing]
    /\ result = [t \in Tasks |-> Nothing]
    /\ lapses = 0

-----------------------------------------------------------------------------
(* The handlers *)

TaskGoto(t, l) == taskPc' = [taskPc EXCEPT ![t] = l]
Key(t) == CacheKey(req[t], keyBlock[t])

\* A task that ends forgets what it read.
End(t) ==
    /\ TaskGoto(t, "idle")
    /\ req' = [req EXCEPT ![t] = CHOOSE r \in SimRequests : TRUE]
    /\ keyBlock' = [keyBlock EXCEPT ![t] = 0]
    /\ found' = [found EXCEPT ![t] = Nothing]
    /\ result' = [result EXCEPT ![t] = Nothing]

Ask(t) ==
    /\ taskPc[t] = "idle"
    /\ \E r \in SimRequests :
          /\ req' = [req EXCEPT ![t] = r]
          /\ TaskGoto(t, IF ByArgs(r) THEN "resolve" ELSE "get")
    /\ UNCHANGED <<entries, verified, head, keyBlock, found, result, lapses>>

\* Mutant: the block is used as it was asked for.
BlockAsked(r) == r.block

BlockNow(r) == IF r.block = Latest THEN head ELSE r.block

resolve_block_number(t) ==
    /\ taskPc[t] = "resolve"
    /\ \/ /\ keyBlock' = [keyBlock EXCEPT ![t] = BlockNow(req[t])]
          /\ TaskGoto(t, "get")
          /\ UNCHANGED <<req, found, result>>
       \/ req[t].block = Latest /\ End(t)
    /\ UNCHANGED <<entries, verified, head, lapses>>

Get(t) ==
    LET e == entries[Key(t)] IN
    /\ taskPc[t] = "get"
    /\ found' = [found EXCEPT ![t] = e]
    /\ TaskGoto(t, CASE e.state = "absent" -> "simulate"
                 [] e.state = "expired" -> "invalidate"
                 [] e.state = "fresh" -> "check")
    /\ UNCHANGED <<entries, verified, head, req, keyBlock, result, lapses>>

\* Classes of the result that are verified now and were not at cache time.
NewlyVerified(x) == (Uses[x.tx] \cap verified) \ x.atCache

\* An entry of the other kind is no answer.
Hit(t) ==
    /\ taskPc[t] = "check"
    /\ IF found[t].result.kind = Kind(req[t])
       THEN End(t)
       ELSE TaskGoto(t, "simulate") /\ UNCHANGED <<req, keyBlock, found, result>>
    /\ UNCHANGED <<entries, verified, head, lapses>>

\* should_invalidate_due_to_verification: an entry whose check fails is kept.
CheckedHit(t) == taskPc[t] = "check" /\ NewlyVerified(found[t].result) = {} /\ Hit(t)
UncheckedHit(t) == taskPc[t] = "check" /\ Hit(t)

Outdate(t) ==
    /\ taskPc[t] = "check"
    /\ NewlyVerified(found[t].result) # {}
    /\ TaskGoto(t, "invalidate")
    /\ UNCHANGED <<entries, verified, head, req, keyBlock, found, result, lapses>>

\* Mutant: the outdated entry is left for the new result to replace.
LeaveOutdated(t) ==
    /\ taskPc[t] = "invalidate"
    /\ TaskGoto(t, "simulate")
    /\ UNCHANGED <<entries, verified, head, req, keyBlock, found, result, lapses>>

\* By key: whatever the entry is by now.
Invalidate(t) ==
    /\ taskPc[t] = "invalidate"
    /\ entries' = [entries EXCEPT ![Key(t)] = Nothing]
    /\ TaskGoto(t, "simulate")
    /\ UNCHANGED <<verified, head, req, keyBlock, found, result, lapses>>

\* The simulation asks for the latest block again, and takes the verified
\* classes whose row and file it can read; it may fail altogether.
Simulate(t) ==
    LET r == req[t] IN
    /\ taskPc[t] = "simulate"
    /\ \/ /\ \E shows \in SUBSET (Uses[r.tx] \cap verified) :
                result' = [result EXCEPT ![t] =
                    [kind |-> Kind(r), tx |-> r.tx, rpc |-> r.rpc,
                     block |-> IF ByArgs(r) THEN BlockNow(r) ELSE r.block,
                     shows |-> shows, atCache |-> {}]]
          /\ TaskGoto(t, "fetch")
          /\ UNCHANGED <<req, keyBlock, found>>
       \/ End(t)
    /\ UNCHANGED <<entries, verified, head, lapses>>

\* set and set_debug: the verified classes are fetched first; none, when that
\* fails.
FetchVerified(t) ==
    /\ taskPc[t] = "fetch"
    /\ \E known \in {{}, Uses[req[t].tx] \cap verified} :
          result' = [result EXCEPT ![t].atCache = known]
    /\ TaskGoto(t, "insert")
    /\ UNCHANGED <<entries, verified, head, req, keyBlock, found, lapses>>

Insert(t) ==
    /\ taskPc[t] = "insert"
    /\ entries' = [entries EXCEPT ![Key(t)] = [state |-> "fresh", result |-> result[t]]]
    /\ End(t)
    /\ UNCHANGED <<verified, head, lapses>>

Handle(t) ==
    \/ resolve_block_number(t) \/ Get(t) \/ CheckedHit(t) \/ UncheckedHit(t)
    \/ Outdate(t) \/ Invalidate(t) \/ Simulate(t) \/ FetchVerified(t) \/ Insert(t)

-----------------------------------------------------------------------------
(* Around the handlers *)

Verify ==
    /\ \E c \in Classes \ verified : verified' = verified \cup {c}
    /\ UNCHANGED <<entries, head, taskPc, req, keyBlock, found, result, lapses>>

NewBlock ==
    /\ head < MaxBlock
    /\ head' = head + 1
    /\ UNCHANGED <<entries, verified, taskPc, req, keyBlock, found, result, lapses>>

\* An entry outlives its ttl a moment before the cache drops it.
Lapse ==
    /\ lapses < MaxLapses
    /\ \E k \in Keys : \E e \in {Nothing, [entries[k] EXCEPT !.state = "expired"]} :
          /\ entries[k].state = "fresh"
          /\ entries' = [entries EXCEPT ![k] = e]
    /\ lapses' = lapses + 1
    /\ UNCHANGED <<verified, head, taskPc, req, keyBlock, found, result>>

CacheNext ==
    \/ \E t \in Tasks : Ask(t) \/ Handle(t)
    \/ Verify \/ NewBlock \/ Lapse

CacheSpec == CacheInit /\ [][CacheNext]_cacheVars

\* A blocking task runs until it ends.
FairCacheSpec == CacheSpec /\ \A t \in Tasks : WF_cacheVars(Handle(t))

-----------------------------------------------------------------------------
(* Properties *)

\* Simulation and debug requests share one cache, and no request reads a
\* result of the other kind, of another transaction or, unless it names its
\* endpoint with a transaction hash only, of another chain.
HitMatchesRequest ==
    \A t \in Tasks : found[t] # Nothing =>
        /\ found[t].result.kind = Kind(req[t])
        /\ found[t].result.tx = req[t].tx
        /\ req[t].api # "rpcHash" => found[t].result.rpc = req[t].rpc

\* An entry cached before one of its classes was verified is not kept for good,
\* as long as requests for it come whose check the database answers.
Outdated(k) == entries[k].state = "fresh" /\ NewlyVerified(entries[k].result) # {}
AnsweredCheck(k) == \E t \in Tasks : Key(t) = k /\ (Outdate(t) \/ CheckedHit(t))

OutdatedIsDropped ==
    \A k \in Keys :
        []<><<AnsweredCheck(k)>>_cacheVars => []<>(~Outdated(k))
=============================================================================
