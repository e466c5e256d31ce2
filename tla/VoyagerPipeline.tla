--------------------------- MODULE VoyagerPipeline ---------------------------
(***************************************************************************)
(* Everything that compiles a class from its Voyager source, around the    *)
(* ExternalClassCache:                                                     *)
(*   - simple-trace requests (check_voyager_verified_classes, then         *)
(*     populate_classes_data_from_voyager_cache), which start a background *)
(*     task and wait for its Phase 1, at most VOYAGER_PHASE_1_TIMEOUT;     *)
(*   - debug-trace requests (fetch_classes_debugger_data_with_external),   *)
(*     which wait for a whole compilation or run one themselves;           *)
(*   - the background task of each class (at most one: named by its class);*)
(*   - the retries of BackgroundRetryService.                              *)
(* A request stands for the handling of one class by one HTTP request.     *)
(* One action is the code between two awaits that touch shared state.      *)
(***************************************************************************)
EXTENDS ExternalClassCache, Naturals, FiniteSets

CONSTANTS
    SimpleReqs,         \* simple-trace requests
    DebugReqs,          \* debug-trace requests
    RetrySlots,         \* bound: retries spawned and not yet ended
    MaxBackground,      \* MAX_BACKGROUND_COMPILATIONS, the semaphore's permits
    MaxLapses           \* bound: entries and markers lost to TTL or capacity

ASSUME ProcsAssumption ==
    /\ SimpleReqs \cap DebugReqs = {}
    /\ (SimpleReqs \cup DebugReqs) \cap Classes = {}
    /\ RetrySlots \cap (SimpleReqs \cup DebugReqs \cup Classes) = {}
ASSUME BoundsAssumption == MaxBackground \in Nat \ {0} /\ MaxLapses \in Nat

VARIABLES
    pc,         \* where each process is
    cls,        \* the class each process works on
    built,      \* what the process's build produced so far
    owners,     \* processes that hold the two notifiers of their class
    active,     \* active_retries: classes being retried
    stored,     \* the lookups that the rows and files persisted so far answer
    lapses      \* entries and markers lost so far (bounded by MaxLapses)

vars == <<cacheVars, pc, cls, built, owners, active, stored, lapses>>

Requests == SimpleReqs \cup DebugReqs
Procs == Requests \cup Classes \cup RetrySlots

\* "no": nothing yet, or the build failed; "plain": no profile matched the
\* chain; "original": one did; "both": it was an inline profile as well.
Result == {"no", "plain", "original", "both"}
HasOriginal(x) == x \in {"original", "both"}

SimplePC == {"lookup", "check", "hasfailed", "fetch", "start", "populate",
             "waiting", "read", "served", "unserved"}
DebugPC == {"lookup", "get", "partial", "miss", "missIdle", "missBusy", "wait",
            "waiting", "reget", "fetch", "start", "build", "persist", "set",
            "markfailed", "marktimeout", "signal", "unphase1", "finish",
            "unpending", "served", "unserved", "skipped"}
TaskPC == {"idle", "phase1", "markfailed", "setphase1", "persist", "set",
           "signal", "unphase1", "phase2", "persist2", "updateget",
           "updateput", "finish", "unpending"}
RetryPC == {"free", "spawned", "queued", "build", "persist", "set", "clear",
            "invalidate", "mark", "leave"}

\* The types of the state; in particular each process only ever is at a place
\* of its own kind, and only requests and tasks hold notifiers.
TypeOK ==
    /\ CacheTypeOK
    /\ pc \in [Procs -> SimplePC \cup DebugPC \cup TaskPC \cup RetryPC]
    /\ \A p \in SimpleReqs : pc[p] \in SimplePC
    /\ \A p \in DebugReqs : pc[p] \in DebugPC
    /\ \A p \in Classes : pc[p] \in TaskPC
    /\ \A p \in RetrySlots : pc[p] \in RetryPC
    /\ cls \in [Procs -> Classes]
    /\ \A c \in Classes : cls[c] = c
    /\ built \in [Procs -> Result]
    /\ owners \in SUBSET (DebugReqs \cup Classes)
    /\ active \in SUBSET Classes
    /\ stored \in [Classes -> SUBSET {"simple", "debug"}]
    /\ lapses \in 0..MaxLapses

Init ==
    /\ CacheInit
    /\ pc = [p \in Procs |-> IF p \in Requests THEN "lookup"
                             ELSE IF p \in Classes THEN "idle" ELSE "free"]
    /\ cls \in [Procs -> Classes]
    /\ \A c \in Classes : cls[c] = c
    /\ \A r \in RetrySlots : cls[r] = CHOOSE c \in Classes : TRUE
    /\ built = [p \in Procs |-> "no"]
    /\ owners = {}
    /\ active = {}
    /\ stored = [c \in Classes |-> {}]
    /\ lapses = 0

-----------------------------------------------------------------------------
(* Steps shared by the processes *)

Goto(p, l) == pc' = [pc EXCEPT ![p] = l]

\* A lookup or a wait: the process reads shared state and moves on.
Reads(p, from, to) ==
    /\ pc[p] = from
    /\ Goto(p, to)
    /\ UNCHANGED <<cacheVars, cls, built, owners, active, stored, lapses>>

\* enqueue_retry spawns a retry; `p` moves on to `l` in the same step.
EnqueueRetry(p, l) ==
    \E r \in RetrySlots :
        /\ pc[r] = "free"
        /\ pc' = [pc EXCEPT ![p] = l, ![r] = "spawned"]
        /\ cls' = [cls EXCEPT ![r] = cls[p]]

\* persist_compiled_voyager_class: errors are only logged, so the rows and
\* files written may answer any of the lookups afterwards; without an original
\* class no row is keyed by the class, and no lookup can find it.
Persist(p) ==
    /\ \/ pc[p] = "persist" /\ Goto(p, "set")
       \/ pc[p] = "persist2" /\ Goto(p, "updateget")
    /\ \E answers \in SUBSET {"simple", "debug"} :
          /\ HasOriginal(built[p]) \/ answers = {}
          /\ stored' = [stored EXCEPT ![cls[p]] = @ \cup answers]
    /\ UNCHANGED <<cacheVars, cls, built, owners, active, lapses>>

\* The entry with inline data, set by a process that ran both phases.
SetFull(p) ==
    /\ pc[p] = "set"
    /\ set(cls[p], HasOriginal(built[p]), TRUE)
    /\ Goto(p, IF p \in RetrySlots THEN "clear" ELSE "signal")
    /\ UNCHANGED <<phase1, pending, failed, cls, built, owners, active, stored, lapses>>

-----------------------------------------------------------------------------
(* Signalling the waiters *)

\* Mutant: the notifier moves on and its waiters miss the send.
LostWakeup(p, l, waiters, w) ==
    pc' = [q \in Procs |-> IF q = p THEN l ELSE pc[q]]

\* A send wakes every process blocked on the channel.
Woken(p, l, waiters, w) ==
    pc' = [q \in Procs |-> IF q = p THEN l
                           ELSE IF q \in waiters /\ pc[q] = "waiting" /\ cls[q] = cls[p]
                                THEN w ELSE pc[q]]

SignalPhase1(p) ==
    /\ pc[p] = "signal"
    /\ p \in owners
    /\ SendPhase1(cls[p])
    /\ Woken(p, "unphase1", SimpleReqs, "read")
    /\ UNCHANGED <<cache, pending, failed, cls, built, owners, active, stored, lapses>>

\* After Phase 1 a task goes on to the inline build unless the first build
\* failed or was inline already; every other process finishes.
AfterPhase1(p) ==
    IF p \in Classes /\ built[p] \in {"plain", "original"} THEN "phase2" ELSE "finish"

ForgetPhase1(p) ==
    /\ pc[p] = "unphase1"
    /\ RemovePhase1(cls[p])
    /\ Goto(p, AfterPhase1(p))
    /\ UNCHANGED <<cache, pending, failed, cls, built, owners, active, stored, lapses>>

FinishCompilation(p) ==
    /\ pc[p] = "finish"
    /\ SendPhase2(cls[p])
    /\ Woken(p, "unpending", DebugReqs, "reget")
    /\ UNCHANGED <<cache, phase1, failed, cls, built, owners, active, stored, lapses>>

\* Where a process that has ended its compilation goes.
AtEnd(p) == IF p \in Classes THEN "idle"
            ELSE IF built[p] = "no" THEN "unserved" ELSE "served"

ForgetPending(p) ==
    /\ pc[p] = "unpending"
    /\ RemovePending(cls[p])
    /\ owners' = owners \ {p}
    /\ Goto(p, AtEnd(p))
    /\ built' = [built EXCEPT ![p] = "no"]
    /\ UNCHANGED <<cache, phase1, failed, cls, active, stored, lapses>>

\* A debug request that did not get the notifiers has nobody to signal.
EndUntracked(p) ==
    /\ pc[p] = "signal"
    /\ p \notin owners
    /\ Goto(p, AtEnd(p))
    /\ built' = [built EXCEPT ![p] = "no"]
    /\ UNCHANGED <<cacheVars, cls, owners, active, stored, lapses>>

-----------------------------------------------------------------------------
(* Simple trace: fetch_classes_data, check_voyager_verified_classes,       *)
(* populate_classes_data_from_voyager_cache                                *)

SimpleLookup(s) ==
    Reads(s, "lookup", IF "simple" \in stored[cls[s]] THEN "served" ELSE "check")

SimpleCheckCache(s) ==
    Reads(s, "check", IF contains(cls[s]) THEN "populate" ELSE "hasfailed")

SimpleCheckFailed(s) ==
    Reads(s, "hasfailed", IF has_failed(cls[s]) THEN "populate" ELSE "fetch")

\* Voyager has the source of the class, or not (or the call fails).
SimpleFetchSource(s) ==
    \E l \in {"start", "populate"} : Reads(s, "fetch", l)

\* The task is spawned only by the caller that got the notifiers.
SimpleSpawnTask(s) ==
    LET c == cls[s] IN
    /\ pc[s] = "start"
    /\ CanStart(c)
    /\ start_compilation(c)
    /\ pc' = [pc EXCEPT ![s] = "populate", ![c] = "phase1"]
    /\ owners' = owners \cup {c}
    /\ UNCHANGED <<cache, failed, cls, built, active, stored, lapses>>

SimpleSkipSpawn(s) ==
    /\ ~CanStart(cls[s])
    /\ Reads(s, "start", "populate")

SimplePopulate(s) ==
    Reads(s, "populate", IF BlocksOnPhase1(cls[s]) THEN "waiting" ELSE "read")

SimpleTimeout(s) == Reads(s, "waiting", "read")

SimpleRead(s) ==
    Reads(s, "read", IF cache[cls[s]].orig THEN "served" ELSE "unserved")

SimpleStep(s) ==
    \/ SimpleLookup(s) \/ SimpleCheckCache(s) \/ SimpleCheckFailed(s)
    \/ SimpleFetchSource(s) \/ SimpleSpawnTask(s) \/ SimpleSkipSpawn(s)
    \/ SimplePopulate(s) \/ SimpleTimeout(s) \/ SimpleRead(s)

-----------------------------------------------------------------------------
(* Debug trace: fetch_classes_debugger_data_with_external                  *)

DebugLookup(d) ==
    Reads(d, "lookup", IF "debug" \in stored[cls[d]] THEN "served" ELSE "get")

DebugGet(d) ==
    Reads(d, "get", IF cache[cls[d]].data THEN "served"
                    ELSE IF contains(cls[d]) THEN "partial" ELSE "miss")

\* A partial entry: wait for Phase 2 if it runs, else take it for failed.
DebugPartial(d) ==
    Reads(d, "partial", IF is_compiling(cls[d]) THEN "wait" ELSE "skipped")

\* On a miss is_compiling is read first, has_failed second, and has_failed
\* decides first.
DebugMiss(d) ==
    Reads(d, "miss", IF is_compiling(cls[d]) THEN "missBusy" ELSE "missIdle")

DebugMissFailed(d) ==
    /\ has_failed(cls[d])
    /\ \E l \in {"missBusy", "missIdle"} : Reads(d, l, "unserved")

DebugMissBusy(d) == ~has_failed(cls[d]) /\ Reads(d, "missBusy", "wait")
DebugMissIdle(d) == ~has_failed(cls[d]) /\ Reads(d, "missIdle", "fetch")

DebugWait(d) ==
    Reads(d, "wait", IF BlocksOnPending(cls[d]) THEN "waiting" ELSE "reget")

DebugReget(d) ==
    Reads(d, "reget", IF cache[cls[d]].data THEN "served" ELSE "unserved")

DebugFetchSource(d) ==
    \E l \in {"start", "unserved"} : Reads(d, "fetch", l)

DebugStart(d) ==
    LET c == cls[d] IN
    /\ pc[d] = "start"
    /\ CanStart(c)
    /\ start_compilation(c)
    /\ owners' = owners \cup {d}
    /\ Goto(d, "build")
    /\ UNCHANGED <<cache, failed, cls, built, active, stored, lapses>>

\* start_compilation returned None: the request compiles all the same.
DebugStartUntracked(d) ==
    /\ ~CanStart(cls[d])
    /\ Reads(d, "start", "build")

DebugBuild(d) ==
    /\ pc[d] = "build"
    /\ \/ \E x \in {"plain", "original"} :
             built' = [built EXCEPT ![d] = x] /\ Goto(d, "persist")
       \/ \E l \in {"markfailed", "marktimeout"} : Goto(d, l) /\ UNCHANGED built
    /\ UNCHANGED <<cacheVars, cls, owners, active, stored, lapses>>

\* A build that timed out is marked failed like any other, and retried.
DebugMarkTimeout(d) ==
    /\ pc[d] = "marktimeout"
    /\ mark_failed(cls[d])
    /\ EnqueueRetry(d, "signal")
    /\ UNCHANGED <<cache, phase1, pending, built, owners, active, stored, lapses>>

MarkFailed(p) ==
    /\ pc[p] = "markfailed"
    /\ mark_failed(cls[p])
    /\ Goto(p, "signal")
    /\ UNCHANGED <<cache, phase1, pending, cls, built, owners, active, stored, lapses>>

Publish(p) ==
    \/ Persist(p) \/ SetFull(p) \/ SignalPhase1(p) \/ ForgetPhase1(p)
    \/ FinishCompilation(p) \/ ForgetPending(p)

DebugStep(d) ==
    \/ DebugLookup(d) \/ DebugGet(d) \/ DebugPartial(d) \/ DebugMiss(d)
    \/ DebugMissFailed(d) \/ DebugMissBusy(d) \/ DebugMissIdle(d)
    \/ DebugWait(d) \/ DebugReget(d) \/ DebugFetchSource(d) \/ DebugStart(d)
    \/ DebugStartUntracked(d) \/ DebugBuild(d) \/ DebugMarkTimeout(d)
    \/ MarkFailed(d) \/ EndUntracked(d) \/ Publish(d)

-----------------------------------------------------------------------------
(* The task spawned by check_voyager_verified_classes                      *)

\* Phase 1 fails only while it prepares: a build that fails or times out
\* counts as a profile that did not match.
TaskPhase1(c) ==
    /\ pc[c] = "phase1"
    /\ \/ Goto(c, "markfailed") /\ UNCHANGED built
       \/ built' = [built EXCEPT ![c] = "both"] /\ Goto(c, "persist")
       \/ \E x \in {"plain", "original"} :
             built' = [built EXCEPT ![c] = x] /\ Goto(c, "setphase1")
    /\ UNCHANGED <<cacheVars, cls, owners, active, stored, lapses>>

TaskSetPhase1(c) ==
    /\ pc[c] = "setphase1"
    /\ set(c, HasOriginal(built[c]), FALSE)
    /\ Goto(c, "signal")
    /\ UNCHANGED <<phase1, pending, failed, cls, built, owners, active, stored, lapses>>

\* A failed Phase 2 marks nothing: the Phase 1 entry stays.
TaskPhase2(c) ==
    /\ \E l \in {"persist2", "finish"} : Reads(c, "phase2", l)

TaskPhase2Timeout(c) ==
    /\ pc[c] = "phase2"
    /\ EnqueueRetry(c, "finish")
    /\ UNCHANGED <<cacheVars, built, owners, active, stored, lapses>>

\* update_inline_data: get, then insert what was read with the inline data.
TaskUpdateGet(c) ==
    /\ pc[c] = "updateget"
    /\ IF contains(c)
       THEN /\ built' = [built EXCEPT ![c] = IF cache[c].orig THEN "original" ELSE "plain"]
            /\ Goto(c, "updateput")
       ELSE Goto(c, "finish") /\ UNCHANGED built
    /\ UNCHANGED <<cacheVars, cls, owners, active, stored, lapses>>

TaskUpdatePut(c) ==
    /\ pc[c] = "updateput"
    /\ set(c, HasOriginal(built[c]), TRUE)
    /\ Goto(c, "finish")
    /\ UNCHANGED <<phase1, pending, failed, cls, built, owners, active, stored, lapses>>

TaskStep(c) ==
    \/ TaskPhase1(c) \/ TaskSetPhase1(c) \/ TaskPhase2(c) \/ TaskPhase2Timeout(c)
    \/ TaskUpdateGet(c) \/ TaskUpdatePut(c) \/ MarkFailed(c) \/ Publish(c)

-----------------------------------------------------------------------------
(* BackgroundRetryService::enqueue_retry, the spawned future               *)

\* Mutants: a queued retry counts as holding a permit; a class that is being
\* retried is retried again.
HoldsFromQueue(r) == pc[r] \notin {"free", "spawned"}
RetryAlways(r) == TRUE

\* Permits are held from acquire to the end of the future.
Compiling(r) == pc[r] \notin {"free", "spawned", "queued"}
PermitFree == Cardinality({r \in RetrySlots : Compiling(r)}) < MaxBackground

MayRetry(r) == cls[r] \notin active

RetryBegin(r) ==
    /\ pc[r] = "spawned"
    /\ IF MayRetry(r) THEN active' = active \cup {cls[r]} /\ Goto(r, "queued")
                      ELSE Goto(r, "free") /\ UNCHANGED active
    /\ UNCHANGED <<cacheVars, cls, built, owners, stored, lapses>>

RetryAcquire(r) == PermitFree /\ Reads(r, "queued", "build")

\* No build timeout here: the build succeeds or fails for good.
RetryBuild(r) ==
    /\ pc[r] = "build"
    /\ \/ \E x \in {"plain", "original"} :
             built' = [built EXCEPT ![r] = x] /\ Goto(r, "persist")
       \/ Goto(r, "invalidate") /\ UNCHANGED built
    /\ UNCHANGED <<cacheVars, cls, owners, active, stored, lapses>>

RetryClear(r) ==
    /\ pc[r] = "clear"
    /\ clear_failed(cls[r])
    /\ Goto(r, "leave")
    /\ UNCHANGED <<cache, phase1, pending, cls, built, owners, active, stored, lapses>>

RetryInvalidate(r) ==
    /\ pc[r] = "invalidate"
    /\ invalidate(cls[r])
    /\ Goto(r, "mark")
    /\ UNCHANGED <<phase1, pending, failed, cls, built, owners, active, stored, lapses>>

RetryMarkFailed(r) ==
    /\ pc[r] = "mark"
    /\ mark_failed(cls[r])
    /\ Goto(r, "leave")
    /\ UNCHANGED <<cache, phase1, pending, cls, built, owners, active, stored, lapses>>

\* The class leaves active_retries, the future ends and drops its permit.
RetryLeave(r) ==
    /\ pc[r] = "leave"
    /\ active' = active \ {cls[r]}
    /\ built' = [built EXCEPT ![r] = "no"]
    /\ Goto(r, "free")
    /\ UNCHANGED <<cacheVars, cls, owners, stored, lapses>>

RetryStep(r) ==
    \/ RetryBegin(r) \/ RetryAcquire(r) \/ RetryBuild(r) \/ Persist(r)
    \/ SetFull(r) \/ RetryClear(r) \/ RetryInvalidate(r) \/ RetryMarkFailed(r)
    \/ RetryLeave(r)

-----------------------------------------------------------------------------
(* Time to live and capacity                                               *)

CanLapse == lapses < MaxLapses

LapseEntry(c) ==
    /\ CanLapse
    /\ contains(c)
    /\ invalidate(c)
    /\ lapses' = lapses + 1
    /\ UNCHANGED <<phase1, pending, failed, pc, cls, built, owners, active, stored>>

LapseMarker(c) ==
    /\ CanLapse
    /\ has_failed(c)
    /\ clear_failed(c)
    /\ lapses' = lapses + 1
    /\ UNCHANGED <<cache, phase1, pending, pc, cls, built, owners, active, stored>>

Lapse == \E c \in Classes : LapseEntry(c) \/ LapseMarker(c)

Next ==
    \/ \E s \in SimpleReqs : SimpleStep(s)
    \/ \E d \in DebugReqs : DebugStep(d)
    \/ \E c \in Classes : TaskStep(c)
    \/ \E r \in RetrySlots : RetryStep(r)
    \/ Lapse

Spec == Init /\ [][Next]_vars

(***************************************************************************)
(* Fairness: the tokio runtime polls every runnable task, a build ends     *)
(* within its timeout or its CPU limit, and the semaphore serves its       *)
(* waiters in order.                                                       *)
(***************************************************************************)
FairSpec ==
    /\ Spec
    /\ \A s \in SimpleReqs : WF_vars(SimpleStep(s))
    /\ \A d \in DebugReqs : WF_vars(DebugStep(d))
    /\ \A c \in Classes : WF_vars(TaskStep(c))
    /\ \A r \in RetrySlots : WF_vars(RetryStep(r)) /\ SF_vars(RetryAcquire(r))

-----------------------------------------------------------------------------
(* Properties *)

\* At most one process holds the notifiers of a class, and the maps have an
\* entry for exactly the classes some process will finish: start_compilation
\* hands the notifiers to one caller and nobody leaves an entry behind.
SingleFlight ==
    /\ \A p, q \in owners : cls[p] = cls[q] => p = q
    /\ \A c \in Classes : pending[c] # "none" <=> \E p \in owners : cls[p] = c

\* A class tracked for Phase 1 is tracked for Phase 2: whoever sees Phase 1
\* pending can also wait for the whole compilation.
Phase1UnderPending ==
    \A c \in Classes : phase1[c] # "none" => pending[c] # "none"

\* Nobody waits for a wake-up that has been given already: the channel a
\* request sleeps on still holds false and a process that will send on it
\* exists.
WaitersHaveWaker ==
    \A q \in Requests : pc[q] = "waiting" =>
        /\ \E p \in owners : cls[p] = cls[q]
        /\ q \in SimpleReqs => BlocksOnPhase1(cls[q])
        /\ q \in DebugReqs => BlocksOnPending(cls[q])

\* No two retries compile one class at a time, no more than MaxBackground
\* compile at all, and a class is in active_retries only on behalf of one.
RetryExclusion ==
    /\ \A r, s \in RetrySlots :
          (pc[r] \notin {"free", "spawned"} /\ pc[s] \notin {"free", "spawned"}
             /\ cls[r] = cls[s]) => r = s
    /\ Cardinality({r \in RetrySlots : Compiling(r)}) <= MaxBackground
    /\ \A c \in active : \E r \in RetrySlots :
          pc[r] \notin {"free", "spawned"} /\ cls[r] = c

\* When Phase 1 of a class is signalled, its result can be read: an entry is
\* there, or the class is marked failed, or a retry that has just failed is
\* about to mark it, or the entry lapsed.
Phase1LeavesVerdict ==
    [][\A c \in Classes :
          phase1[c] = "open" /\ phase1'[c] = "done" =>
             \/ contains(c) \/ has_failed(c) \/ lapses > 0
             \/ \E r \in RetrySlots : pc[r] = "mark" /\ cls[r] = c]_vars

\* Every request is answered, whatever builds fail, time out or run twice.
RequestsTerminate ==
    \A q \in Requests : <>(pc[q] \in {"served", "unserved", "skipped"})

\* Every retry that was spawned ends and gives its class back.
RetriesEnd == \A r \in RetrySlots : pc[r] # "free" ~> pc[r] = "free"

(***************************************************************************)
(* The inductive strengthening of SingleFlight, Phase1UnderPending and     *)
(* WaitersHaveWaker: the place of the process that holds the notifiers     *)
(* determines both channels of its class, and a class without such a       *)
(* process has none.                                                       *)
(***************************************************************************)
BeforeSignal == {"phase1", "markfailed", "marktimeout", "setphase1", "build",
                 "persist", "set", "signal"}
BeforeFinish == {"phase2", "persist2", "updateget", "updateput", "finish"}

ChannelsFollow(p) ==
    \/ pc[p] \in BeforeSignal /\ phase1[cls[p]] = "open" /\ pending[cls[p]] = "open"
    \/ pc[p] = "unphase1" /\ phase1[cls[p]] = "done" /\ pending[cls[p]] = "open"
    \/ pc[p] \in BeforeFinish /\ phase1[cls[p]] = "none" /\ pending[cls[p]] = "open"
    \/ pc[p] = "unpending" /\ phase1[cls[p]] = "none" /\ pending[cls[p]] = "done"

Owned(c) == \E p \in owners : cls[p] = c

TrackingInv ==
    /\ \A p, q \in owners : cls[p] = cls[q] => p = q
    /\ \A p \in owners : ChannelsFollow(p)
    /\ \A c \in Classes : ~Owned(c) => phase1[c] = "none" /\ pending[c] = "none"
    /\ \A c \in Classes : pc[c] # "idle" => c \in owners
    /\ \A d \in DebugReqs : pc[d] \in {"unphase1", "finish", "unpending"} => d \in owners
    /\ \A s \in SimpleReqs : pc[s] = "waiting" => phase1[cls[s]] = "open"
    /\ \A d \in DebugReqs : pc[d] = "waiting" => pending[cls[d]] = "open"

(***************************************************************************)
(* The tracking implements the two-stage latch: a stage ends with the send *)
(* on its channel, whatever the map still holds.                           *)
(***************************************************************************)
Stage(c) == IF pending[c] = "open"
            THEN IF phase1[c] = "open" THEN "building" ELSE "original"
            ELSE "idle"
Waiting(reqs, c) == {q \in reqs : pc[q] = "waiting" /\ cls[q] = c}

Latch == INSTANCE CompilationLatch WITH
    stage <- [c \in Classes |-> Stage(c)],
    early <- [c \in Classes |-> Waiting(SimpleReqs, c)],
    full <- [c \in Classes |-> Waiting(DebugReqs, c)]
LatchSpec == Latch!Spec
=============================================================================
