# Verification of starkloupe-server

TLA+ models of the server's stateful parts, the TLC runs that check them on
small instances, and TLAPS proofs of their main invariants for any instance.
Source paths are relative to `src/crates/`. `PROJECT.json` lists the components,
the runs, the line range that each definition models (`map`), the changes of the
code that each property detects (`mutants`), the disagreements between code and
comments (`findings`), the hazards and the theorems.

    tlc -workers 2 -config Verification.cfg MCVerificationWorkflow
    tlapm VerifiedSimulationsProofs.tla

## 1. The system

The server simulates and debugs Starknet transactions. For a trace it needs
contract classes together with the Cairo sources they were built from. Sources
come from two places: users submit them (*verification*), or they are fetched
from the Voyager explorer and compiled on demand. Both end in the same tables and
the same S3 bucket. Compilers are downloaded at run time.

| Component | State | Operations | Talks to | What is hard |
|---|---|---|---|---|
| Voyager class cache (`internal-tracing/src/external_class_cache.rs`) | moka cache of entries, two maps of watch channels, failure markers | `get`, `set`, `update_inline_data`, `invalidate`, `start_compilation`, `signal_phase1_ready`, `finish_compilation`, `wait_*`, `mark_failed`, `clear_failed` | every compilation and every waiting request | two maps with a lock each, send and removal are separate steps, entries lapse |
| Voyager compilation pipeline (`debugger_data_fetcher.rs`, `background_retry.rs`, `simulate/src/simulate.rs`) | the place of each request, task and retry; `active_retries`; a semaphore | simple trace, debug trace, two-phase background task, background retry | the cache, the persistence, the Voyager API, scarb | anything read before an await is stale after it; timeouts; untracked compilations |
| Persistence of Voyager classes (`voyager_persistence.rs`) | none of its own | `persist_compiled_voyager_class` | tables and bucket | rows and files written in parallel, errors only logged |
| Simulation cache (`server/src/services/simulation_cache.rs`, `server/src/handlers/{simulate,debugger,common}.rs`) | moka cache of results with the classes verified at cache time | lookup with expiry and verification check, insert, invalidate | `contract_classes`, the chain's latest block | the world changes between key, run and insertion |
| Verification of classes (`verification/src/{verification,helpers,minimal_verification}.rs`) | one session per request | `initiate_verification`, `verify_by_class_hashes`, `initiate_minimal_verification`, ... | tables and bucket, the chain, scarb | sessions interleave on shared tables, each write can fail by itself, nobody resumes a session |
| Tables and bucket (`verification/src/{db,s3}.rs`) | `contract_classes`, `class_hash_profiles`, `verification_status`, `verification_requests`, class files | single statements, no transactions | all of the above | rows and files are written separately |
| Toolchain binaries (`verification/src/scarb_and_dojo_download_scheduler.rs`, `server/src/binaries_manager_service.rs`) | binaries and markers on each disk and in the bucket | restore at start-up, periodic check, installation, upload | GitHub, bucket, disk | a restart between any two of five writes; several releases share one file name |
| Scarb builds and artifacts (`verification/src/{scarb,artifacts,manifest,utils}.rs`, `scarb-dep-resolver`) | directories | build, collect, resolve | child processes | outcome only |
| Simulation and transaction extraction (`simulate/src/{transaction_extraction,transaction_info,state,execution,simulate,debugger}.rs`) | per request: the fork of the chain and its cache | find the transaction, replay those before it, execute, fetch the data of its classes | the node, the blockifier, the class cache, tables | the fork has to be the chain as it was; classes change while it runs |
| Call trace of a contract call (`internal-tracing/src/{call_trace,mappings}.rs`) | per request: a stack machine over the VM's trace | fold trace entries into function calls | | calls are told from the frame pointer; loops and unnamed functions |
| Contract and function calls (`simulate/src/{contract_calls_map,function_calls,debugger_trace,events,storage_changes}.rs`) | per request: maps of calls, flame chart, debugger's steps | number the calls, map them, report the failure, merge the traces | | ids, parents, levels and indexes that must agree |
| Data decoder (`data-decoder`) | none | decode calldata, memory and events by type | | one index through nested types; layouts of the compiler |
| Lookup handlers (`server/src/handlers/{classes,contracts,calldata_decoder}.rs`, `calldata_encoder.rs`, `abi_fetcher.rs`) | a cache of ABIs | class pages, decoding and encoding of calldata | tables, bucket, Voyager, the chain | queries one by one; what was shown comes back to be run |
| Felt encodings, logging, notifications | none | | | |

How they interact: a handler of `server` looks into the simulation cache; on a
miss it simulates, which reads the verified classes from tables and bucket, and
asks the pipeline for the others. The pipeline writes Voyager classes into the
same tables that verification sessions write. Verification changes what a cached
result should have shown; the simulation cache finds out by asking
`contract_classes`.

A simulation forks the chain, runs the transaction
again, folds the VM's trace of every contract call into function calls, and
numbers, marks and merges them for the front end. What it shows of a transaction
may come back as calldata to be simulated.

What makes each part correct, in short: the pipeline compiles a class once at a
time and never leaves a request asleep; the simulation cache never answers one
request with the result of another and does not keep results that a later
verification has outdated; the tables call a class verified only when its file is
there and its hash was built, and a final status stays; the disk of a server ends
up with every released compiler and a restored marker stands for a binary; a Voyager
class is served from the tables in the end; a run reads the chain as it was
before its transaction and shows the code it has run; the calls of a trace form
one tree, in the order and with the failure of the execution; a value is shown as
Cairo wrote it, and what is sent back is what was shown.

## 2. The modules

| Module | Models | Uses |
|---|---|---|
| `ExternalClassCache` | the operations of the class cache | |
| `VoyagerPipeline` | all processes that compile or wait for a Voyager class | extends `ExternalClassCache` |
| `CompilationLatch` | abstract: what the tracking promises its callers | instantiated by `VoyagerPipeline` |
| `VoyagerPersistence` | the tables and the bucket as traces read them and the persistence fills them | |
| `ClassPages` | class and contract pages beside both | extends `VoyagerPersistence` |
| `VerificationStore` | the tables and the bucket, one operator per statement | |
| `VerificationWorkflow` | full and minimal sessions | extends `VerificationStore` |
| `SimulationCache` | the result cache with its handlers | |
| `ToolchainBinaries` | restore and installation of compilers | |
| `ForkedChain` | the chain as a node serves it (external) | |
| `TransactionRun` | one transaction run again on a fork | extends `ForkedChain` |
| `CallTrace` | the function calls of one contract call | |
| `ContractCalls` | the numbering of the contract calls, the flame chart | |
| `SimulationResult` | the simple trace made of them | extends `ContractCalls` |
| `SimulationTrace` | the debug trace made of them | extends `SimulationResult` |
| `DataDecoder` | types, values, the decoder of calldata, and what Cairo writes (external) | |
| `Calldata` | decoding, encoding and simulating calldata with the ABI cache | extends `DataDecoder` |
| `ArgumentDecoders` | the decoders of memory and of events, and the layout in memory (external) | extends `DataDecoder` |
| `Arguments` | the arguments of the calls of `Calldata` in memory and events | extends `Calldata`, `ArgumentDecoders` |
| `VoyagerPipelineProofs`, `ClassPagesProofs`, `ToolchainBinariesProofs`, `CallTraceProofs`, `TransactionRunProofs`, `SimulationTraceProofs`, `CalldataProofs` | proofs | each extends its component |
| `VerifiedSimulationsProofs` | proofs about verification, the result cache and both in one server | extends `VerificationWorkflow`, `SimulationCache` |
| `MC...` | values of the constants for TLC | |

The rule for atomicity is the same everywhere: an action is the code between two
awaits (or two calls of an external service) that touch state other processes
share. Everything before the next such await belongs to the action. Sequential
code is cut at the places where its input branches: a trace entry, a call, an
answer of the node.

### Voyager compilation

The cache's entries are reduced to the parts they hold (`orig`, `data`), the two
maps of channels to three values per class: no receiver in the map, a receiver
whose channel holds false, a receiver whose channel holds true. The third value
exists because `signal_phase1_ready` and `finish_compilation` send first and lock
the map afterwards. `pc` of a request follows
`check_voyager_verified_classes` / `populate_classes_data_from_voyager_cache`
(simple) or `fetch_classes_debugger_data_with_external` (debug); a task is named
by its class because the notifiers are handed out once; `RetrySlots` are the
futures spawned by `enqueue_retry`. Builds are a choice of `Result`. A debug
request whose `start_compilation` returned `None` compiles without notifiers, as
the code does. Entries and markers may lapse at any time, `MaxLapses` times.

`CompilationLatch` says the same without channels: a class is idle, building, or
building with its original published; the step that changes the stage releases
those who wait for it. `LatchSpec` is the refinement: the stage is read off the
channels, and the removal of a receiver from a map is a stutter.

### Verification

`VerificationStore` has one operator per SQL statement or S3 call; an insert of
what is there does nothing, an update without a row does nothing. `Inline` maps a
class to its inline-strategy build and so carries the pairing of
`class_hash_profiles`. `VerificationWorkflow` follows a full session through
`initiate_verification` (three reads, one decision per class, one row per class,
spawn) and the task (build, profile rows, request row, upload and insert per
class, one status per class), and a minimal session through its own order, in
which the directory is removed last. A write that fails and is only logged is
`Lost`; a step whose failure ends the session is a `...Fails` action. `Disconnect`
drops a handler at an await, `Crash` ends every session.

### Simulation cache

A request is an API, a transaction, an endpoint and a block. `CacheKey` is what
the code hashes, including the constant `"starknet"` for a transaction hash on a
custom endpoint. A transaction is one value in a key. The code hashes the arguments
field by field, optional ones without separators, and leaves the transaction hash
out of the key of a debug trace; that different transactions differ in what is hashed
is taken for granted. A result remembers where it was really run and which verified
classes it shows, which the code does not store: the properties compare the two.
Verifications and new blocks happen at any time.

### Toolchain binaries

A file is the release whose build it is, so that an older build under a shared
name can be told from a newer one. Each tool is checked by a job of its own; a
behaviour is about one of the two (`tool`), which share nothing but the bucket's
listing. A marker is absent, empty (opened and not
written) or names its binary. The check handles releases oldest first; any error
ends it, which for Sozo may also be between the rename of the binary and its upload. Releases of one Cairo version are published in their order, others in
any order.

### Persistence and pages

A trace looks its class up in four queries (`RequestPC`: classes, ids, profiles,
inlines) and fetches a file; what it does not get it compiles and persists, each
row and file being a step that may fail. Writes that the code joins
(`Stages`) come in any order. `answers` is history: everything one query could
have told while the lookup was under way. Walnut's sessions are reduced to the
rows and files they leave. A page of `ClassPages` follows `Local`, three queries,
the file, Voyager and the provenance query; pages with and without code, by
chain and without, are one action each with the branches of the handler. When the
inline file cannot be read the code tries that of the class before Voyager
(`s3.rs:70`); the model goes to Voyager, and `failed` takes such a page out of the
properties. An inline build has another hash than its class (`compiler.rs:227`), and
rows without one, which are skipped when they are read (`db.rs:140`), are left out. The
cache of compiled classes is taken to be empty (the server was restarted, or
another server asks): `VoyagerPipeline` has the cache.

### A transaction run again

`TransactionRun` follows `simulate.rs` and `debugger.rs` from the request to the
answer: `pc` names the await. The chain is a constant of two or more blocks of
transactions with their effects; `StateAt` is what the node answers. The fork's
cache (`InMemoryForkCache`) has the three maps of the code. `reads` is history:
what the execution was told. The blockifier is external: it calls contracts,
deploys and writes as it likes, within `MaxCalls`, and asks the reader of
`state.rs`. A lookup of a class (`Lookup`) ends with its build, or with what is left
when the tables, the bucket or the node do not answer (`MissedClass`): a verified
class is then run by its original code. Cairo 0 classes (`Deprecated`) have no
inline builds, and a trace names their declarations apart. Classes are compiled,
lapse or get verified by others at any time; `changed` is history, the classes
whose inline builds were so changed or were missed by a lookup.

### Calls and traces

`CallTrace` takes one trace entry per step: a frame entered, a frame left, a
system call or code locations. `stack` is the VM's own stack, which the builder
does not see and the properties compare with. `shape` is history: `straight`
until a loop, `loops`, or `unnamed` once a function without a name was entered.
`ContractCalls` walks the executor's call tree; which tree it is gets chosen on
the way. Trees are those of an account's transaction: the account validates and
executes, the fee is transferred, and calls made by these have other entry points.
The code goes by the selector alone (`contract_call.rs:70`), so that an inner call of
a function of these names would count as one of them, and of two `__execute__` it
would start the debugger in the one its `HashMap` has first (`debugger.rs:229`).
Messages from Ethereum and deployments of accounts are left out here. `SimulationResult` maps the functions of its calls in any order (the
code iterates over a `HashMap`) and reports; `SimulationTrace` merges the traces
by the recursion of `debugger_trace.rs`, whose stack is `work`.

### Decoding

`DataDecoder` has types by structure, since the code parses them from names. A
type is a record of its kind and its parts, and whatever is recursive over types is
a function over the set `Types`, of which it says what it makes of the functions of
the parts: `decode_type` is `DecoderOf`, `Serialize` is `SerializeOf`, and so on. The
set need not be finite; only how deep its types nest is bounded (`MaxDepth`). What
Cairo writes (`Serialize`, `Cells`) is the external reference, `Display` says what a
value should be shown as. Numbers are in a field of `Prime` elements with limbs of
`Word`; `MaxArray` is the limit of `is_allocation_safe`, and no array that is passed is
longer (2 097 152 elements do not fit into a transaction). `Calldata` composes the
decoder of calldata with the two handlers and the ABI cache, while a contract is
upgraded. The decoders of memory and events declare `RECURSIVE` operators, and are
in `ArgumentDecoders`, so that no proof is about a module with one.

## 3. The runs

| Run | Instance | Properties |
|---|---|---|
| `voyager_requests` | one class, a simple trace, a debug trace, the task, one retry, one lapse | `SingleFlight`, `TrackingInv`: one holder of the notifiers; `WaitersHaveWaker`; `LatchSpec`: the abstract latch is implemented; `RequestsTerminate` |
| `voyager_retries` | two classes, two debug traces, two retries, one permit | `RetryExclusion`: no class retried twice at a time; `Phase1LeavesVerdict`; `RetriesEnd` |
| `simulation_hits` | eight requests of all four APIs, two chains, two blocks, two tasks | `HitMatchesRequest`: hits are of the right kind, transaction and chain; `CacheTypeOK` |
| `simulation_outdated` | two classes, two tasks, one lapse | `OutdatedIsDropped`: an outdated entry does not stay |
| `verification_sessions` | a full and a minimal session of the same sources, an old class, one lost write, one restart | `VerifiedHasFile`, `SuccessIsVerified`, `MinimalSuccessIsStored`: what is called verified is stored; `FinalStatusStays`; `PendingResolves` |
| `toolchain_installs` | two servers, two releases (of Scarb under one name, or of Sozo), a failed upload, a crash, a binary removed by hand | `ColdStartRestores`, `EverythingInstalled` |
| `class_pages` | one class with an inline build of Voyager and one of Walnut, a trace, a page, two ids, one fault | `LookupIsAtomic`, `RowsPointToBuilds`, `StoredCodeIsShown`, `ProvenanceIsTold`, `CompilesEnd`; `PageTypeOK` |
| `call_trace` | five frames above that of the entry point, two system calls or locations, two inner calls; a named, a core and an unnamed function and a loop | `TreeOK`, `CallsMatchFrames`, `PanicIsFirst`, `InnerCallsLinked`, `LoopsComeBack` |
| `transaction_run` | two chains of two blocks, three classes, one of them of Cairo 0, two calls, one class compiled, lapsed or verified meanwhile, one fault | `FindsItself`, `ForkIsBefore`, `MappedIsExecuted`, `ChangesAreTrue` |
| `simulation_trace` | four calls, one event, three contracts whose classes are known in four ways, four shapes of a call | `TreeOK`, `FailureExplained`, `CallsShown`, `DebuggerWalksCalls` |
| `calldata` | two calls, of one contract or of two, with values of eleven signatures, one upgrade, one fault, `Prime` 31, `Word` 4, `MaxArray` 6 | `DecodedAsWritten`, `EncodingRestores`, `ArgumentsShown` |
| `piece_missing` | as `class_pages`, without a page | violated: `MissingPieceIsReattempted` |

Every property is also checked against a changed definition (`mutants`), which
violates it: a lost wake-up, a guard on the wrong map, a row inserted after a
failed upload, a nonce that is not compared, and so on.

The bounds. The interesting cases of the pipeline need one process that holds
the notifiers, one that compiles without them and one that waits: a simple trace,
a debug trace, the task and a retry are all four kinds, and classes do not
interact except through the permits, for which `voyager_retries` has two classes
and one permit. Verification sessions interact through the rows of a class they
share, and one of each kind does that; the safety properties are proved for any
number. In the cache two tasks are enough for one to change the entry the other
has read. Two servers are enough for one to list the bucket while the other
writes it, and two releases for one to overwrite the binary of the other. For
pages one trace, one page and two ids suffice: a lookup interferes with one
writer at a time, and two ids make a second persistence of the same class. Five
frames above the entry point let a function call another one twice, or a loop
come back with a call left open in it; two blocks of up to four transactions
have a class declared, deployed and called within a block, a Cairo 0 class declared
before a call of it, an upgraded contract, and two transactions with the same
calldata; four calls are a call with two inner calls, one of which calls again. The safety properties of call traces, transactions and
simulation traces are proved for any number of each. A signature of each kind of
type, with arrays of up to two elements, nested once, moves the index of a decoder
in every way its code has; what is shown of calldata and what becomes of it when it
is sent back is proved for all types, values, calls and sizes of the field.

### What the code says and does not do

One run is expected to be violated: `piece_missing`. The persistence of a Voyager
class promises that "the next request will re-attempt whatever piece is missing"
(`voyager_persistence.rs:22`); but once the class is in the tables no later
request compiles it, and a lost profile row leaves every debug trace with the
plain build.

More was met while modelling, and is described here only. The properties name
these cases as exceptions where they touch them.

Voyager compilation:

* A debug trace takes a class for failed if its Phase 2 ended between the trace's
  two reads of the cache (`debugger_data_fetcher.rs:277` and `:290`, the comment
  at `:304`).
* A background retry that fails is to "drop the partial Phase 1 cache entry"
  (`background_retry.rs:134`) and drops by key whatever entry is there, also the
  complete one of another compilation.
* A panic in the spawned task (`debugger_data_fetcher.rs:535`) would leave the
  class in both maps until a restart: waiters notice that the sender is gone, and
  nobody compiles the class again. Panics are not modelled.

Simulation cache:

* The latest block is resolved for the key and again for the run
  (`handlers/simulate.rs:130` and `:161`, against `simulation_cache.rs:80`): a
  result may be of a later block than its key.
* An entry takes the verified classes from the moment it is
  inserted (`simulation_cache.rs:408`): a class verified while the simulation ran
  counts as known to a result that does not show it, and the entry is not
  invalidated for it.
* The key of a transaction hash on a custom endpoint has the constant
  `"starknet"` for the endpoint (`handlers/simulate.rs:274`), although keys are to
  "include rpc_url for custom RPC endpoints" (`simulation_cache.rs:86`):
  `HitMatchesRequest` excepts these requests.

Verification, tables and toolchain:

* A session that was dropped keeps its class "already in progress" for ever
  (`verification/src/helpers.rs:114`).
* A Walnut session that fails after its profile rows leaves a row that names an
  inline build which is never stored. Lookups then take the class out of their
  answer, and it is compiled from Voyager with every trace (`db.rs:68`):
  `CompilesEnd` excepts it.
* "The newest of them is the one the install left" (`scarb_and_dojo_download_scheduler.rs:194`)
  does not hold after a shared binary was removed: the older of two releases is
  then installed for both.
* A failed upload of a binary is to cost "a download and nothing else"
  (`scarb_and_dojo_download_scheduler.rs:196`), but the marker is put all the same:
  a cold start then restores an older build of the same name as the newer
  release. `ColdStartRestores` is therefore stated for the time before the first
  failed upload.
* A marker that was opened and not written is empty, and counts as an
  installation whatever is on the disk (`scarb_and_dojo_download_scheduler.rs:258`,
  against the test at line 534): `EverythingInstalled` excepts a binary that was
  removed while its marker is empty.

Running a transaction:

* Replaced classes and nonces of earlier transactions of the block are not
  replayed (`state.rs:682` has a TODO for the classes).
* Nor are declarations of Cairo 0 classes: the replay takes `declared_classes`
  (`state.rs:278`, `:288`, `:298`, `:308`), and a trace has theirs under
  `deprecated_declared_classes`. A call of such a class later in the block
  asks the block before for it (`state.rs:783`) and fails, although the node
  answers. `ForkIsBefore` excepts these classes (`NotReplayed`).
* When the lookup of a verified class fails the debug trace runs its original
  code (`state.rs:782`, `s3.rs:48`), and may still map its steps by the inline build
  that is found at the end. `MappedIsExecuted` excepts a class that was missed so.
* Declarations and transactions of version 0 match no transaction of their block
  and are run before all of it (`transaction_extraction.rs`).
* The debug trace runs the original code of a class that was declared earlier in
  the same block, inline build or not, although it is "cached for the debug
  inline class, if class is verified" (`debugger.rs:57`), and maps its steps by
  the inline build.
* The value before a change is asked of the end of the block if the block before
  does not have the contract and nobody has written to it (`storage_changes.rs:67`).

Traces:

* A failure that a contract has caught makes a successful transaction reported as
  reverted (`execution.rs:547`-`582`).
* The deepest failed call is replaced without its level (`contract_calls_map.rs:143`),
  so that a later, less deep call may replace it.
* A failure below a hidden call of the STRK token may put the message on a call
  that is not shown.
* An event without keys panics the simulation (`events.rs:70`).
* The function calls of a contract call with library calls are taken away, since
  not all of its children were linked, and the merged debugger trace does not
  step into children that were not.
* Below an unnamed function or a loop the parent of a call need not be the call
  of the frame below.

Decoding:

* A signed integer that is not negative is shown minus the size of the field
  (`data-decoder/src/lib.rs:116`-`125`); sent back, it is encoded right.
* An empty array in memory is shown with one element; events show a u256 as its
  two limbs, and memory and events show an enum without its variant's name
  unless the variant has no value.
* Tuples in tuples cannot be decoded from calldata: their names are split at every
  comma. Fixed arrays get a length when they are encoded again, enums inside
  values do not survive the JSON, large payloads of enums are encoded wrong, and
  a call whose ABI cannot be fetched has its parameters in any order
  (`calldata_encoder.rs`).

### Deadlock

`CHECK_DEADLOCK FALSE` is set where the system really stops: when all requests
and sessions have ended (`voyager_*`, `verification_sessions`), or when the trace,
the run, the simulation or the request is over (`call_trace`, `transaction_run`,
`simulation_trace`, `calldata`). That no request or session is stuck before is
what `RequestsTerminate`, `RetriesEnd` and `PendingResolves` say. The other runs
keep it on.

### Fairness

* Pipeline: weak fairness of every process, since the runtime polls runnable
  tasks and every build has a timeout or a CPU limit; strong fairness of
  `RetryAcquire`, since tokio's semaphore is first come, first served.
* Workflow: weak fairness of handlers and tasks; builds end by
  `default_build_timeout`. Nothing is assumed of clients and restarts, and
  `PendingResolves` excepts the rows they leave behind and those of a lost
  update, which stay pending for good.
* Simulation cache: weak fairness of a blocking task. Requests need not come:
  `OutdatedIsDropped` speaks of keys that are asked for again and again and whose
  check the database answers again and again.
* Toolchain: weak fairness of restore and check; strong fairness of `Install` and
  `OpenMarker`: a download that is tried at every check comes through at last,
  and so does the opening of a file. Writing the marker has no such fairness: a
  marker may stay empty.
* Pages: weak fairness of every step of a trace, and strong fairness of a debug
  trace being asked for each class: `CompilesEnd` and `MissingPieceIsReattempted`
  speak of classes that users keep debugging.

The other specifications state no liveness: their processes are straight-line
code over a finite input.

## 4. The proofs

Eight modules hold theorems, checked by TLAPS for all values of the constants
from the named assumptions of the modules only: for instance, processes of
different kinds have different names, the inline build of a class is no class
that traces ask for, each loop has an owner, bounds are naturals.

*Pipeline* (`VoyagerPipelineProofs`). `TrackingInv` is inductive: the place of the
process that holds the notifiers of a class determines both channels of the
class, a class without such a process has no channel, a task that is not idle
holds its notifiers, and a request sleeps only on an open channel. `SingleFlight`,
`Phase1UnderPending` and `WaitersHaveWaker` follow. The strengthening is needed
because none of the three says where the holder is: without it a second holder
could appear between the send and the removal. `RetryExclusion` follows from a
second invariant: a class is in `active_retries` exactly while a retry of it
works.

`Phase1LeavesVerdict` has two parts. `VerdictInv` says that a process about to
signal leaves an entry or a marker, and that a retry about to clear the marker has
its entry in the cache; and `RetryInv`, that no other retry of the class is there
to drop that entry meanwhile. `Marking` is the one case without either: the retry
drops the entry and puts its marker afterwards.

*Latch* (also `VoyagerPipelineProofs`). The refinement: initial states map to
initial states, and under `TrackingInv` every step of a process is a step of
`CompilationLatch` or a stutter. Each action is handled by what it does to the
channels of its own class.

*Workflow* (`VerifiedSimulationsProofs`). `AllInv` is inductive. It conjoins the
types, `VerifiedHasFile` and, for each session,

* `SessionFollows`: what the session decided or stored as "success" is in
  `contract_classes`; the loop that stores has exactly the "built" classes left;
  what a minimal session built is in its outcomes until it is stored; a class
  about to be inserted is uploaded;
* `RowsVerified`: its "success" rows are of verified classes;
* `RowsFollow`: until outcomes are recorded, its rows say "none" or what was
  decided;
* `OutcomesFollow`: a class decided "failed" is of an old Cairo version, and no
  outcome goes against a final decision.

`SuccessIsVerified` alone is not inductive: a session records "success" from
`outcome`, and decides "success" from the rows of *other* sessions, so all of
them have to be known good. `FinalStatusStays` needs `OutcomesFollow`: an inline
build that is stored along with a requested class may be a requested class whose
row is final already; that its row cannot say "failed" holds because classes of a
new Cairo version are never decided "failed". A step is handled once for the
other sessions (it only adds files and classes) and once for its own.

*Simulation cache* (also `VerifiedSimulationsProofs`). `CacheInv`: the types, and every
entry is of a request with its key. `HitMatchesRequest` needs that different
kinds, transactions and chains have different keys among the requests that are
asked (`KeysSeparate`, which follows from `CacheKey` and `RpcsAssumption`).

*Verification under the cache* (also `VerifiedSimulationsProofs`). `SimulationCache`
has the table of verified classes as a variable `verified` and an action that adds
a class to it; the sessions that do so are in `VerificationWorkflow`. The two are
composed in `Server`: the behaviours of both over one table (`SameTable`).
`SessionsVerifyOneByOne` justifies the action: every step of the workflow,
whichever session takes it, leaves `contract_classes` alone or adds one class
(`ClassVerified`), so the cache sees nothing that its own model does not have.
`ShownIsBackedCorrect` is what a reader of a trace relies on: every class that a
found, fresh or cached result shows as verified has its file in the bucket. It
joins `VerifiedHasFile` of the workflow with `ResultsVerified` of the cache (what a
result shows was in the table when the run read it). No run checks these two:
their state space is the product of two models.

*Pages* (`ClassPagesProofs`). `PagesInv`: the tables only grow; for each place of a
trace, what it has read is still there and what one query could have told is in
`answers`; `PersistOK`: what is no longer to be written by a trace is in the
tables unless something failed; `ProvenanceInv`: a verified class of Voyager has a
tagged row or a trace that is about to write one. `LookupIsAtomic`, `RowsPointToBuilds`, `StoredCodeIsShown` and
`ProvenanceIsTold` follow.

*Toolchain* (`ToolchainBinariesProofs`). `ToolInv`: the disk holds the binary of a
release that is being marked or uploaded, and as long as no upload has failed the
markers in the bucket, and those among the keys that a server has listed, name
binaries there. `ColdStartRestores` follows.

*Call trace* (`CallTraceProofs`). `TreeInv` adds to the tree that children are calls
or inner calls linked so far, and that whatever may become the current call is a
function call. `CallsMatchFrames` is inductive with it, since a trace that is no
longer straight never becomes so again. Invariants of the panic (its level, and
that it is the first while the stack unwinds) and of the only loop (where its
parent is) rest on both. `InnerCallsLinked` needs two more. `TraceInv`: the trace
never has one location twice in a row, and its last location is the one that the
builder compares with; `Added` goes through the locations of an entry by
recursion, and the lemmas about it take the least number for which they could be
wrong. `LinkInv`: without library calls and deployments `childIndex` is the number
of contract calls made so far, these and no others are stepped into, in their
order, and as long as there is no loop each is under the function that made it.

*Transaction* (`TransactionRunProofs`). `SourcesInv` says of every build in the
fork's cache, in the calls and in the data fetched at the end where it can have
come from, unless inline builds of its class have changed or were missed meanwhile
(`changed`). What is true of a class outside that set stays true, which is all that
most steps need. `MappedIsExecuted` follows because a steady class has one such source.

`TypeInv` adds to the types where the transaction is at each await (`PlaceInv`).
With it `FindsItself` is about the first match in the block: an earlier match
would have the same sender, nonce and calldata. `ForkingInv` is `TypeInv` with
`ReadInv`: while transactions are replayed, the fork's cache over the block before is
the chain after as many of them (`ForkedAt`), and afterwards that before the
transaction; as long as nothing fails the classes declared by then are compiled,
but for those of Cairo 0; what has been read so far was read from there. `ForkIsBefore` is one
of its parts. `WrittenInv` keeps what the calls have written and the changes made of
it together until the values before are asked for, and gives `ChangesAreTrue`.
The state of the chain is a recursive function over its transactions
(`StateAt`, `Applied`); what the proofs need of it is one step, and that contracts
and declarations stay.

They rest on assumptions about the chain, which stand in `ForkedChain`.
`NoncesAssumption`: in a block two transactions of an account have different
nonces, and so have two messages from Ethereum; the calldata of a constructor is
not that of an account's transaction, which is a list of calls. Without it the
first match may be another transaction, and the code has nothing else to go by.
`StorageAssumption`: only contracts that exist have storage, since a transaction
can only write to a contract that has a class by its end; the fork answers zero
for a contract that the node does not have. The protocol's own address 0x1 is
the exception, and no contract of the model. TLC evaluates both for the chains
of `transaction_run`.

*Simulation trace* (`SimulationTraceProofs`). `WalkInv` is about the walk through the
executor's trace: the open calls lie on one path, each with the list of the
visible call nearest above it (`OpenInv`), the flame chart is the tree of the
visible calls, and of the failed calls the level is that of the first and none
after the one that is kept is deeper (`FailInv`). `BuildInv` says that the panic
that is kept is of a function call, and that none is deeper, in whatever order the
functions of the calls are built. `FailureExplained` follows: on one chain of
failed calls (`OneChain`) the later call is the deeper one, so that the one that is
kept is the last, with all others above it; and a function that has panicked is of
a failed call. `CallsShown` needs that `linked` is not touched before the report.

`OrdersInv` says what ids tell of paths: the calls below a call have the ids that
follow its own, and the account's validation and execution are the first two
calls of the root. `DebugInv` has the types, which with the two invariants before
gives `TreeOK`. `MergeInv` is about the recursion that replaces a call by its trace:
at any time the merged trace and the work, one after the other, have every
location of every call that is reached, once and in order, either itself or by
a call that is still to be replaced and has the other one below it (`Merged`). A
step replaces one such call by its own locations with its inner calls between
them, or by itself followed by them (`InPlaceOf`, `Spliced`); what was before it
and behind it stays in order because all calls below have the ids in between.
`StepsInv` says that the step of a call or function is a location of it, and of the
body if there is one. At the end no work is left, and `DebuggerWalksCalls` is what
both say of the trace alone, with the step where the debugger starts (`StartIs`).

`FailureExplained` asks only that the failed calls lie on one chain (`OneChain`),
which is what an uncaught failure makes and is true of more transactions. A step
of the trace knows which of the call's locations it is (`at`), so that "once and in
order" can be said of single steps (`MergedOnce`): the set of the steps is that of
all locations of the reached calls, and of any two the later one is of a later
call, further on in the same call, or back in a call above.

*Calldata* (`CalldataProofs`). `CalldataRoundTrip` is about the decoder alone:
whatever arguments Cairo has serialized, with any felts behind them, if they are
decoded then nothing was left and they are shown as `Display` says; and they are
decoded if nothing is behind them and the decoder reads their types. `ParamsRestore`
is its converse: the encoder writes what was shown as Cairo had written it. What it
writes are numbers, also negative ones and two limbs of a u256, which stand for
felts (`Encodes`) and are reduced when they are parsed. It depends on the type it is
given, which inside arrays and structs is not always the declared one: `As` says which
types serve a value (`Restores`).

Both are inductions over types. The induction theorems of the library cannot be
used, but an induction over a set can: the types of which a statement holds are a
set that contains a type if it contains its parts (`TypeInduction`, for a type of
least depth outside the set would be in it; `CountUp` is the same for numbers).
First, each function over types is shown to be what its definition says, and a
sequence that is read, written or joined step by step is described by its steps:
`Cat` by its tails, `DecodeParts` and `parse_multicall_calls` by the state after
each part. `DecodedType` says that whatever the felts are, a decoded value nests
no deeper than its type, so that the functions over decoded values
(`encode_decoded_value`, `HoldsEnum`) are applied where they are defined.

`IInv` is the inductive invariant of the two requests. `ChainOK`: as long as no
contract takes another class the cache has the ABI the calldata was written for,
or none. `ShownOK` and `WrittenOK`: the calls shown are a prefix of those parsed,
all of them once the client has got them, and each is what its call in the
transaction is shown as, before and after it is sent back. `FetchedOK`: an ABI
that was fetched is missing or that of the call. `RefusedForAReason` is part of
it. `DecodedAsWritten` says nothing of the calls once they are sent back, nor of
the cache, and is not inductive alone. What the parser reads of cut, whole and too
long calldata is `TxParsed`: a call that is cut short is left out whole, because
its length field counts the felt that is missing, or is itself missing.
`EncodingRestores` needs one more step: the calls that are written back one after
another are the `Multicall` of those that were shown.

All theorems are listed in `PROJECT.json`. Some type invariants are proved and
not run, because the runs have no property of that name: those of the
pipeline, the workflow (with `SessionInv`, `RowInv`) and the toolchain, and
`Phase1UnderPending`.

Only model-checked:

* everything under fairness (`RequestsTerminate`, `RetriesEnd`, `PendingResolves`,
  `OutdatedIsDropped`, `EverythingInstalled`, `CompilesEnd`), which is out of the
  prover's reach, as is `ENABLED`;
* `ArgumentsShown`, whose modules declare `RECURSIVE` operators: the decoder of memory
  follows pointers into cells that other types are laid out in, and so recurses over
  no structure a proof could follow.

All other properties of the passing runs are theorems. Most invariants behind
them were found in the proofs; the properties themselves were checked by TLC
first, also those whose statement changed.

`VerifiedHasFile` and its theorem are about the sessions of the workflow. The
persistence of Voyager classes writes rows and files of its own in parallel: for
it `StoredCodeIsShown` and `RowsPointToBuilds` say what holds.

## 5. What is not modelled

* The *content* of sources, ABIs, Sierra and Cairo programs and debug data. A
  build is a choice of outcome, a class is a name.
* Parsing of requests, names of types and functions, formats of responses,
  logging, notifications, metrics.
* Times as numbers: a timeout may happen whenever its wait lasts, an entry may
  lapse at any time.
* Panics of a spawned task (a hazard is listed), the blockifier and its gas, fees
  and the Ethereum side of a message.
* How the maps from Sierra statements to code are built (`mappings.rs`,
  `build_debugger_data.rs`): they are data of `CallTrace`.
* `type_decoder.rs`: it expands the types of the Sierra program into text. Its list
  of visited types never shrinks, so that a type is expanded at its first
  occurrence only.
* The components with status `not_modelled`: scarb builds and the dependency
  resolver (child processes, files and TOML), the Voyager client (one HTTP
  call), the felt encodings (only read, copied from the Cairo compiler),
  logging, notifications and start-up.

## 6. What could follow

Done: the compilation pipeline with its latch, the simulation cache, verification
sessions, the toolchain, the persistence of Voyager classes with lookups and
pages, the run of a transaction on its fork, call traces, contract calls, simple
and debug results, the decoders and the round trip of calldata, and the proofs
above. Left, in this order:

1. The decoder of events as a function over types, as that of calldata is, and its
   half of `ArgumentsShown` as a theorem.
2. The composition of `VerificationWorkflow` with `VoyagerPersistence` over one set
   of tables: today a Walnut session is reduced to its rows and files there.
3. `FeltCompression`: the packing of `felt252_vec_compression.rs` against the
   identity over small fields.
4. The selection of profiles in `manifest.rs` and the dependency resolution of
   `scarb-dep-resolver` as operators over small manifests.
