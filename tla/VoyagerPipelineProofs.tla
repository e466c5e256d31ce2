------------------------ MODULE VoyagerPipelineProofs ------------------------
(***************************************************************************)
(* Theorems about VoyagerPipeline, for every set of classes and requests:  *)
(* its types, the tracking of compilations, retries, what Phase 1 leaves,  *)
(* and that the tracking implements the two-stage latch of                 *)
(* CompilationLatch.                                                       *)
(***************************************************************************)
EXTENDS VoyagerPipeline, FiniteSetTheorems, TLAPS

USE DEF Requests, Procs, Goto

-----------------------------------------------------------------------------
(* Type correctness *)

\* Moving one process to a place of its own kind keeps the control well typed.
LEMMA GotoType ==
    ASSUME TypeOK, ProcsAssumption, NEW p \in Procs, NEW l, Goto(p, l),
           p \in SimpleReqs => l \in SimplePC,
           p \in DebugReqs => l \in DebugPC,
           p \in Classes => l \in TaskPC,
           p \in RetrySlots => l \in RetryPC
    PROVE  /\ pc' \in [Procs -> SimplePC \cup DebugPC \cup TaskPC \cup RetryPC]
           /\ \A q \in SimpleReqs : pc'[q] \in SimplePC
           /\ \A q \in DebugReqs : pc'[q] \in DebugPC
           /\ \A q \in Classes : pc'[q] \in TaskPC
           /\ \A q \in RetrySlots : pc'[q] \in RetryPC
  BY DEF TypeOK, ProcsAssumption

\* A read keeps the types.
LEMMA ReadsType ==
    ASSUME TypeOK, ProcsAssumption, NEW p \in Procs, NEW from, NEW l, Reads(p, from, l),
           p \in SimpleReqs => l \in SimplePC,
           p \in DebugReqs => l \in DebugPC,
           p \in Classes => l \in TaskPC,
           p \in RetrySlots => l \in RetryPC
    PROVE  TypeOK'
  <1>1. Goto(p, l)
    BY DEF Reads
  <1>2. UNCHANGED <<cacheVars, cls, built, owners, active, stored, lapses>>
    BY DEF Reads
  <1>3. /\ pc' \in [Procs -> SimplePC \cup DebugPC \cup TaskPC \cup RetryPC]
        /\ \A q \in SimpleReqs : pc'[q] \in SimplePC
        /\ \A q \in DebugReqs : pc'[q] \in DebugPC
        /\ \A q \in Classes : pc'[q] \in TaskPC
        /\ \A q \in RetrySlots : pc'[q] \in RetryPC
    BY <1>1, GotoType
  <1>. QED
    BY <1>2, <1>3 DEF TypeOK, CacheTypeOK, cacheVars

\* So does every step of a simple-trace request.
LEMMA SimpleType ==
    ASSUME TypeOK, ProcsAssumption, NEW s \in SimpleReqs, SimpleStep(s)
    PROVE  TypeOK'
  <1>. s \in Procs /\ s \notin DebugReqs /\ s \notin Classes /\ s \notin RetrySlots
    BY DEF ProcsAssumption
  <1>1. CASE SimpleSpawnTask(s)
    BY <1>1 DEF SimpleSpawnTask, start_compilation, TypeOK, CacheTypeOK, Channel,
                ProcsAssumption, SimplePC, TaskPC
  <1>2. CASE SimpleLookup(s)
    BY <1>2, ReadsType DEF SimpleLookup, SimplePC
  <1>3. CASE SimpleCheckCache(s)
    BY <1>3, ReadsType DEF SimpleCheckCache, SimplePC
  <1>4. CASE SimpleCheckFailed(s)
    BY <1>4, ReadsType DEF SimpleCheckFailed, SimplePC
  <1>5. CASE SimpleFetchSource(s)
    BY <1>5, ReadsType DEF SimpleFetchSource, SimplePC
  <1>6. CASE SimpleSkipSpawn(s)
    BY <1>6, ReadsType DEF SimpleSkipSpawn, SimplePC
  <1>7. CASE SimplePopulate(s)
    BY <1>7, ReadsType DEF SimplePopulate, SimplePC
  <1>8. CASE SimpleTimeout(s)
    BY <1>8, ReadsType DEF SimpleTimeout, SimplePC
  <1>9. CASE SimpleRead(s)
    BY <1>9, ReadsType DEF SimpleRead, SimplePC
  <1>. QED
    BY <1>1, <1>2, <1>3, <1>4, <1>5, <1>6, <1>7, <1>8, <1>9 DEF SimpleStep

\* What is persisted only adds to the lookups that are answered.
LEMMA PersistStored ==
    ASSUME TypeOK, NEW p \in Procs, Persist(p)
    PROVE  stored' \in [Classes -> SUBSET {"simple", "debug"}]
  <1>1. PICK answers \in SUBSET {"simple", "debug"} :
           stored' = [stored EXCEPT ![cls[p]] = @ \cup answers]
    BY DEF Persist
  <1>2. stored \in [Classes -> SUBSET {"simple", "debug"}] /\ cls[p] \in Classes
    BY DEF TypeOK
  <1>3. stored[cls[p]] \cup answers \in SUBSET {"simple", "debug"}
    BY <1>2
  <1>. QED
    BY <1>1, <1>2, <1>3

\* Signalling and removing the two channels keeps the types.
LEMMA PublishType ==
    ASSUME TypeOK, ProcsAssumption, NEW p \in DebugReqs \cup Classes, Publish(p)
    PROVE  TypeOK'
  <1>. p \in Procs /\ p \notin SimpleReqs /\ p \notin RetrySlots /\ cls[p] \in Classes
    BY DEF ProcsAssumption, TypeOK
  <1>. p \in Classes => p \notin DebugReqs
    BY DEF ProcsAssumption
  <1>1. CASE Persist(p)
    <2>1. \/ Goto(p, "set")
          \/ p \in Classes /\ Goto(p, "updateget")
      BY <1>1 DEF Persist, TypeOK, DebugPC
    <2>2. /\ pc' \in [Procs -> SimplePC \cup DebugPC \cup TaskPC \cup RetryPC]
          /\ \A q \in SimpleReqs : pc'[q] \in SimplePC
          /\ \A q \in DebugReqs : pc'[q] \in DebugPC
          /\ \A q \in Classes : pc'[q] \in TaskPC
          /\ \A q \in RetrySlots : pc'[q] \in RetryPC
      BY <2>1, GotoType DEF DebugPC, TaskPC
    <2>3. stored' \in [Classes -> SUBSET {"simple", "debug"}]
      BY <1>1, PersistStored
    <2>. QED
      BY <1>1, <2>2, <2>3 DEF Persist, TypeOK, CacheTypeOK, cacheVars
  <1>2. CASE SetFull(p)
    BY <1>2, GotoType
       DEF SetFull, set, CachedExternalClass, HasOriginal, TypeOK, CacheTypeOK, Entry, DebugPC, TaskPC
  <1>3. CASE SignalPhase1(p)
    BY <1>3 DEF SignalPhase1, SendPhase1, Woken, TypeOK, CacheTypeOK, Channel,
                ProcsAssumption, SimplePC, DebugPC, TaskPC
  <1>4. CASE ForgetPhase1(p)
    BY <1>4, GotoType DEF ForgetPhase1, RemovePhase1, AfterPhase1, TypeOK, CacheTypeOK,
                          Channel, DebugPC, TaskPC, ProcsAssumption
  <1>5. CASE FinishCompilation(p)
    BY <1>5 DEF FinishCompilation, SendPhase2, Woken, TypeOK, CacheTypeOK, Channel,
                ProcsAssumption, SimplePC, DebugPC, TaskPC
  <1>6. CASE ForgetPending(p)
    BY <1>6, GotoType DEF ForgetPending, RemovePending, AtEnd, TypeOK, CacheTypeOK,
                          Channel, DebugPC, TaskPC, Result, ProcsAssumption
  <1>. QED
    BY <1>1, <1>2, <1>3, <1>4, <1>5, <1>6 DEF Publish

\* mark_failed keeps the types.
LEMMA MarkFailedType ==
    ASSUME TypeOK, ProcsAssumption, NEW p \in DebugReqs \cup Classes, MarkFailed(p)
    PROVE  TypeOK'
  <1>. p \in Procs /\ p \notin SimpleReqs /\ p \notin RetrySlots /\ cls[p] \in Classes
    BY DEF ProcsAssumption, TypeOK
  <1>. QED
    BY GotoType DEF MarkFailed, mark_failed, TypeOK, CacheTypeOK, DebugPC, TaskPC

\* A process moves on and a free slot starts a retry of its class.
LEMMA EnqueueType ==
    ASSUME TypeOK, ProcsAssumption, NEW p \in DebugReqs \cup Classes, NEW l,
           EnqueueRetry(p, l),
           p \in DebugReqs => l \in DebugPC,
           p \in Classes => l \in TaskPC
    PROVE  /\ pc' \in [Procs -> SimplePC \cup DebugPC \cup TaskPC \cup RetryPC]
           /\ \A q \in SimpleReqs : pc'[q] \in SimplePC
           /\ \A q \in DebugReqs : pc'[q] \in DebugPC
           /\ \A q \in Classes : pc'[q] \in TaskPC
           /\ \A q \in RetrySlots : pc'[q] \in RetryPC
           /\ cls' \in [Procs -> Classes]
           /\ \A c \in Classes : cls'[c] = c
  BY DEF EnqueueRetry, TypeOK, ProcsAssumption, RetryPC

\* Every step of a debug-trace request keeps the types.
LEMMA DebugType ==
    ASSUME TypeOK, ProcsAssumption, NEW d \in DebugReqs, DebugStep(d)
    PROVE  TypeOK'
  <1>. d \in Procs /\ d \notin SimpleReqs /\ d \notin Classes /\ d \notin RetrySlots
    BY DEF ProcsAssumption
  <1>. cls[d] \in Classes
    BY DEF TypeOK
  <1>1. CASE DebugLookup(d)
    BY <1>1, ReadsType DEF DebugLookup, DebugPC
  <1>2. CASE DebugGet(d)
    BY <1>2, ReadsType DEF DebugGet, DebugPC
  <1>3. CASE DebugPartial(d)
    BY <1>3, ReadsType DEF DebugPartial, DebugPC
  <1>4. CASE DebugMiss(d)
    BY <1>4, ReadsType DEF DebugMiss, DebugPC
  <1>5. CASE DebugMissFailed(d)
    BY <1>5, ReadsType DEF DebugMissFailed, DebugPC
  <1>6. CASE DebugMissBusy(d)
    BY <1>6, ReadsType DEF DebugMissBusy, DebugPC
  <1>7. CASE DebugMissIdle(d)
    BY <1>7, ReadsType DEF DebugMissIdle, DebugPC
  <1>8. CASE DebugWait(d)
    BY <1>8, ReadsType DEF DebugWait, DebugPC
  <1>9. CASE DebugReget(d)
    BY <1>9, ReadsType DEF DebugReget, DebugPC
  <1>10. CASE DebugFetchSource(d)
    BY <1>10, ReadsType DEF DebugFetchSource, DebugPC
  <1>11. CASE DebugStart(d)
    BY <1>11, GotoType DEF DebugStart, start_compilation, TypeOK, CacheTypeOK, Channel, DebugPC
  <1>12. CASE DebugStartUntracked(d)
    BY <1>12, ReadsType DEF DebugStartUntracked, DebugPC
  <1>13. CASE DebugBuild(d)
    <2>1. PICK l \in {"persist", "markfailed", "marktimeout"} : Goto(d, l)
      BY <1>13 DEF DebugBuild
    <2>2. built' \in [Procs -> Result]
      BY <1>13 DEF DebugBuild, TypeOK, Result
    <2>. QED
      BY <1>13, <2>1, <2>2, GotoType DEF DebugBuild, TypeOK, CacheTypeOK, cacheVars, DebugPC
  <1>14. CASE DebugMarkTimeout(d)
    BY <1>14, EnqueueType DEF DebugMarkTimeout, mark_failed, TypeOK, CacheTypeOK, DebugPC
  <1>15. CASE EndUntracked(d)
    <2>1. Goto(d, AtEnd(d)) /\ AtEnd(d) \in DebugPC
      BY <1>15 DEF EndUntracked, AtEnd, DebugPC
    <2>2. built' \in [Procs -> Result]
      BY <1>15 DEF EndUntracked, TypeOK, Result
    <2>. QED
      BY <1>15, <2>1, <2>2, GotoType DEF EndUntracked, TypeOK, CacheTypeOK, cacheVars
  <1>. QED
    BY <1>1, <1>2, <1>3, <1>4, <1>5, <1>6, <1>7, <1>8, <1>9, <1>10, <1>11, <1>12,
       <1>13, <1>14, <1>15, MarkFailedType, PublishType DEF DebugStep

\* Every step of a background task keeps the types.
LEMMA TaskType ==
    ASSUME TypeOK, ProcsAssumption, NEW c \in Classes, TaskStep(c)
    PROVE  TypeOK'
  <1>. c \in Procs /\ c \notin SimpleReqs /\ c \notin DebugReqs /\ c \notin RetrySlots
    BY DEF ProcsAssumption
  <1>1. CASE TaskPhase1(c)
    <2>1. PICK l \in {"markfailed", "persist", "setphase1"} : Goto(c, l)
      BY <1>1 DEF TaskPhase1
    <2>2. built' \in [Procs -> Result]
      BY <1>1 DEF TaskPhase1, TypeOK, Result
    <2>. QED
      BY <1>1, <2>1, <2>2, GotoType DEF TaskPhase1, TypeOK, CacheTypeOK, cacheVars, TaskPC
  <1>2. CASE TaskSetPhase1(c)
    BY <1>2, GotoType
       DEF TaskSetPhase1, set, CachedExternalClass, HasOriginal, TypeOK, CacheTypeOK, Entry, TaskPC
  <1>3. CASE TaskPhase2(c)
    BY <1>3, ReadsType DEF TaskPhase2, TaskPC
  <1>4. CASE TaskPhase2Timeout(c)
    BY <1>4, EnqueueType DEF TaskPhase2Timeout, TypeOK, CacheTypeOK, cacheVars, TaskPC
  <1>5. CASE TaskUpdateGet(c)
    <2>1. PICK l \in {"updateput", "finish"} : Goto(c, l)
      BY <1>5 DEF TaskUpdateGet
    <2>2. built' \in [Procs -> Result]
      BY <1>5 DEF TaskUpdateGet, TypeOK, Result
    <2>. QED
      BY <1>5, <2>1, <2>2, GotoType DEF TaskUpdateGet, TypeOK, CacheTypeOK, cacheVars, TaskPC
  <1>6. CASE TaskUpdatePut(c)
    BY <1>6, GotoType
       DEF TaskUpdatePut, set, CachedExternalClass, HasOriginal, TypeOK, CacheTypeOK, Entry, TaskPC
  <1>. QED
    BY <1>1, <1>2, <1>3, <1>4, <1>5, <1>6, MarkFailedType, PublishType DEF TaskStep

\* Every step of a retry keeps the types.
LEMMA RetryType ==
    ASSUME TypeOK, ProcsAssumption, NEW r \in RetrySlots, RetryStep(r)
    PROVE  TypeOK'
  <1>. r \in Procs /\ r \notin SimpleReqs /\ r \notin DebugReqs /\ r \notin Classes
    BY DEF ProcsAssumption
  <1>. cls[r] \in Classes
    BY DEF TypeOK
  <1>1. CASE RetryBegin(r)
    BY <1>1, GotoType DEF RetryBegin, TypeOK, CacheTypeOK, cacheVars, RetryPC
  <1>2. CASE RetryAcquire(r)
    BY <1>2, ReadsType DEF RetryAcquire, RetryPC
  <1>3. CASE RetryBuild(r)
    <2>1. PICK l \in {"persist", "invalidate"} : Goto(r, l)
      BY <1>3 DEF RetryBuild
    <2>2. built' \in [Procs -> Result]
      BY <1>3 DEF RetryBuild, TypeOK, Result
    <2>. QED
      BY <1>3, <2>1, <2>2, GotoType DEF RetryBuild, TypeOK, CacheTypeOK, cacheVars, RetryPC
  <1>4. CASE Persist(r)
    <2>1. Goto(r, "set")
      BY <1>4 DEF Persist, TypeOK, RetryPC
    <2>2. stored' \in [Classes -> SUBSET {"simple", "debug"}]
      BY <1>4, PersistStored
    <2>. QED
      BY <1>4, <2>1, <2>2, GotoType DEF Persist, TypeOK, CacheTypeOK, cacheVars, RetryPC
  <1>5. CASE SetFull(r)
    BY <1>5, GotoType
       DEF SetFull, set, CachedExternalClass, HasOriginal, TypeOK, CacheTypeOK, Entry, RetryPC
  <1>6. CASE RetryClear(r)
    BY <1>6, GotoType DEF RetryClear, clear_failed, TypeOK, CacheTypeOK, RetryPC
  <1>7. CASE RetryInvalidate(r)
    BY <1>7, GotoType DEF RetryInvalidate, invalidate, NoEntry, TypeOK, CacheTypeOK, Entry, RetryPC
  <1>8. CASE RetryMarkFailed(r)
    BY <1>8, GotoType DEF RetryMarkFailed, mark_failed, TypeOK, CacheTypeOK, RetryPC
  <1>9. CASE RetryLeave(r)
    BY <1>9, GotoType DEF RetryLeave, TypeOK, CacheTypeOK, cacheVars, RetryPC, Result
  <1>. QED
    BY <1>1, <1>2, <1>3, <1>4, <1>5, <1>6, <1>7, <1>8, <1>9 DEF RetryStep

\* The expiry of entries and markers keeps the types.
LEMMA LapseType ==
    ASSUME TypeOK, BoundsAssumption, Lapse
    PROVE  TypeOK'
  <1>1. ASSUME NEW c \in Classes, LapseEntry(c)
        PROVE  TypeOK'
    BY <1>1 DEF LapseEntry, CanLapse, invalidate, NoEntry, TypeOK, CacheTypeOK, Entry,
                BoundsAssumption
  <1>2. ASSUME NEW c \in Classes, LapseMarker(c)
        PROVE  TypeOK'
    BY <1>2 DEF LapseMarker, CanLapse, clear_failed, TypeOK, CacheTypeOK, BoundsAssumption
  <1>. QED
    BY <1>1, <1>2 DEF Lapse

\* Every reachable state of the pipeline is well typed: in particular a
\* process is only ever at a place of its own kind.
THEOREM TypeCorrect == Spec => []TypeOK
  <1>1. Init => TypeOK
    BY ProcsAssumption, BoundsAssumption
       DEF Init, CacheInit, TypeOK, CacheTypeOK, Entry, NoEntry, Channel, Result,
           SimplePC, DebugPC, TaskPC, RetryPC, ProcsAssumption, BoundsAssumption
  <1>2. TypeOK /\ [Next]_vars => TypeOK'
    <2> SUFFICES ASSUME TypeOK, [Next]_vars PROVE TypeOK'
      OBVIOUS
    <2>1. CASE UNCHANGED vars
      BY <2>1 DEF vars, cacheVars, TypeOK, CacheTypeOK
    <2>. QED
      BY <2>1, SimpleType, DebugType, TaskType, RetryType, LapseType,
         ProcsAssumption, BoundsAssumption DEF Next
  <1>. QED
    BY <1>1, <1>2, PTL DEF Spec

-----------------------------------------------------------------------------
(* Tracking of compilations *)

USE DEF Owned, ChannelsFollow, BeforeSignal, BeforeFinish

\* Two places between which no signal is sent.
SameStage(a, b) ==
    \/ a \in BeforeSignal /\ b \in BeforeSignal
    \/ a \in BeforeFinish /\ b \in BeforeFinish

\* A step that moves neither the requests nor the tasks nor the channels.
LEMMA FrameTracking ==
    ASSUME TypeOK, TrackingInv,
           \A q \in Requests \cup Classes : pc'[q] = pc[q] /\ cls'[q] = cls[q],
           UNCHANGED <<phase1, pending, owners>>
    PROVE  TrackingInv'
  BY DEF TrackingInv, TypeOK

\* A step of `p` within one stage: the channels stay, and a holder of the
\* notifiers does not pass a signal.
LEMMA StayTracking ==
    ASSUME TypeOK, TrackingInv, ProcsAssumption, NEW p \in Requests \cup Classes, NEW l,
           \A q \in Requests \cup Classes : pc'[q] = IF q = p THEN l ELSE pc[q],
           \A q \in Requests \cup Classes : cls'[q] = cls[q],
           UNCHANGED <<phase1, pending, owners>>,
           p \in owners => SameStage(pc[p], l),
           p \in Classes => p \in owners,
           p \in owners \/ l \notin {"unphase1", "finish", "unpending"},
           l = "waiting" /\ p \in SimpleReqs => BlocksOnPhase1(cls[p]),
           l = "waiting" /\ p \in DebugReqs => BlocksOnPending(cls[p])
    PROVE  TrackingInv'
  <1>1. owners \subseteq DebugReqs \cup Classes
    BY DEF TypeOK
  <1>2. \A q \in owners : ChannelsFollow(q)'
    BY <1>1 DEF TrackingInv, SameStage
  <1>3. \A c \in Classes : Owned(c)' <=> Owned(c)
    BY <1>1
  <1>4. \A s \in SimpleReqs : pc'[s] = "waiting" => phase1'[cls'[s]] = "open"
    BY DEF TrackingInv, BlocksOnPhase1
  <1>5. \A d \in DebugReqs : pc'[d] = "waiting" => pending'[cls'[d]] = "open"
    BY DEF TrackingInv, BlocksOnPending
  <1>6. \A c \in Classes : pc'[c] # "idle" => c \in owners
    BY DEF TrackingInv
  <1>7. \A d \in DebugReqs : pc'[d] \in {"unphase1", "finish", "unpending"} => d \in owners
    BY DEF TrackingInv
  <1>. QED
    BY <1>1, <1>2, <1>3, <1>4, <1>5, <1>6, <1>7 DEF TrackingInv

\* A read of a request that holds no notifiers.
LEMMA ReadTracking ==
    ASSUME TypeOK, TrackingInv, ProcsAssumption, NEW p \in Requests, NEW from, NEW l,
           Reads(p, from, l),
           from \notin BeforeSignal \cup BeforeFinish \cup {"unphase1", "unpending"},
           l \notin {"unphase1", "finish", "unpending"},
           l = "waiting" /\ p \in SimpleReqs => BlocksOnPhase1(cls[p]),
           l = "waiting" /\ p \in DebugReqs => BlocksOnPending(cls[p])
    PROVE  TrackingInv'
  <1>1. p \notin owners
    BY DEF Reads, TrackingInv
  <1>2. p \notin Classes
    BY DEF ProcsAssumption
  <1>3. /\ \A q \in Requests \cup Classes : pc'[q] = IF q = p THEN l ELSE pc[q]
        /\ \A q \in Requests \cup Classes : cls'[q] = cls[q]
        /\ UNCHANGED <<phase1, pending, owners>>
    BY DEF Reads, cacheVars, TypeOK
  <1>. QED
    BY <1>1, <1>2, <1>3, StayTracking

\* A simple-trace request keeps the invariant: it waits only on a channel it
\* found open.
LEMMA SimpleTracking ==
    ASSUME TypeOK, TrackingInv, ProcsAssumption, NEW s \in SimpleReqs, SimpleStep(s)
    PROVE  TrackingInv'
  <1>. s \in Requests /\ s \notin DebugReqs /\ s \notin Classes
    BY DEF ProcsAssumption
  <1>1. CASE SimpleSpawnTask(s)
    <2>. DEFINE c == cls[s]
    <2>1. c \in Classes /\ c # s /\ cls[c] = c /\ pending[c] = "none"
      BY <1>1 DEF SimpleSpawnTask, CanStart, is_compiling, TypeOK
    <2>2. ~Owned(c)
      BY <2>1 DEF TrackingInv
    <2>3. /\ \A q \in Procs : pc'[q] = IF q = s THEN "populate" ELSE IF q = c THEN "phase1" ELSE pc[q]
          /\ owners' = owners \cup {c}
          /\ \A k \in Classes : phase1'[k] = IF k = c THEN "open" ELSE phase1[k]
          /\ \A k \in Classes : pending'[k] = IF k = c THEN "open" ELSE pending[k]
          /\ cls' = cls
      BY <1>1, <2>1 DEF SimpleSpawnTask, start_compilation, TypeOK, CacheTypeOK
    <2>. HIDE DEF c
    <2>4. owners \subseteq DebugReqs \cup Classes /\ cls \in [Procs -> Classes]
      BY DEF TypeOK
    <2>5. \A p \in owners' : ChannelsFollow(p)'
      BY <2>1, <2>2, <2>3, <2>4 DEF TrackingInv
    <2>6. \A p, q \in owners' : cls'[p] = cls'[q] => p = q
      BY <2>1, <2>2, <2>3, <2>4 DEF TrackingInv
    <2>7. \A k \in Classes : ~Owned(k)' => phase1'[k] = "none" /\ pending'[k] = "none"
      BY <2>1, <2>3 DEF TrackingInv
    <2>8. \A k \in Classes : pc'[k] # "idle" => k \in owners'
      BY <2>3 DEF TrackingInv, ProcsAssumption
    <2>9. \A d \in DebugReqs : pc'[d] \in {"unphase1", "finish", "unpending"} => d \in owners'
      BY <2>3 DEF TrackingInv
    <2>10. \A q \in SimpleReqs : pc'[q] = "waiting" => phase1'[cls'[q]] = "open"
      BY <2>3, <2>4 DEF TrackingInv
    <2>11. \A q \in DebugReqs : pc'[q] = "waiting" => pending'[cls'[q]] = "open"
      BY <2>3, <2>4 DEF TrackingInv
    <2>. QED
      BY <2>5, <2>6, <2>7, <2>8, <2>9, <2>10, <2>11 DEF TrackingInv
  <1>2. CASE SimpleLookup(s)
    BY <1>2, ReadTracking DEF SimpleLookup
  <1>3. CASE SimpleCheckCache(s)
    BY <1>3, ReadTracking DEF SimpleCheckCache
  <1>4. CASE SimpleCheckFailed(s)
    BY <1>4, ReadTracking DEF SimpleCheckFailed
  <1>5. CASE SimpleFetchSource(s)
    BY <1>5, ReadTracking DEF SimpleFetchSource
  <1>6. CASE SimpleSkipSpawn(s)
    BY <1>6, ReadTracking DEF SimpleSkipSpawn
  <1>7. CASE SimplePopulate(s)
    BY <1>7, ReadTracking DEF SimplePopulate
  <1>8. CASE SimpleTimeout(s)
    BY <1>8, ReadTracking DEF SimpleTimeout
  <1>9. CASE SimpleRead(s)
    BY <1>9, ReadTracking DEF SimpleRead
  <1>. QED
    BY <1>1, <1>2, <1>3, <1>4, <1>5, <1>6, <1>7, <1>8, <1>9 DEF SimpleStep

\* A step of the holder of the notifiers that changes its own channels and
\* wakes the requests that wait on the one it signals.
LEMMA SignalTracking ==
    ASSUME TypeOK, TrackingInv, ProcsAssumption, NEW p \in owners,
           NEW l, l \notin {"waiting", "idle"}, ChannelsFollow(p)',
           \A c \in Classes : c # cls[p] => phase1'[c] = phase1[c] /\ pending'[c] = pending[c],
           UNCHANGED <<cls, owners>>,
           \A q \in Procs :
              \/ pc'[q] = IF q = p THEN l ELSE pc[q]
              \/ q \in Requests /\ pc[q] = "waiting" /\ cls[q] = cls[p] /\ pc'[q] \in {"read", "reget"},
           pc'[p] = l,
           \A s \in SimpleReqs : pc'[s] = "waiting" /\ cls[s] = cls[p] => phase1'[cls[p]] = "open",
           \A d \in DebugReqs : pc'[d] = "waiting" /\ cls[d] = cls[p] => pending'[cls[p]] = "open"
    PROVE  TrackingInv'
  <1>1. owners \subseteq DebugReqs \cup Classes /\ cls \in [Procs -> Classes]
    BY DEF TypeOK
  <1>2. \A q \in owners : ChannelsFollow(q)'
    <2> SUFFICES ASSUME NEW q \in owners, q # p PROVE ChannelsFollow(q)'
      OBVIOUS
    <2>1. cls[q] # cls[p] /\ cls[q] \in Classes /\ ChannelsFollow(q)
      BY <1>1 DEF TrackingInv
    <2>2. pc'[q] = pc[q]
      BY <1>1, <2>1
    <2>. QED
      BY <1>1, <2>1, <2>2
  <1>3. \A c \in Classes : ~Owned(c)' => phase1'[c] = "none" /\ pending'[c] = "none"
    BY <1>1 DEF TrackingInv
  <1>4. \A c \in Classes : pc'[c] # "idle" => c \in owners'
    BY DEF TrackingInv, ProcsAssumption
  <1>5. \A d \in DebugReqs : pc'[d] \in {"unphase1", "finish", "unpending"} => d \in owners'
    BY DEF TrackingInv
  <1>6. \A s \in SimpleReqs : pc'[s] = "waiting" => phase1'[cls'[s]] = "open"
    <2> SUFFICES ASSUME NEW s \in SimpleReqs, pc'[s] = "waiting" PROVE phase1'[cls[s]] = "open"
      OBVIOUS
    <2>1. pc[s] = "waiting" /\ s # p
      BY <1>1
    <2>. QED
      BY <1>1, <2>1 DEF TrackingInv
  <1>7. \A d \in DebugReqs : pc'[d] = "waiting" => pending'[cls'[d]] = "open"
    <2> SUFFICES ASSUME NEW d \in DebugReqs, pc'[d] = "waiting" PROVE pending'[cls[d]] = "open"
      OBVIOUS
    <2>1. pc[d] = "waiting" /\ d # p
      BY <1>1
    <2>. QED
      BY <1>1, <2>1 DEF TrackingInv
  <1>. QED
    BY <1>2, <1>3, <1>4, <1>5, <1>6, <1>7 DEF TrackingInv

\* Each of the five signalling steps keeps the invariant: the holder's place and
\* its channels move together.
LEMMA PublishTracking ==
    ASSUME TypeOK, TrackingInv, ProcsAssumption, NEW p \in DebugReqs \cup Classes, Publish(p)
    PROVE  TrackingInv'
  <1>. p \in Procs /\ p \in Requests \cup Classes /\ p \notin SimpleReqs /\ p \notin RetrySlots
    BY DEF ProcsAssumption
  <1>. cls[p] \in Classes /\ (p \in Classes => p \notin DebugReqs)
    BY DEF ProcsAssumption, TypeOK
  <1>a. p \in Classes /\ pc[p] # "idle" => p \in owners
    BY DEF TrackingInv
  <1>b. pc[p] \in {"unphase1", "finish", "unpending"} => p \in owners
    BY <1>a DEF TrackingInv
  <1>1. CASE Persist(p)
    <2>1. CASE pc[p] = "persist" /\ Goto(p, "set")
      <3>1. /\ \A q \in Requests \cup Classes : pc'[q] = IF q = p THEN "set" ELSE pc[q]
            /\ \A q \in Requests \cup Classes : cls'[q] = cls[q]
            /\ UNCHANGED <<phase1, pending, owners>>
        BY <1>1, <2>1 DEF Persist, TypeOK, cacheVars
      <3>2. SameStage(pc[p], "set")
        BY <2>1 DEF SameStage
      <3>3. p \in Classes => p \in owners
        BY <2>1, <1>a
      <3>. QED
        BY <3>1, <3>2, <3>3, StayTracking
    <2>2. CASE pc[p] = "persist2" /\ Goto(p, "updateget")
      <3>1. /\ \A q \in Requests \cup Classes : pc'[q] = IF q = p THEN "updateget" ELSE pc[q]
            /\ \A q \in Requests \cup Classes : cls'[q] = cls[q]
            /\ UNCHANGED <<phase1, pending, owners>>
        BY <1>1, <2>2 DEF Persist, TypeOK, cacheVars
      <3>2. SameStage(pc[p], "updateget")
        BY <2>2 DEF SameStage
      <3>3. p \in Classes => p \in owners
        BY <2>2, <1>a
      <3>. QED
        BY <3>1, <3>2, <3>3, StayTracking
    <2>. QED
      BY <1>1, <2>1, <2>2 DEF Persist
  <1>2. CASE SetFull(p)
    <2>1. /\ \A q \in Requests \cup Classes : pc'[q] = IF q = p THEN "signal" ELSE pc[q]
          /\ \A q \in Requests \cup Classes : cls'[q] = cls[q]
          /\ UNCHANGED <<phase1, pending, owners>>
      BY <1>2 DEF SetFull, TypeOK
    <2>2. SameStage(pc[p], "signal")
      BY <1>2 DEF SetFull, SameStage
    <2>3. p \in Classes => p \in owners
      BY <1>2, <1>a DEF SetFull
    <2>. QED
      BY <2>1, <2>2, <2>3, StayTracking
  <1>3. CASE SignalPhase1(p)
    <2>1. p \in owners /\ ChannelsFollow(p) /\ pc[p] = "signal"
      BY <1>3 DEF SignalPhase1, TrackingInv
    <2>2. /\ \A c \in Classes : phase1'[c] = IF c = cls[p] THEN "done" ELSE phase1[c]
          /\ UNCHANGED <<pending, cls, owners>>
          /\ \A q \in Procs : pc'[q] = IF q = p THEN "unphase1"
                ELSE IF q \in SimpleReqs /\ pc[q] = "waiting" /\ cls[q] = cls[p] THEN "read" ELSE pc[q]
      BY <1>3 DEF SignalPhase1, SendPhase1, Woken, TypeOK, CacheTypeOK
    <2>3. ChannelsFollow(p)'
      BY <2>1, <2>2
    <2>4. \A d \in DebugReqs : pc'[d] = "waiting" /\ cls[d] = cls[p] => pending'[cls[p]] = "open"
      BY <2>1, <2>2
    <2>5. \A s \in SimpleReqs : ~(pc'[s] = "waiting" /\ cls[s] = cls[p])
      BY <2>2
    <2>. QED
      BY <2>1, <2>2, <2>3, <2>4, <2>5, SignalTracking
  <1>4. CASE ForgetPhase1(p)
    <2>1. p \in owners /\ ChannelsFollow(p) /\ pc[p] = "unphase1"
      BY <1>4, <1>b DEF ForgetPhase1, TrackingInv
    <2>. DEFINE l == AfterPhase1(p)
    <2>2. l \in {"phase2", "finish"}
      BY DEF AfterPhase1
    <2>3. /\ \A c \in Classes : phase1'[c] = IF c = cls[p] THEN "none" ELSE phase1[c]
          /\ UNCHANGED <<pending, cls, owners>>
          /\ \A q \in Procs : pc'[q] = IF q = p THEN l ELSE pc[q]
      BY <1>4 DEF ForgetPhase1, RemovePhase1, TypeOK, CacheTypeOK
    <2>. HIDE DEF l
    <2>4. ChannelsFollow(p)'
      BY <2>1, <2>2, <2>3
    <2>5. \A s \in SimpleReqs : ~(pc'[s] = "waiting" /\ cls[s] = cls[p])
      BY <2>1, <2>2, <2>3 DEF TrackingInv
    <2>. QED
      BY <2>1, <2>2, <2>3, <2>4, <2>5, SignalTracking
  <1>5. CASE FinishCompilation(p)
    <2>1. p \in owners /\ ChannelsFollow(p) /\ pc[p] = "finish"
      BY <1>5, <1>b DEF FinishCompilation, TrackingInv
    <2>2. /\ \A c \in Classes : pending'[c] = IF c = cls[p] THEN "done" ELSE pending[c]
          /\ UNCHANGED <<phase1, cls, owners>>
          /\ \A q \in Procs : pc'[q] = IF q = p THEN "unpending"
                ELSE IF q \in DebugReqs /\ pc[q] = "waiting" /\ cls[q] = cls[p] THEN "reget" ELSE pc[q]
      BY <1>5 DEF FinishCompilation, SendPhase2, Woken, TypeOK, CacheTypeOK
    <2>3. ChannelsFollow(p)'
      BY <2>1, <2>2
    <2>4. \A d \in DebugReqs : ~(pc'[d] = "waiting" /\ cls[d] = cls[p])
      BY <2>2
    <2>5. \A s \in SimpleReqs : ~(pc'[s] = "waiting" /\ cls[s] = cls[p])
      BY <2>1, <2>2 DEF TrackingInv
    <2>. QED
      BY <2>1, <2>2, <2>3, <2>4, <2>5, SignalTracking
  <1>6. CASE ForgetPending(p)
    <2>1. p \in owners /\ ChannelsFollow(p) /\ pc[p] = "unpending"
      BY <1>6, <1>b DEF ForgetPending, TrackingInv
    <2>. DEFINE l == AtEnd(p)
    <2>2. /\ p \in Classes => l = "idle"
          /\ p \in DebugReqs => l \in {"served", "unserved"}
      BY DEF AtEnd
    <2>3. /\ \A c \in Classes : pending'[c] = IF c = cls[p] THEN "none" ELSE pending[c]
          /\ UNCHANGED <<phase1, cls>>
          /\ owners' = owners \ {p}
          /\ \A q \in Procs : pc'[q] = IF q = p THEN l ELSE pc[q]
      BY <1>6 DEF ForgetPending, RemovePending, TypeOK, CacheTypeOK
    <2>. HIDE DEF l
    <2>4. owners \subseteq DebugReqs \cup Classes /\ cls \in [Procs -> Classes]
      BY DEF TypeOK
    <2>5. \A q \in owners' : cls[q] # cls[p] /\ pc'[q] = pc[q]
      BY <2>1, <2>3, <2>4 DEF TrackingInv
    <2>6. \A q \in owners' : ChannelsFollow(q)'
      BY <2>3, <2>4, <2>5 DEF TrackingInv
    <2>7. \A c \in Classes : ~Owned(c)' => phase1'[c] = "none" /\ pending'[c] = "none"
      BY <2>1, <2>3, <2>4, <2>5 DEF TrackingInv
    <2>8. \A c \in Classes : pc'[c] # "idle" => c \in owners'
      BY <2>2, <2>3 DEF TrackingInv
    <2>9. \A d \in DebugReqs : pc'[d] \in {"unphase1", "finish", "unpending"} => d \in owners'
      BY <2>2, <2>3 DEF TrackingInv
    <2>10. \A s \in SimpleReqs : pc'[s] = "waiting" => phase1'[cls'[s]] = "open"
      BY <2>3 DEF TrackingInv
    <2>11. \A d \in DebugReqs : pc'[d] = "waiting" => pending'[cls'[d]] = "open"
      BY <2>1, <2>2, <2>3, <2>4 DEF TrackingInv
    <2>12. \A q, k \in owners' : cls'[q] = cls'[k] => q = k
      BY <2>3 DEF TrackingInv
    <2>. QED
      BY <2>6, <2>7, <2>8, <2>9, <2>10, <2>11, <2>12 DEF TrackingInv
  <1>. QED
    BY <1>1, <1>2, <1>3, <1>4, <1>5, <1>6 DEF Publish

\* mark_failed happens within the stage before the signal.
LEMMA MarkFailedTracking ==
    ASSUME TypeOK, TrackingInv, ProcsAssumption, NEW p \in DebugReqs \cup Classes, MarkFailed(p)
    PROVE  TrackingInv'
  <1>. p \in Requests \cup Classes /\ p \notin SimpleReqs
    BY DEF ProcsAssumption
  <1>1. p \in Classes => p \in owners
    BY DEF MarkFailed, TrackingInv
  <1>2. /\ \A q \in Requests \cup Classes : pc'[q] = IF q = p THEN "signal" ELSE pc[q]
        /\ \A q \in Requests \cup Classes : cls'[q] = cls[q]
        /\ UNCHANGED <<phase1, pending, owners>>
    BY DEF MarkFailed, TypeOK
  <1>3. SameStage(pc[p], "signal")
    BY DEF MarkFailed, SameStage
  <1>. QED
    BY <1>1, <1>2, <1>3, StayTracking

\* A debug-trace request keeps the invariant, whether or not it got the
\* notifiers.
LEMMA DebugTracking ==
    ASSUME TypeOK, TrackingInv, ProcsAssumption, NEW d \in DebugReqs, DebugStep(d)
    PROVE  TrackingInv'
  <1>. d \in Requests /\ d \notin SimpleReqs /\ d \notin Classes /\ d \notin RetrySlots
    BY DEF ProcsAssumption
  <1>1. CASE DebugLookup(d)
    BY <1>1, ReadTracking DEF DebugLookup
  <1>2. CASE DebugGet(d)
    BY <1>2, ReadTracking DEF DebugGet
  <1>3. CASE DebugPartial(d)
    BY <1>3, ReadTracking DEF DebugPartial
  <1>4. CASE DebugMiss(d)
    BY <1>4, ReadTracking DEF DebugMiss
  <1>5. CASE DebugMissFailed(d)
    BY <1>5, ReadTracking DEF DebugMissFailed
  <1>6. CASE DebugMissBusy(d)
    BY <1>6, ReadTracking DEF DebugMissBusy
  <1>7. CASE DebugMissIdle(d)
    BY <1>7, ReadTracking DEF DebugMissIdle
  <1>8. CASE DebugWait(d)
    BY <1>8, ReadTracking DEF DebugWait
  <1>9. CASE DebugReget(d)
    BY <1>9, ReadTracking DEF DebugReget
  <1>10. CASE DebugFetchSource(d)
    BY <1>10, ReadTracking DEF DebugFetchSource
  <1>11. CASE DebugStartUntracked(d)
    BY <1>11, ReadTracking DEF DebugStartUntracked
  <1>12. CASE DebugStart(d)
    <2>. DEFINE c == cls[d]
    <2>1. c \in Classes /\ pending[c] = "none" /\ pc[d] = "start"
      BY <1>12 DEF DebugStart, CanStart, is_compiling, TypeOK
    <2>2. ~Owned(c)
      BY <2>1 DEF TrackingInv
    <2>3. /\ \A q \in Procs : pc'[q] = IF q = d THEN "build" ELSE pc[q]
          /\ owners' = owners \cup {d}
          /\ \A k \in Classes : phase1'[k] = IF k = c THEN "open" ELSE phase1[k]
          /\ \A k \in Classes : pending'[k] = IF k = c THEN "open" ELSE pending[k]
          /\ cls' = cls
      BY <1>12, <2>1 DEF DebugStart, start_compilation, TypeOK, CacheTypeOK
    <2>4. owners \subseteq DebugReqs \cup Classes /\ cls \in [Procs -> Classes] /\ cls[d] = c
      BY DEF TypeOK
    <2>. HIDE DEF c
    <2>5. \A p \in owners' : ChannelsFollow(p)'
      BY <2>1, <2>2, <2>3, <2>4 DEF TrackingInv
    <2>6. \A p, q \in owners' : cls'[p] = cls'[q] => p = q
      BY <2>1, <2>2, <2>3, <2>4 DEF TrackingInv
    <2>7. \A k \in Classes : ~Owned(k)' => phase1'[k] = "none" /\ pending'[k] = "none"
      BY <2>1, <2>3, <2>4 DEF TrackingInv
    <2>8. \A k \in Classes : pc'[k] # "idle" => k \in owners'
      BY <2>3 DEF TrackingInv, ProcsAssumption
    <2>9. \A q \in DebugReqs : pc'[q] \in {"unphase1", "finish", "unpending"} => q \in owners'
      BY <2>3 DEF TrackingInv
    <2>10. \A q \in SimpleReqs : pc'[q] = "waiting" => phase1'[cls'[q]] = "open"
      BY <2>3, <2>4 DEF TrackingInv
    <2>11. \A q \in DebugReqs : pc'[q] = "waiting" => pending'[cls'[q]] = "open"
      BY <2>3, <2>4 DEF TrackingInv
    <2>. QED
      BY <2>5, <2>6, <2>7, <2>8, <2>9, <2>10, <2>11 DEF TrackingInv
  <1>13. CASE DebugBuild(d)
    <2>1. PICK l \in {"persist", "markfailed", "marktimeout"} : Goto(d, l)
      BY <1>13 DEF DebugBuild
    <2>2. /\ \A q \in Requests \cup Classes : pc'[q] = IF q = d THEN l ELSE pc[q]
          /\ \A q \in Requests \cup Classes : cls'[q] = cls[q]
          /\ UNCHANGED <<phase1, pending, owners>>
      BY <1>13, <2>1 DEF DebugBuild, TypeOK, cacheVars
    <2>3. SameStage(pc[d], l)
      BY <1>13, <2>1 DEF DebugBuild, SameStage
    <2>4. l \notin {"unphase1", "finish", "unpending", "waiting"}
      BY <2>1
    <2>. QED
      BY <2>2, <2>3, <2>4, StayTracking
  <1>14. CASE DebugMarkTimeout(d)
    <2>1. /\ \A q \in Requests \cup Classes : pc'[q] = IF q = d THEN "signal" ELSE pc[q]
          /\ \A q \in Requests \cup Classes : cls'[q] = cls[q]
          /\ UNCHANGED <<phase1, pending, owners>>
      BY <1>14 DEF DebugMarkTimeout, EnqueueRetry, TypeOK, ProcsAssumption
    <2>2. SameStage(pc[d], "signal")
      BY <1>14 DEF DebugMarkTimeout, SameStage
    <2>. QED
      BY <2>1, <2>2, StayTracking
  <1>15. CASE EndUntracked(d)
    <2>. DEFINE l == AtEnd(d)
    <2>1. l \in {"served", "unserved"}
      BY DEF AtEnd
    <2>2. /\ \A q \in Requests \cup Classes : pc'[q] = IF q = d THEN l ELSE pc[q]
          /\ \A q \in Requests \cup Classes : cls'[q] = cls[q]
          /\ UNCHANGED <<phase1, pending, owners>>
          /\ d \notin owners
      BY <1>15 DEF EndUntracked, TypeOK, cacheVars
    <2>3. l \notin {"unphase1", "finish", "unpending", "waiting"}
      BY <2>1
    <2>. HIDE DEF l
    <2>. QED
      BY <2>2, <2>3, StayTracking
  <1>16. CASE MarkFailed(d)
    BY <1>16, MarkFailedTracking
  <1>17. CASE Publish(d)
    BY <1>17, PublishTracking
  <1>. QED
    BY <1>1, <1>2, <1>3, <1>4, <1>5, <1>6, <1>7, <1>8, <1>9, <1>10, <1>11, <1>12,
       <1>13, <1>14, <1>15, <1>16, <1>17 DEF DebugStep

\* A background task, which holds the notifiers all the time, keeps the
\* invariant.
LEMMA TaskTracking ==
    ASSUME TypeOK, TrackingInv, ProcsAssumption, NEW c \in Classes, TaskStep(c)
    PROVE  TrackingInv'
  <1>. c \notin Requests /\ c \notin RetrySlots
    BY DEF ProcsAssumption
  <1>1. CASE MarkFailed(c)
    BY <1>1, MarkFailedTracking
  <1>2. CASE Publish(c)
    BY <1>2, PublishTracking
  <1>3. CASE \/ TaskPhase1(c) \/ TaskSetPhase1(c) \/ TaskPhase2(c)
             \/ TaskPhase2Timeout(c) \/ TaskUpdateGet(c) \/ TaskUpdatePut(c)
    <2>1. PICK l : /\ \A q \in Requests \cup Classes : pc'[q] = IF q = c THEN l ELSE pc[q]
                   /\ SameStage(pc[c], l)
                   /\ pc[c] # "idle"
      <3>1. CASE TaskPhase1(c)
        <4>1. PICK l \in {"markfailed", "persist", "setphase1"} : Goto(c, l)
          BY <3>1 DEF TaskPhase1
        <4>. QED
          BY <3>1, <4>1 DEF TaskPhase1, SameStage, TypeOK
      <3>2. CASE TaskSetPhase1(c)
        BY <3>2 DEF TaskSetPhase1, SameStage, TypeOK
      <3>3. CASE TaskPhase2(c)
        <4>1. PICK l \in {"persist2", "finish"} : Reads(c, "phase2", l)
          BY <3>3 DEF TaskPhase2
        <4>. QED
          BY <4>1 DEF Reads, SameStage, TypeOK
      <3>4. CASE TaskPhase2Timeout(c)
        <4>1. \A q \in Requests \cup Classes : pc'[q] = IF q = c THEN "finish" ELSE pc[q]
          BY <3>4 DEF TaskPhase2Timeout, EnqueueRetry, TypeOK, ProcsAssumption
        <4>2. pc[c] = "phase2" /\ SameStage("phase2", "finish")
          BY <3>4 DEF TaskPhase2Timeout, SameStage
        <4>. QED
          BY <4>1, <4>2
      <3>5. CASE TaskUpdateGet(c)
        <4>1. PICK l \in {"updateput", "finish"} : Goto(c, l)
          BY <3>5 DEF TaskUpdateGet
        <4>. QED
          BY <3>5, <4>1 DEF TaskUpdateGet, SameStage, TypeOK
      <3>6. CASE TaskUpdatePut(c)
        BY <3>6 DEF TaskUpdatePut, SameStage, TypeOK
      <3>. QED
        BY <1>3, <3>1, <3>2, <3>3, <3>4, <3>5, <3>6
    <2>2. /\ \A q \in Requests \cup Classes : cls'[q] = cls[q]
          /\ UNCHANGED <<phase1, pending, owners>>
      <3>1. CASE TaskPhase2Timeout(c)
        BY <3>1 DEF TaskPhase2Timeout, EnqueueRetry, cacheVars, TypeOK, ProcsAssumption
      <3>2. CASE ~TaskPhase2Timeout(c)
        BY <1>3, <3>2 DEF TaskPhase1, TaskSetPhase1, TaskPhase2, TaskUpdateGet,
                          TaskUpdatePut, Reads, cacheVars
      <3>. QED
        BY <3>1, <3>2
    <2>3. c \in owners /\ c \notin SimpleReqs /\ c \notin DebugReqs
      BY <2>1 DEF TrackingInv
    <2>. QED
      BY <2>1, <2>2, <2>3, StayTracking
  <1>. QED
    BY <1>1, <1>2, <1>3 DEF TaskStep

\* A step of a retry moves that retry and no other process.
LEMMA RetryMoves ==
    ASSUME TypeOK, NEW r \in RetrySlots, RetryStep(r)
    PROVE  \A q \in Procs : q # r => pc'[q] = pc[q]
  <1>1. ASSUME NEW l, Goto(r, l) PROVE \A q \in Procs : q # r => pc'[q] = pc[q]
    BY <1>1 DEF TypeOK
  <1>2. CASE RetryBegin(r)
    BY <1>1, <1>2 DEF RetryBegin
  <1>3. CASE RetryAcquire(r)
    BY <1>1, <1>3 DEF RetryAcquire, Reads
  <1>4. CASE RetryBuild(r)
    BY <1>1, <1>4 DEF RetryBuild
  <1>5. CASE Persist(r)
    BY <1>1, <1>5 DEF Persist
  <1>6. CASE SetFull(r)
    BY <1>1, <1>6 DEF SetFull
  <1>7. CASE RetryClear(r) \/ RetryInvalidate(r) \/ RetryMarkFailed(r) \/ RetryLeave(r)
    BY <1>1, <1>7 DEF RetryClear, RetryInvalidate, RetryMarkFailed, RetryLeave
  <1>. QED
    BY <1>2, <1>3, <1>4, <1>5, <1>6, <1>7 DEF RetryStep

\* A retry moves no channel and holds no notifiers.
LEMMA RetryTracking ==
    ASSUME TypeOK, TrackingInv, ProcsAssumption, NEW r \in RetrySlots, RetryStep(r)
    PROVE  TrackingInv'
  <1>1. \A q \in Requests \cup Classes : q # r
    BY DEF ProcsAssumption
  <1>2. \A q \in Requests \cup Classes : pc'[q] = pc[q]
    BY <1>1, RetryMoves
  <1>3. cls' = cls /\ UNCHANGED <<phase1, pending, owners>>
    BY DEF RetryStep, RetryBegin, RetryAcquire, RetryBuild, Persist, SetFull, RetryClear,
           RetryInvalidate, RetryMarkFailed, RetryLeave, Reads, cacheVars
  <1>. QED
    BY <1>2, <1>3, FrameTracking

\* The expiry of entries and markers touches no channel.
LEMMA LapseTracking ==
    ASSUME TypeOK, TrackingInv, Lapse
    PROVE  TrackingInv'
  BY FrameTracking DEF Lapse, LapseEntry, LapseMarker

\* In every reachable state the place of a notifier holder determines the
\* two channels of its class, and a class nobody holds has none.
THEOREM TrackingCorrect == Spec => []TrackingInv
  <1>1. Init => TrackingInv
    BY ProcsAssumption DEF Init, CacheInit, TrackingInv, ProcsAssumption
  <1>2. TypeOK /\ TrackingInv /\ [Next]_vars => TrackingInv'
    <2> SUFFICES ASSUME TypeOK, TrackingInv, [Next]_vars PROVE TrackingInv'
      OBVIOUS
    <2>1. CASE UNCHANGED vars
      BY <2>1, FrameTracking DEF vars, cacheVars
    <2>. QED
      BY <2>1, SimpleTracking, DebugTracking, TaskTracking, RetryTracking, LapseTracking,
         ProcsAssumption DEF Next
  <1>. QED
    BY <1>1, <1>2, TypeCorrect, PTL DEF Spec

\* One process at most holds the notifiers of a class, and the map of pending
\* compilations lists exactly the classes some process is going to finish.
THEOREM SingleFlightCorrect == Spec => []SingleFlight
  <1>1. TypeOK /\ TrackingInv => SingleFlight
    BY DEF TypeOK, TrackingInv, SingleFlight
  <1>. QED
    BY <1>1, TypeCorrect, TrackingCorrect, PTL

\* The Phase 1 map never lists a class the Phase 2 map does not.
THEOREM Phase1UnderPendingCorrect == Spec => []Phase1UnderPending
  <1>1. TypeOK /\ TrackingInv => Phase1UnderPending
    BY DEF TypeOK, TrackingInv, Phase1UnderPending
  <1>. QED
    BY <1>1, TypeCorrect, TrackingCorrect, PTL

\* Nobody sleeps on a channel that was sent on already or has no sender.
THEOREM WaitersHaveWakerCorrect == Spec => []WaitersHaveWaker
  <1>1. TypeOK /\ TrackingInv => WaitersHaveWaker
    BY DEF TypeOK, TrackingInv, WaitersHaveWaker, BlocksOnPhase1, BlocksOnPending
  <1>. QED
    BY <1>1, TypeCorrect, TrackingCorrect, PTL

-----------------------------------------------------------------------------
(* Retries *)

Working(r) == pc[r] \notin {"free", "spawned"}

\* Strengthened so that a class is in active_retries exactly while a retry of
\* it works: only then does the test of RetryBegin exclude a second one.
RetryInv ==
    /\ \A r, s \in RetrySlots : Working(r) /\ Working(s) /\ cls[r] = cls[s] => r = s
    /\ \A r \in RetrySlots : Working(r) => cls[r] \in active
    /\ \A c \in active : \E r \in RetrySlots : Working(r) /\ cls[r] = c
    /\ IsFiniteSet({r \in RetrySlots : Compiling(r)})
    /\ Cardinality({r \in RetrySlots : Compiling(r)}) <= MaxBackground

\* A step in which no retry begins to work or to compile, or ends.
LEMMA FrameRetry ==
    ASSUME RetryInv, active' = active,
           \A r \in RetrySlots :
               /\ Working(r)' <=> Working(r)
               /\ Compiling(r)' <=> Compiling(r)
               /\ Working(r) => cls'[r] = cls[r]
    PROVE  RetryInv'
  <1>1. {r \in RetrySlots : Compiling(r)}' = {r \in RetrySlots : Compiling(r)}
    BY Zenon
  <1>2. \A r \in RetrySlots : (Working(r)' <=> Working(r)) /\ (Working(r) => cls'[r] = cls[r])
    OBVIOUS
  <1>. DEFINE Finite == IsFiniteSet({r \in RetrySlots : Compiling(r)})
             Few == Cardinality({r \in RetrySlots : Compiling(r)}) <= MaxBackground
  <1>3. Finite' /\ Few'
    BY <1>1 DEF RetryInv
  <1>. HIDE DEF Finite, Few
  <1>. QED
    BY <1>2, <1>3 DEF RetryInv, Working, Finite, Few

\* A step that at most spawns a retry.
LEMMA SpawnRetry ==
    ASSUME RetryInv, active' = active,
           \A r \in RetrySlots :
               \/ pc'[r] = pc[r] /\ cls'[r] = cls[r]
               \/ pc[r] = "free" /\ pc'[r] = "spawned"
    PROVE  RetryInv'
  <1>1. \A r \in RetrySlots :
            /\ Working(r)' <=> Working(r)
            /\ Compiling(r)' <=> Compiling(r)
            /\ Working(r) => cls'[r] = cls[r]
    BY DEF Working, Compiling
  <1>. QED
    BY <1>1, FrameRetry

\* Requests and tasks leave the retries alone, but for one that they spawn.
LEMMA OthersRetry ==
    ASSUME TypeOK, RetryInv, ProcsAssumption, NEW p \in Requests \cup Classes,
           \/ p \in SimpleReqs /\ SimpleStep(p)
           \/ p \in DebugReqs /\ DebugStep(p)
           \/ p \in Classes /\ TaskStep(p)
    PROVE  RetryInv'
  <1>1. /\ p \in Procs /\ p \notin RetrySlots
        /\ \A r \in RetrySlots : pc[r] # "waiting"
        /\ \A c \in Classes : c \notin RetrySlots
        /\ pc = [q \in Procs |-> pc[q]]
    BY DEF TypeOK, ProcsAssumption, RetryPC
  <1>2. ASSUME NEW from, NEW to, Reads(p, from, to)
        PROVE  RetryInv'
    BY <1>1, <1>2, SpawnRetry DEF Reads
  <1>3. ASSUME NEW l, EnqueueRetry(p, l), active' = active
        PROVE  RetryInv'
    <2>1. PICK r \in RetrySlots : /\ pc[r] = "free"
                                  /\ pc' = [pc EXCEPT ![p] = l, ![r] = "spawned"]
                                  /\ cls' = [cls EXCEPT ![r] = cls[p]]
      BY <1>3 DEF EnqueueRetry
    <2>2. \A s \in RetrySlots : s # r => pc'[s] = pc[s] /\ cls'[s] = cls[s]
      BY <1>1, <2>1 DEF TypeOK
    <2>3. pc'[r] = "spawned"
      BY <2>1, <1>1
    <2>. QED
      BY <1>3, <2>1, <2>2, <2>3, SpawnRetry
  <1>4. ASSUME NEW l, NEW waiters, NEW w, Woken(p, l, waiters, w), UNCHANGED <<cls, active>>
        PROVE  RetryInv'
    <2>1. \A r \in RetrySlots : pc'[r] = pc[r]
      BY <1>1, <1>4 DEF Woken
    <2>. QED
      BY <1>4, <2>1, SpawnRetry
  <1>5. ASSUME NEW l, Goto(p, l), UNCHANGED <<cls, active>>
        PROVE  RetryInv'
    BY <1>1, <1>5, SpawnRetry
  <1>6. CASE MarkFailed(p) \/ Publish(p)
    <2>1. CASE SignalPhase1(p) \/ FinishCompilation(p)
      BY <1>4, <2>1 DEF SignalPhase1, FinishCompilation
    <2>2. CASE MarkFailed(p) \/ SetFull(p) \/ ForgetPhase1(p) \/ ForgetPending(p)
      BY <1>5, <2>2 DEF MarkFailed, SetFull, ForgetPhase1, ForgetPending
    <2>3. CASE Persist(p)
      BY <1>5, <2>3 DEF Persist
    <2>. QED
      BY <1>6, <2>1, <2>2, <2>3 DEF Publish
  <1>7. CASE SimpleStep(p)
    <2>1. CASE SimpleSpawnTask(p)
      <3>1. pc' = [pc EXCEPT ![p] = "populate", ![cls[p]] = "phase1"] /\ UNCHANGED <<cls, active>>
        BY <2>1 DEF SimpleSpawnTask
      <3>2. cls[p] \in Classes
        BY <1>1 DEF TypeOK
      <3>. QED
        BY <1>1, <3>1, <3>2, SpawnRetry
    <2>. QED
      BY <1>2, <1>7, <2>1 DEF SimpleStep, SimpleLookup, SimpleCheckCache, SimpleCheckFailed,
         SimpleFetchSource, SimpleSkipSpawn, SimplePopulate, SimpleTimeout, SimpleRead
  <1>8. CASE DebugStep(p)
    <2>1. CASE DebugStart(p) \/ EndUntracked(p)
      BY <1>5, <2>1 DEF DebugStart, EndUntracked
    <2>2. CASE DebugBuild(p)
      BY <1>5, <2>2 DEF DebugBuild
    <2>3. CASE DebugMarkTimeout(p)
      BY <1>3, <2>3 DEF DebugMarkTimeout
    <2>. QED
      BY <1>2, <1>6, <1>8, <2>1, <2>2, <2>3 DEF DebugStep, DebugLookup, DebugGet, DebugPartial,
         DebugMiss, DebugMissFailed, DebugMissBusy, DebugMissIdle, DebugWait, DebugReget,
         DebugFetchSource, DebugStartUntracked
  <1>9. CASE TaskStep(p)
    <2>1. CASE TaskPhase1(p)
      BY <1>5, <2>1 DEF TaskPhase1
    <2>2. CASE TaskSetPhase1(p) \/ TaskUpdatePut(p)
      BY <1>5, <2>2 DEF TaskSetPhase1, TaskUpdatePut
    <2>3. CASE TaskUpdateGet(p)
      BY <1>5, <2>3 DEF TaskUpdateGet
    <2>4. CASE TaskPhase2Timeout(p)
      BY <1>3, <2>4 DEF TaskPhase2Timeout
    <2>. QED
      BY <1>2, <1>6, <1>9, <2>1, <2>2, <2>3, <2>4 DEF TaskStep, TaskPhase2
  <1>. QED
    BY <1>7, <1>8, <1>9

\* A retry enters active_retries only when no other has its class there, and
\* compiles only when a permit is free.
LEMMA RetryStepInv ==
    ASSUME TypeOK, RetryInv, ProcsAssumption, BoundsAssumption, NEW r \in RetrySlots, RetryStep(r)
    PROVE  RetryInv'
  <1>. DEFINE C == {s \in RetrySlots : Compiling(s)}
  <1>1. /\ r \in Procs
        /\ \A s \in RetrySlots : s \in Procs
        /\ pc \in [Procs -> SimplePC \cup DebugPC \cup TaskPC \cup RetryPC]
        /\ IsFiniteSet(C) /\ Cardinality(C) \in Nat /\ Cardinality(C) <= MaxBackground
    BY FS_CardinalityType DEF TypeOK, RetryInv
  <1>2. ASSUME NEW l, Goto(r, l), UNCHANGED <<cls, active>>,
               (l \notin {"free", "spawned"}) = Working(r),
               (l \notin {"free", "spawned", "queued"}) = Compiling(r)
        PROVE  RetryInv'
    <2>1. \A s \in RetrySlots :
              /\ Working(s)' <=> Working(s)
              /\ Compiling(s)' <=> Compiling(s)
              /\ Working(s) => cls'[s] = cls[s]
      BY <1>1, <1>2 DEF Working, Compiling
    <2>. QED
      BY <1>2, <2>1, FrameRetry
  <1>3. CASE RetryBegin(r)
    <2>1. CASE MayRetry(r)
      <3>1. active' = active \cup {cls[r]} /\ pc' = [pc EXCEPT ![r] = "queued"] /\ cls' = cls
            /\ cls[r] \notin active /\ pc[r] = "spawned"
        BY <1>3, <2>1 DEF RetryBegin, MayRetry
      <3>2. Working(r)' /\ ~Working(r) /\ \A s \in RetrySlots \ {r} : Working(s)' <=> Working(s)
        BY <1>1, <3>1 DEF Working
      <3>3. C' = C
        BY <1>1, <3>1 DEF Compiling
      <3>. HIDE DEF C
      <3>4. \A s, t \in RetrySlots : Working(s)' /\ Working(t)' /\ cls'[s] = cls'[t] => s = t
        BY <3>1, <3>2 DEF RetryInv
      <3>5. \A s \in RetrySlots : Working(s)' => cls'[s] \in active'
        BY <3>1, <3>2 DEF RetryInv
      <3>6. \A c \in active' : \E s \in RetrySlots : Working(s)' /\ cls'[s] = c
        BY <3>1, <3>2 DEF RetryInv
      <3>. QED
        BY <1>1, <3>3, <3>4, <3>5, <3>6 DEF RetryInv, C
    <2>2. CASE ~MayRetry(r)
      BY <1>2, <1>3, <2>2 DEF RetryBegin, Working, Compiling
    <2>. QED
      BY <2>1, <2>2
  <1>4. CASE RetryAcquire(r)
    <2>1. /\ Cardinality(C) < MaxBackground /\ pc[r] = "queued"
          /\ pc' = [pc EXCEPT ![r] = "build"] /\ UNCHANGED <<cls, active>>
      BY <1>4 DEF RetryAcquire, PermitFree, Reads
    <2>2. C' = C \cup {r} /\ r \notin C
      BY <1>1, <2>1 DEF Compiling
    <2>3. \A s \in RetrySlots : Working(s)' <=> Working(s)
      BY <1>1, <2>1 DEF Working
    <2>. HIDE DEF C
    <2>4. IsFiniteSet(C') /\ Cardinality(C') = Cardinality(C) + 1
      BY <1>1, <2>2, FS_AddElement
    <2>5. Cardinality(C') <= MaxBackground
      BY <1>1, <2>1, <2>4 DEF BoundsAssumption
    <2>6. /\ \A s, t \in RetrySlots : Working(s)' /\ Working(t)' /\ cls'[s] = cls'[t] => s = t
          /\ \A s \in RetrySlots : Working(s)' => cls'[s] \in active'
          /\ \A c \in active' : \E s \in RetrySlots : Working(s)' /\ cls'[s] = c
      BY <2>1, <2>3 DEF RetryInv
    <2>. QED
      BY <2>4, <2>5, <2>6 DEF RetryInv, C
  <1>5. CASE RetryLeave(r)
    <2>1. pc[r] = "leave" /\ pc' = [pc EXCEPT ![r] = "free"] /\ cls' = cls
          /\ active' = active \ {cls[r]}
      BY <1>5 DEF RetryLeave
    <2>2. C' = C \ {r} /\ r \in C
      BY <1>1, <2>1 DEF Compiling
    <2>3. Working(r) /\ ~Working(r)' /\ \A s \in RetrySlots \ {r} : Working(s)' <=> Working(s)
      BY <1>1, <2>1 DEF Working
    <2>. HIDE DEF C
    <2>4. IsFiniteSet(C') /\ Cardinality(C') <= MaxBackground
      <3>1. IsFiniteSet(C') /\ Cardinality(C') = Cardinality(C) - 1
        BY <1>1, <2>2, FS_RemoveElement
      <3>. QED
        BY <1>1, <3>1 DEF BoundsAssumption
    <2>5. \A s, t \in RetrySlots : Working(s)' /\ Working(t)' /\ cls'[s] = cls'[t] => s = t
      BY <2>1, <2>3 DEF RetryInv
    <2>6. \A s \in RetrySlots : Working(s)' => cls'[s] \in active'
      BY <2>1, <2>3 DEF RetryInv
    <2>7. \A c \in active' : \E s \in RetrySlots : Working(s)' /\ cls'[s] = c
      BY <2>1, <2>3 DEF RetryInv
    <2>. QED
      BY <2>4, <2>5, <2>6, <2>7 DEF RetryInv, C
  <1>6. CASE RetryBuild(r) \/ Persist(r) \/ SetFull(r) \/ RetryClear(r) \/ RetryInvalidate(r)
             \/ RetryMarkFailed(r)
    <2>1. PICK l \in {"persist", "invalidate", "set", "clear", "leave", "mark", "updateget", "signal"} :
              Goto(r, l)
      BY <1>6 DEF RetryBuild, Persist, SetFull, RetryClear, RetryInvalidate, RetryMarkFailed
    <2>2. UNCHANGED <<cls, active>> /\ pc[r] \notin {"free", "spawned", "queued"}
      BY <1>6 DEF RetryBuild, Persist, SetFull, RetryClear, RetryInvalidate, RetryMarkFailed
    <2>. QED
      BY <1>2, <2>1, <2>2 DEF Working, Compiling
  <1>. QED
    BY <1>3, <1>4, <1>5, <1>6 DEF RetryStep

\* The strengthening is inductive.
THEOREM RetryInvCorrect == Spec => []RetryInv
  <1>1. Init => RetryInv
    <2> SUFFICES ASSUME Init PROVE RetryInv
      OBVIOUS
    <2>1. \A r \in RetrySlots : pc[r] = "free"
      BY ProcsAssumption DEF Init, ProcsAssumption
    <2>2. {r \in RetrySlots : Compiling(r)} = {}
      BY <2>1 DEF Compiling
    <2>3. IsFiniteSet({}) /\ Cardinality({}) = 0
      BY FS_EmptySet
    <2>4. 0 <= MaxBackground
      BY BoundsAssumption DEF BoundsAssumption
    <2>. QED
      BY <2>1, <2>2, <2>3, <2>4 DEF Init, RetryInv, Working
  <1>2. TypeOK /\ RetryInv /\ [Next]_vars => RetryInv'
    <2> SUFFICES ASSUME TypeOK, RetryInv, [Next]_vars PROVE RetryInv'
      OBVIOUS
    <2>1. CASE UNCHANGED vars \/ Lapse
      <3>1. UNCHANGED <<pc, cls, active>>
        BY <2>1 DEF vars, Lapse, LapseEntry, LapseMarker
      <3>. QED
        BY <3>1, SpawnRetry
    <2>. QED
      BY <2>1, OthersRetry, RetryStepInv, ProcsAssumption, BoundsAssumption DEF Next
  <1>. QED
    BY <1>1, <1>2, TypeCorrect, PTL DEF Spec

\* Of a class at most one retry works at a time, at most MaxBackground of all
\* compile, and active_retries lists no class for which none works
\* (background_retry.rs, enqueue_retry).
THEOREM RetryExclusionCorrect == Spec => []RetryExclusion
  <1>1. RetryInv => RetryExclusion
    BY DEF RetryInv, RetryExclusion, Working
  <1>. QED
    BY <1>1, RetryInvCorrect, PTL

-----------------------------------------------------------------------------
(* The result of Phase 1 *)

\* A retry has failed, has dropped the entry and is about to mark the class.
Marking(c) == \E r \in RetrySlots : pc[r] = "mark" /\ cls[r] = c

Verdict(c) == contains(c) \/ has_failed(c) \/ lapses > 0 \/ Marking(c)

\* Strengthened by what a retry knows before it takes the marker away: its
\* entry is there.  Without that, a class could lose its only verdict.
VerdictInv ==
    /\ \A p \in owners : pc[p] = "signal" => Verdict(cls[p])
    /\ \A r \in RetrySlots : pc[r] = "clear" => contains(cls[r]) \/ lapses > 0

\* A step of `p` that takes no entry and no marker away.
LEMMA MoveVerdict ==
    ASSUME TypeOK, VerdictInv, NEW p \in Procs,
           \A q \in Procs : \/ q = p
                            \/ pc'[q] = pc[q]
                            \/ pc'[q] \notin {"signal", "clear"} /\ pc[q] # "mark",
           \A q \in Procs : cls'[q] = cls[q] \/ pc[q] = "free",
           \A c \in Classes : contains(c) => contains(c)',
           failed \subseteq failed', lapses' = lapses,
           \A q \in owners' : q \in owners \/ pc'[q] # "signal",
           pc[p] # "mark",
           pc'[p] = "signal" => contains(cls[p])' \/ cls[p] \in failed',
           pc'[p] = "clear" => contains(cls[p])'
    PROVE  VerdictInv'
  <1>1. /\ \A q \in owners : q \in Procs /\ pc[q] # "free" /\ q \notin RetrySlots
        /\ \A q \in Procs : cls[q] \in Classes
        /\ \A r \in RetrySlots : r \in Procs
    BY ProcsAssumption DEF TypeOK, TaskPC, DebugPC, ProcsAssumption
  <1>2. ASSUME NEW c \in Classes, Verdict(c)
        PROVE  Verdict(c)'
    <2>1. CASE Marking(c)
      <3>1. PICK r \in RetrySlots : pc[r] = "mark" /\ cls[r] = c
        BY <2>1 DEF Marking
      <3>2. pc'[r] = "mark" /\ cls'[r] = c
        BY <1>1, <3>1
      <3>. QED
        BY <3>2 DEF Verdict, Marking
    <2>2. CASE ~Marking(c)
      BY <1>2, <2>2 DEF Verdict, has_failed
    <2>. QED
      BY <2>1, <2>2
  <1>3. ASSUME NEW q \in owners', pc'[q] = "signal"
        PROVE  Verdict(cls[q])'
    <2>1. q \in owners /\ q \in Procs /\ cls'[q] = cls[q] /\ cls[q] \in Classes
      BY <1>1, <1>3
    <2>2. CASE pc[q] = "signal"
      <3>1. Verdict(cls[q])
        BY <2>1, <2>2 DEF VerdictInv
      <3>2. PICK c \in Classes : c = cls[q]
        BY <2>1
      <3>3. Verdict(c)'
        BY <1>2, <3>1, <3>2
      <3>. QED
        BY <2>1, <3>2, <3>3 DEF Verdict, Marking, contains, has_failed
    <2>3. CASE pc[q] # "signal"
      <3>1. q = p
        BY <1>3, <2>1, <2>3
      <3>2. contains(cls[p])' \/ cls'[p] \in failed'
        BY <1>3, <2>1, <3>1
      <3>. QED
        BY <3>1, <3>2 DEF Verdict, contains, has_failed
    <2>. QED
      BY <2>2, <2>3
  <1>4. ASSUME NEW r \in RetrySlots, pc'[r] = "clear"
        PROVE  contains(cls[r])' \/ lapses' > 0
    <2>1. CASE pc[r] = "clear"
      <3>1. cls'[r] = cls[r] /\ cls[r] \in Classes
        BY <1>1, <2>1
      <3>. QED
        BY <2>1, <3>1 DEF VerdictInv, contains
    <2>2. CASE pc[r] # "clear"
      <3>1. r = p
        BY <1>1, <1>4, <2>2
      <3>. QED
        BY <1>4, <3>1 DEF contains
    <2>. QED
      BY <2>1, <2>2
  <1>. QED
    BY <1>3, <1>4 DEF VerdictInv

\* What a step leaves of entries and markers.
Keeps == (\A c \in Classes : contains(c) => contains(c)') /\ failed \subseteq failed' /\ lapses' = lapses

LEMMA SetKeeps ==
    ASSUME TypeOK, NEW c \in Classes, NEW orig, NEW data, set(c, orig, data),
           UNCHANGED <<failed, lapses>>
    PROVE  Keeps /\ cache'[c].held
  BY DEF TypeOK, CacheTypeOK, set, CachedExternalClass, contains, Keeps

\* Requests and tasks put an entry or mark the class before they signal.
LEMMA OthersVerdict ==
    ASSUME TypeOK, VerdictInv, NEW p \in Requests \cup Classes,
           \/ p \in SimpleReqs /\ SimpleStep(p)
           \/ p \in DebugReqs /\ DebugStep(p)
           \/ p \in Classes /\ TaskStep(p)
    PROVE  VerdictInv'
  <1>1. /\ p \in Procs /\ p \notin RetrySlots /\ pc[p] # "mark" /\ pc[p] # "free"
        /\ cls[p] \in Classes
        /\ \A c \in Classes : c \in Procs /\ cls[c] = c /\ pc[c] # "mark"
        /\ pc \in [Procs -> SimplePC \cup DebugPC \cup TaskPC \cup RetryPC]
        /\ cls \in [Procs -> Classes]
    BY ProcsAssumption DEF TypeOK, ProcsAssumption, SimplePC, DebugPC, TaskPC
  <1>2. ASSUME NEW l, Goto(p, l), UNCHANGED cls, Keeps,
               \A q \in owners' : q \in owners \/ (q = p /\ l # "signal"),
               l = "signal" => contains(cls[p])' \/ cls[p] \in failed', l # "clear"
        PROVE  VerdictInv'
    <2>1. pc'[p] = l /\ \A q \in Procs : q = p \/ pc'[q] = pc[q]
      BY <1>1, <1>2
    <2>. QED
      BY <1>1, <1>2, <2>1, MoveVerdict DEF Keeps
  <1>3. ASSUME NEW from, NEW to, Reads(p, from, to), to # "signal", to # "clear"
        PROVE  VerdictInv'
    <2>1. Goto(p, to) /\ UNCHANGED <<cls, owners>> /\ Keeps
      BY <1>3 DEF Reads, Keeps, cacheVars, contains
    <2>. QED
      BY <1>2, <1>3, <2>1
  <1>4. ASSUME NEW l, EnqueueRetry(p, l), Keeps, UNCHANGED owners,
               l = "signal" => cls[p] \in failed', l # "clear"
        PROVE  VerdictInv'
    <2>1. PICK r \in RetrySlots : /\ pc[r] = "free"
                                  /\ pc' = [pc EXCEPT ![p] = l, ![r] = "spawned"]
                                  /\ cls' = [cls EXCEPT ![r] = cls[p]]
      BY <1>4 DEF EnqueueRetry
    <2>2. \A s \in Procs : s # r => cls'[s] = cls[s]
      BY <1>1, <2>1
    <2>3. /\ pc'[p] = l /\ r \in Procs /\ p # r
          /\ \A q \in Procs : q = p \/ pc'[q] = pc[q] \/ (pc'[q] = "spawned" /\ pc[q] = "free")
      BY <1>1, <2>1
    <2>4. cls'[p] = cls[p] /\ \A q \in Procs : cls'[q] = cls[q] \/ pc[q] = "free"
      BY <1>1, <2>1, <2>2, <2>3
    <2>. QED
      BY <1>1, <1>4, <2>3, <2>4, MoveVerdict DEF Keeps
  <1>5. ASSUME NEW l, NEW waiters, NEW w, Woken(p, l, waiters, w), w \in {"read", "reget"},
               l \notin {"signal", "clear"}, Keeps, UNCHANGED <<cls, owners>>
        PROVE  VerdictInv'
    <2>1. pc'[p] = l /\ \A q \in Procs : q = p \/ pc'[q] = pc[q]
                                               \/ (pc'[q] \in {"read", "reget"} /\ pc[q] = "waiting")
      BY <1>1, <1>5 DEF Woken
    <2>. QED
      BY <1>1, <1>5, <2>1, MoveVerdict DEF Keeps
  <1>6. CASE MarkFailed(p) \/ Publish(p)
    <2>1. CASE SignalPhase1(p) \/ FinishCompilation(p)
      <3>1. Keeps /\ UNCHANGED <<cls, owners>>
        BY <2>1 DEF SignalPhase1, FinishCompilation, Keeps, contains
      <3>. QED
        BY <1>5, <2>1, <3>1 DEF SignalPhase1, FinishCompilation
    <2>2. CASE MarkFailed(p)
      <3>1. Keeps /\ UNCHANGED <<cls, owners>> /\ cls[p] \in failed' /\ Goto(p, "signal")
        BY <2>2 DEF MarkFailed, Keeps, contains, mark_failed
      <3>. QED
        BY <1>2, <3>1
    <2>3. CASE SetFull(p)
      <3>1. /\ set(cls[p], HasOriginal(built[p]), TRUE) /\ UNCHANGED <<failed, lapses, cls, owners>>
            /\ Goto(p, "signal")
        BY <1>1, <2>3 DEF SetFull
      <3>2. Keeps /\ contains(cls[p])'
        BY <1>1, <3>1, SetKeeps DEF contains
      <3>. QED
        BY <1>2, <3>1, <3>2
    <2>4. CASE ForgetPhase1(p) \/ ForgetPending(p)
      <3>1. PICK l \in {"phase2", "finish", "idle", "served", "unserved"} : Goto(p, l)
        BY <2>4 DEF ForgetPhase1, ForgetPending, AfterPhase1, AtEnd
      <3>2. Keeps /\ UNCHANGED cls /\ owners' \subseteq owners
        BY <2>4 DEF ForgetPhase1, ForgetPending, Keeps, contains
      <3>. QED
        BY <1>2, <3>1, <3>2
    <2>5. CASE Persist(p)
      <3>1. PICK l \in {"set", "updateget"} : Goto(p, l)
        BY <2>5 DEF Persist
      <3>2. Keeps /\ UNCHANGED <<cls, owners>>
        BY <2>5 DEF Persist, Keeps, contains, cacheVars
      <3>. QED
        BY <1>2, <3>1, <3>2
    <2>. QED
      BY <1>6, <2>1, <2>2, <2>3, <2>4, <2>5 DEF Publish
  <1>7. CASE SimpleStep(p)
    <2>1. CASE SimpleSpawnTask(p)
      <3>1. /\ pc' = [pc EXCEPT ![p] = "populate", ![cls[p]] = "phase1"] /\ UNCHANGED cls
            /\ owners' = owners \cup {cls[p]} /\ Keeps
        BY <2>1 DEF SimpleSpawnTask, Keeps, contains
      <3>2. /\ pc'[p] \in {"populate", "phase1"} /\ pc'[cls[p]] = "phase1"
            /\ \A q \in Procs : q = p \/ q = cls[p] \/ pc'[q] = pc[q]
        BY <1>1, <3>1
      <3>3. pc[cls[p]] # "mark"
        BY <1>1
      <3>4. \A q \in Procs : \/ q = p
                             \/ pc'[q] = pc[q]
                             \/ pc'[q] \notin {"signal", "clear"} /\ pc[q] # "mark"
        BY <3>2, <3>3
      <3>5. \A q \in owners' : q \in owners \/ pc'[q] # "signal"
        BY <3>1, <3>2
      <3>. QED
        BY <1>1, <3>1, <3>2, <3>4, <3>5, MoveVerdict DEF Keeps
    <2>. QED
      BY <1>3, <1>7, <2>1 DEF SimpleStep, SimpleLookup, SimpleCheckCache, SimpleCheckFailed,
         SimpleFetchSource, SimpleSkipSpawn, SimplePopulate, SimpleTimeout, SimpleRead
  <1>8. CASE DebugStep(p)
    <2>1. CASE DebugStart(p)
      <3>1. PICK l \in {"build"} : Goto(p, l)
        BY <2>1 DEF DebugStart
      <3>2. UNCHANGED cls /\ Keeps /\ \A q \in owners' : q \in owners \/ q = p
        BY <2>1 DEF DebugStart, Keeps, contains
      <3>. QED
        BY <1>2, <3>1, <3>2
    <2>2. CASE EndUntracked(p)
      <3>1. PICK l \in {"idle", "served", "unserved"} : Goto(p, l)
        BY <2>2 DEF EndUntracked, AtEnd
      <3>2. UNCHANGED <<cls, owners>> /\ Keeps
        BY <2>2 DEF EndUntracked, Keeps, contains, cacheVars
      <3>. QED
        BY <1>2, <3>1, <3>2
    <2>3. CASE DebugBuild(p)
      <3>1. PICK l \in {"persist", "markfailed", "marktimeout"} : Goto(p, l)
        BY <2>3 DEF DebugBuild
      <3>2. UNCHANGED <<cls, owners>> /\ Keeps
        BY <2>3 DEF DebugBuild, Keeps, contains, cacheVars
      <3>. QED
        BY <1>2, <3>1, <3>2
    <2>4. CASE DebugMarkTimeout(p)
      <3>1. EnqueueRetry(p, "signal") /\ UNCHANGED owners /\ Keeps /\ cls[p] \in failed'
        BY <2>4 DEF DebugMarkTimeout, Keeps, contains, mark_failed
      <3>. QED
        BY <1>4, <3>1
    <2>. QED
      BY <1>3, <1>6, <1>8, <2>1, <2>2, <2>3, <2>4 DEF DebugStep, DebugLookup, DebugGet,
         DebugPartial, DebugMiss, DebugMissFailed, DebugMissBusy, DebugMissIdle, DebugWait,
         DebugReget, DebugFetchSource, DebugStartUntracked
  <1>9. CASE p \in Classes /\ TaskStep(p)
    <2>1. CASE TaskPhase1(p)
      <3>1. PICK l \in {"markfailed", "persist", "setphase1"} : Goto(p, l)
        BY <2>1 DEF TaskPhase1
      <3>2. UNCHANGED <<cls, owners>> /\ Keeps
        BY <2>1 DEF TaskPhase1, Keeps, contains, cacheVars
      <3>. QED
        BY <1>2, <3>1, <3>2
    <2>2. CASE TaskSetPhase1(p)
      <3>1. /\ set(p, HasOriginal(built[p]), FALSE) /\ UNCHANGED <<failed, lapses, cls, owners>>
            /\ Goto(p, "signal") /\ p \in Classes
        BY <1>9, <2>2 DEF TaskSetPhase1
      <3>2. Keeps /\ contains(cls[p])'
        BY <1>1, <3>1, SetKeeps DEF contains
      <3>. QED
        BY <1>2, <3>1, <3>2
    <2>3. CASE TaskUpdatePut(p)
      <3>1. /\ set(p, HasOriginal(built[p]), TRUE) /\ UNCHANGED <<failed, lapses, cls, owners>>
            /\ Goto(p, "finish") /\ p \in Classes
        BY <1>9, <2>3 DEF TaskUpdatePut
      <3>2. Keeps
        BY <3>1, SetKeeps
      <3>. QED
        BY <1>2, <3>1, <3>2
    <2>4. CASE TaskUpdateGet(p)
      <3>1. PICK l \in {"updateput", "finish"} : Goto(p, l)
        BY <2>4 DEF TaskUpdateGet
      <3>2. UNCHANGED <<cls, owners>> /\ Keeps
        BY <2>4 DEF TaskUpdateGet, Keeps, contains, cacheVars
      <3>. QED
        BY <1>2, <3>1, <3>2
    <2>5. CASE TaskPhase2Timeout(p)
      <3>1. EnqueueRetry(p, "finish") /\ UNCHANGED owners /\ Keeps
        BY <2>5 DEF TaskPhase2Timeout, Keeps, contains, cacheVars
      <3>. QED
        BY <1>4, <3>1
    <2>. QED
      BY <1>3, <1>6, <1>9, <2>1, <2>2, <2>3, <2>4, <2>5 DEF TaskStep, TaskPhase2
  <1>. QED
    BY <1>7, <1>8, <1>9

\* A retry that drops the entry marks the class next, and takes the marker
\* away only with an entry there.
LEMMA RetryVerdict ==
    ASSUME TypeOK, RetryInv, VerdictInv, NEW r \in RetrySlots, RetryStep(r)
    PROVE  VerdictInv'
  <1>1. /\ r \in Procs /\ cls[r] \in Classes
        /\ \A q \in owners : q \in Procs /\ q \notin RetrySlots /\ cls[q] \in Classes
        /\ \A s \in RetrySlots : s \in Procs /\ cls[s] \in Classes
        /\ pc \in [Procs -> SimplePC \cup DebugPC \cup TaskPC \cup RetryPC]
    BY ProcsAssumption DEF TypeOK, ProcsAssumption
  <1>2. ASSUME NEW l, Goto(r, l), UNCHANGED <<cls, owners>>, Keeps, pc[r] # "mark", l # "signal",
               l = "clear" => contains(cls[r])'
        PROVE  VerdictInv'
    <2>1. pc'[r] = l /\ \A q \in Procs : q = r \/ pc'[q] = pc[q]
      BY <1>1, <1>2
    <2>. QED
      BY <1>1, <1>2, <2>1, MoveVerdict DEF Keeps
  <1>3. CASE RetryBegin(r) \/ RetryAcquire(r) \/ RetryBuild(r) \/ Persist(r) \/ RetryLeave(r)
    <2>1. PICK l \in {"queued", "free", "build", "persist", "invalidate", "set", "updateget"} :
              Goto(r, l)
      BY <1>3 DEF RetryBegin, RetryAcquire, RetryBuild, Persist, RetryLeave, Reads
    <2>2. UNCHANGED <<cls, owners>> /\ Keeps /\ pc[r] # "mark"
      BY <1>3 DEF RetryBegin, RetryAcquire, RetryBuild, Persist, RetryLeave, Reads, Keeps,
                  contains, cacheVars
    <2>. QED
      BY <1>2, <2>1, <2>2
  <1>4. CASE SetFull(r)
    <2>1. /\ set(cls[r], HasOriginal(built[r]), TRUE) /\ UNCHANGED <<failed, lapses, cls, owners>>
          /\ Goto(r, "clear") /\ pc[r] = "set"
      BY <1>4 DEF SetFull
    <2>2. Keeps /\ contains(cls[r])'
      BY <1>1, <2>1, SetKeeps DEF contains
    <2>. QED
      BY <1>2, <2>1, <2>2
\* The other retries that work have other classes.
  <1>5. ASSUME NEW s \in RetrySlots, s # r, Working(s), Working(r)
        PROVE  cls[s] # cls[r]
    BY <1>5 DEF RetryInv
  <1>6. CASE RetryClear(r)
    <2>1. /\ failed' = failed \ {cls[r]} /\ pc[r] = "clear" /\ pc' = [pc EXCEPT ![r] = "leave"]
          /\ UNCHANGED <<cache, cls, owners, lapses>>
      BY <1>6 DEF RetryClear, clear_failed
    <2>2. contains(cls[r]) \/ lapses > 0
      BY <2>1 DEF VerdictInv
    <2>3. pc'[r] = "leave" /\ \A q \in Procs : q = r \/ pc'[q] = pc[q]
      BY <1>1, <2>1
    <2>4. \A c \in Classes : Marking(c) => Marking(c)'
      BY <1>1, <2>1, <2>3 DEF Marking
    <2>5. \A c \in Classes : Verdict(c) => Verdict(c)'
      BY <2>1, <2>2, <2>4 DEF Verdict, contains, has_failed
    <2>6. ASSUME NEW q \in owners', pc'[q] = "signal"
          PROVE  Verdict(cls[q])'
      <3>1. PICK c \in Classes : c = cls[q] /\ c = cls'[q]
        BY <1>1, <2>1
      <3>2. Verdict(c)
        BY <1>1, <2>1, <2>3, <2>6, <3>1 DEF VerdictInv
      <3>3. Verdict(c)'
        BY <2>5, <3>2
      <3>. QED
        BY <3>1, <3>3 DEF Verdict, Marking, contains, has_failed
    <2>7. \A s \in RetrySlots : pc'[s] = "clear" => contains(cls[s])' \/ lapses' > 0
      BY <1>1, <2>1, <2>3 DEF VerdictInv, contains
    <2>. QED
      BY <2>6, <2>7 DEF VerdictInv
  <1>7. CASE RetryInvalidate(r)
    <2>1. /\ cache' = [cache EXCEPT ![cls[r]] = NoEntry] /\ pc[r] = "invalidate"
          /\ pc' = [pc EXCEPT ![r] = "mark"] /\ UNCHANGED <<failed, cls, owners, lapses>>
      BY <1>7 DEF RetryInvalidate, invalidate
    <2>2. pc'[r] = "mark" /\ \A q \in Procs : q = r \/ pc'[q] = pc[q]
      BY <1>1, <2>1
    <2>3. \A c \in Classes : c # cls[r] => (contains(c)' <=> contains(c))
      BY <2>1 DEF TypeOK, CacheTypeOK, contains
    <2>4. \A c \in Classes : Marking(c) => Marking(c)'
      BY <1>1, <2>1, <2>2 DEF Marking
    <2>5. Marking(cls[r])'
      BY <2>1, <2>2 DEF Marking
    <2>6. ASSUME NEW c \in Classes, Verdict(c)
          PROVE  Verdict(c)'
      <3>1. CASE c = cls[r]
        BY <2>1, <2>2, <3>1 DEF Verdict, Marking
      <3>2. CASE c # cls[r]
        BY <2>1, <2>3, <2>4, <2>6, <3>2 DEF Verdict, has_failed
      <3>. QED
        BY <3>1, <3>2
    <2>7. ASSUME NEW q \in owners', pc'[q] = "signal"
          PROVE  Verdict(cls[q])'
      <3>1. PICK c \in Classes : c = cls[q] /\ c = cls'[q]
        BY <1>1, <2>1
      <3>2. Verdict(c)
        BY <1>1, <2>1, <2>2, <2>7, <3>1 DEF VerdictInv
      <3>3. Verdict(c)'
        BY <2>6, <3>2
      <3>. QED
        BY <3>1, <3>3 DEF Verdict, Marking, contains, has_failed
    <2>8. ASSUME NEW s \in RetrySlots, pc'[s] = "clear"
          PROVE  contains(cls[s])' \/ lapses' > 0
      <3>1. s # r /\ pc[s] = "clear"
        BY <1>1, <2>2, <2>8
      <3>2. cls[s] # cls[r]
        BY <1>5, <2>1, <3>1 DEF Working
      <3>3. contains(cls[s]) \/ lapses > 0
        BY <3>1 DEF VerdictInv
      <3>4. PICK c \in Classes : c = cls[s] /\ c = cls'[s]
        BY <1>1, <2>1
      <3>5. contains(c) => contains(c)'
        BY <2>3, <3>2, <3>4
      <3>. QED
        BY <2>1, <3>3, <3>4, <3>5 DEF contains
    <2>. QED
      BY <2>7, <2>8 DEF VerdictInv
  <1>8. CASE RetryMarkFailed(r)
    <2>1. /\ failed' = failed \cup {cls[r]} /\ pc[r] = "mark" /\ pc' = [pc EXCEPT ![r] = "leave"]
          /\ UNCHANGED <<cache, cls, owners, lapses>>
      BY <1>8 DEF RetryMarkFailed, mark_failed
    <2>2. pc'[r] = "leave" /\ \A q \in Procs : q = r \/ pc'[q] = pc[q]
      BY <1>1, <2>1
    <2>3. \A c \in Classes : Marking(c) => Marking(c)' \/ c \in failed'
      BY <1>1, <2>1, <2>2 DEF Marking
    <2>4. \A c \in Classes : Verdict(c) => Verdict(c)'
      BY <2>1, <2>3 DEF Verdict, contains, has_failed
    <2>5. ASSUME NEW q \in owners', pc'[q] = "signal"
          PROVE  Verdict(cls[q])'
      <3>1. PICK c \in Classes : c = cls[q] /\ c = cls'[q]
        BY <1>1, <2>1
      <3>2. Verdict(c)
        BY <1>1, <2>1, <2>2, <2>5, <3>1 DEF VerdictInv
      <3>3. Verdict(c)'
        BY <2>4, <3>2
      <3>. QED
        BY <3>1, <3>3 DEF Verdict, Marking, contains, has_failed
    <2>6. \A s \in RetrySlots : pc'[s] = "clear" => contains(cls[s])' \/ lapses' > 0
      BY <1>1, <2>1, <2>2 DEF VerdictInv, contains
    <2>. QED
      BY <2>5, <2>6 DEF VerdictInv
  <1>. QED
    BY <1>3, <1>4, <1>6, <1>7, <1>8 DEF RetryStep

LEMMA LapseVerdict ==
    ASSUME TypeOK, Lapse
    PROVE  VerdictInv'
  <1>1. lapses' = lapses + 1 /\ lapses \in Nat
    BY BoundsAssumption DEF Lapse, LapseEntry, LapseMarker, TypeOK, BoundsAssumption
  <1>2. lapses' > 0
    BY <1>1
  <1>. QED
    BY <1>2 DEF VerdictInv, Verdict

LEMMA SameVerdict ==
    ASSUME VerdictInv, UNCHANGED vars
    PROVE  VerdictInv'
  BY DEF vars, cacheVars, VerdictInv, Verdict, Marking, contains, has_failed

\* Only the holder of the notifiers ends Phase 1.
LEMMA SignalIsOwned ==
    ASSUME TypeOK, [Next]_vars, NEW c \in Classes, phase1[c] = "open", phase1'[c] = "done"
    PROVE  \E p \in owners : pc[p] = "signal" /\ cls[p] = c
  <1>1. phase1' # phase1 /\ c \in Procs /\ phase1 \in [Classes -> Channel]
        /\ \A p \in Procs : cls[p] \in Classes
    BY DEF TypeOK, CacheTypeOK
  <1>2. ASSUME NEW p \in Procs, SignalPhase1(p)
        PROVE  p \in owners /\ pc[p] = "signal" /\ cls[p] = c
    BY <1>1, <1>2 DEF SignalPhase1, SendPhase1
  <1>3. ASSUME NEW p \in Procs,
               ForgetPhase1(p) \/ SimpleSpawnTask(p) \/ DebugStart(p)
        PROVE  FALSE
    BY <1>1, <1>3 DEF ForgetPhase1, RemovePhase1, SimpleSpawnTask, DebugStart, start_compilation
  <1>4. ASSUME NEW p \in Procs, MarkFailed(p) \/ Publish(p)
        PROVE  SignalPhase1(p)
    BY <1>1, <1>3, <1>4 DEF MarkFailed, Publish, Persist, SetFull, FinishCompilation, ForgetPending, cacheVars
  <1>5. \A p \in SimpleReqs : ~SimpleStep(p)
    BY <1>1, <1>3 DEF SimpleStep, SimpleLookup, SimpleCheckCache, SimpleCheckFailed,
       SimpleFetchSource, SimpleSkipSpawn, SimplePopulate, SimpleTimeout, SimpleRead, Reads, cacheVars
  <1>6. ASSUME NEW p \in DebugReqs, DebugStep(p)
        PROVE  SignalPhase1(p)
    BY <1>1, <1>3, <1>4, <1>6 DEF DebugStep, DebugLookup, DebugGet,
       DebugPartial, DebugMiss, DebugMissFailed, DebugMissBusy, DebugMissIdle, DebugWait,
       DebugReget, DebugFetchSource, DebugStartUntracked, DebugBuild, DebugMarkTimeout,
       EndUntracked, Reads, cacheVars
  <1>7. ASSUME NEW p \in Classes, TaskStep(p)
        PROVE  SignalPhase1(p)
    BY <1>1, <1>4, <1>7 DEF TaskStep, TaskPhase1, TaskSetPhase1, TaskPhase2, TaskPhase2Timeout,
       TaskUpdateGet, TaskUpdatePut, Reads, cacheVars
  <1>8. \A r \in RetrySlots : ~RetryStep(r)
    BY <1>1 DEF RetryStep, RetryBegin, RetryAcquire, RetryBuild, Persist, SetFull, RetryClear,
       RetryInvalidate, RetryMarkFailed, RetryLeave, Reads, cacheVars
  <1>9. ~Lapse /\ ~UNCHANGED vars
    BY <1>1 DEF Lapse, LapseEntry, LapseMarker, vars, cacheVars
  <1>. QED
    BY <1>2, <1>5, <1>6, <1>7, <1>8, <1>9 DEF Next

\* Whoever is told that Phase 1 is over finds an entry or a marker, or will
\* find one in a moment, unless one has lapsed (debugger_data_fetcher.rs).
THEOREM Phase1LeavesVerdictCorrect == Spec => Phase1LeavesVerdict
  <1>1. Init => VerdictInv
    <2> SUFFICES ASSUME Init PROVE VerdictInv
      OBVIOUS
    <2>1. owners = {} /\ \A r \in RetrySlots : pc[r] = "free"
      BY ProcsAssumption DEF Init, ProcsAssumption
    <2>. QED
      BY <2>1 DEF VerdictInv
  <1>2. TypeOK /\ RetryInv /\ VerdictInv /\ [Next]_vars => VerdictInv'
    <2> SUFFICES ASSUME TypeOK, RetryInv, VerdictInv, [Next]_vars PROVE VerdictInv'
      OBVIOUS
    <2>. QED
      BY OthersVerdict, RetryVerdict, LapseVerdict, SameVerdict DEF Next
  <1>3. TypeOK /\ VerdictInv /\ [Next]_vars
          => [\A c \in Classes :
                phase1[c] = "open" /\ phase1'[c] = "done" =>
                   \/ contains(c) \/ has_failed(c) \/ lapses > 0
                   \/ \E r \in RetrySlots : pc[r] = "mark" /\ cls[r] = c]_vars
    BY SignalIsOwned DEF VerdictInv, Verdict, Marking
  <1>. QED
    BY <1>1, <1>2, <1>3, TypeCorrect, RetryInvCorrect, PTL DEF Spec, Phase1LeavesVerdict

-----------------------------------------------------------------------------
(* The latch: every step of the pipeline is a step of CompilationLatch or    *)
(* leaves it alone.                                                         *)

Early(c) == Waiting(SimpleReqs, c)
Full(c) == Waiting(DebugReqs, c)

\* No request begins or ends to wait.
SameWaiting ==
    \A q \in Requests : (pc'[q] = "waiting" <=> pc[q] = "waiting") /\ cls'[q] = cls[q]

SameStages == \A c \in Classes : Stage(c)' = Stage(c)

LEMMA SameWaitingSets ==
    ASSUME SameWaiting
    PROVE  \A c \in Classes : Early(c)' = Early(c) /\ Full(c)' = Full(c)
BY DEF SameWaiting, Early, Full, Waiting

LEMMA Stutter ==
    ASSUME SameWaiting, SameStages
    PROVE  UNCHANGED Latch!latchVars
BY SameWaitingSets DEF SameStages, Latch!latchVars, Early, Full

\* Steps that touch no channel and move one process, to or from no wait.
LEMMA GotoStutter ==
    ASSUME TypeOK, ProcsAssumption, NEW p \in Procs, NEW l, Goto(p, l),
           l # "waiting", pc[p] # "waiting", UNCHANGED <<phase1, pending>>,
           \A q \in Requests : cls'[q] = cls[q]
    PROVE  UNCHANGED Latch!latchVars
<1>1. SameWaiting
    BY DEF SameWaiting, TypeOK
<1>2. SameStages
    BY DEF SameStages, Stage
<1> QED BY <1>1, <1>2, Stutter

LEMMA ReadsStutter ==
    ASSUME TypeOK, ProcsAssumption, NEW p \in Procs, NEW from, NEW l, Reads(p, from, l),
           from # "waiting", l # "waiting"
    PROVE  UNCHANGED Latch!latchVars
BY GotoStutter DEF Reads, cacheVars

\* A compilation that starts moves one class from idle to building.
LEMMA OpenStep ==
    ASSUME TypeOK, NEW c \in Classes, CanStart(c), start_compilation(c), SameWaiting
    PROVE  Latch!Open(c)
<1>1. Stage(c) = "idle" /\ Stage(c)' = "building"
    BY DEF Stage, CanStart, is_compiling, start_compilation, TypeOK, CacheTypeOK
<1>2. \A d \in Classes \ {c} : Stage(d)' = Stage(d)
    BY DEF Stage, start_compilation, TypeOK, CacheTypeOK
<1> QED BY <1>1, <1>2, SameWaitingSets DEF Latch!Open, Early, Full

LEMMA SignalStep ==
    ASSUME TypeOK, TrackingInv, ProcsAssumption, NEW p \in DebugReqs \cup Classes, SignalPhase1(p)
    PROVE  Latch!PublishOriginal(cls[p])
<1>1. PICK c \in Classes : c = cls[p]
    BY DEF TypeOK
<1>2. c \in Classes /\ phase1[c] = "open" /\ pending[c] = "open"
    BY <1>1 DEF TypeOK, TrackingInv, SignalPhase1
<1>3. Stage(c) = "building" /\ Stage(c)' = "original"
    BY <1>1, <1>2 DEF Stage, SignalPhase1, SendPhase1, TypeOK, CacheTypeOK
<1>4. \A d \in Classes \ {c} : Stage(d)' = Stage(d)
    BY <1>1 DEF Stage, SignalPhase1, SendPhase1, TypeOK, CacheTypeOK
<1>5. \A q \in Requests : cls'[q] = cls[q]
    BY <1>1 DEF SignalPhase1
<1>6. /\ \A q \in SimpleReqs : pc'[q] = "waiting" <=> pc[q] = "waiting" /\ cls[q] # c
      /\ \A q \in DebugReqs : pc'[q] = "waiting" <=> pc[q] = "waiting"
    BY <1>1 DEF SignalPhase1, Woken, ProcsAssumption
<1>7. Early(c)' = {}
    BY <1>1, <1>5, <1>6 DEF Early, Waiting
<1>8. \A d \in Classes \ {c} : Early(d)' = Early(d)
    BY <1>1, <1>5, <1>6 DEF Early, Waiting
<1>9. \A d \in Classes : Full(d)' = Full(d)
    BY <1>1, <1>5, <1>6 DEF Full, Waiting
<1> QED BY <1>1, <1>2, <1>3, <1>4, <1>7, <1>8, <1>9 DEF Latch!PublishOriginal, Early, Full

LEMMA FinishStep ==
    ASSUME TypeOK, TrackingInv, ProcsAssumption, NEW p \in DebugReqs \cup Classes,
           FinishCompilation(p)
    PROVE  Latch!Close(cls[p])
<1>1. PICK c \in Classes : c = cls[p]
    BY DEF TypeOK
<1>2. c \in Classes /\ phase1[c] = "none" /\ pending[c] = "open"
    <2>1. p \in owners
        BY <1>1 DEF TrackingInv, FinishCompilation
    <2> QED BY <1>1, <2>1 DEF TypeOK, TrackingInv, FinishCompilation
<1>3. Stage(c) = "original" /\ Stage(c)' = "idle"
    BY <1>1, <1>2 DEF Stage, FinishCompilation, SendPhase2, TypeOK, CacheTypeOK
<1>4. \A d \in Classes \ {c} : Stage(d)' = Stage(d)
    BY <1>1 DEF Stage, FinishCompilation, SendPhase2, TypeOK, CacheTypeOK
<1>5. \A q \in Requests : cls'[q] = cls[q]
    BY <1>1 DEF FinishCompilation
<1>6. /\ \A q \in DebugReqs : pc'[q] = "waiting" <=> pc[q] = "waiting" /\ cls[q] # c
      /\ \A q \in SimpleReqs : pc'[q] = "waiting" <=> pc[q] = "waiting"
    BY <1>1 DEF FinishCompilation, Woken, ProcsAssumption
<1>7. Full(c)' = {}
    BY <1>1, <1>5, <1>6 DEF Full, Waiting
<1>8. \A d \in Classes \ {c} : Full(d)' = Full(d)
    BY <1>1, <1>5, <1>6 DEF Full, Waiting
<1>9. \A d \in Classes : Early(d)' = Early(d)
    BY <1>1, <1>5, <1>6 DEF Early, Waiting
<1> QED BY <1>1, <1>2, <1>3, <1>4, <1>7, <1>8, <1>9 DEF Latch!Close, Early, Full

\* The removal of a receiver that nobody can block on changes no stage.
LEMMA ForgetStutter ==
    ASSUME TypeOK, TrackingInv, ProcsAssumption, NEW p \in DebugReqs \cup Classes,
           ForgetPhase1(p) \/ ForgetPending(p)
    PROVE  UNCHANGED Latch!latchVars
<1>1. p \in owners /\ cls[p] \in Classes /\ ChannelsFollow(p)
    BY DEF TypeOK, TrackingInv, ForgetPhase1, ForgetPending
<1>2. SameStages
    <2>1. CASE ForgetPhase1(p)
        BY <1>1, <2>1 DEF ForgetPhase1, RemovePhase1, SameStages, Stage, TypeOK, CacheTypeOK
    <2>2. CASE ForgetPending(p)
        BY <1>1, <2>2 DEF ForgetPending, RemovePending, SameStages, Stage, TypeOK, CacheTypeOK
    <2> QED BY <2>1, <2>2
<1>3. SameWaiting
    <2>1. PICK l : Goto(p, l) /\ l # "waiting" /\ pc[p] # "waiting" /\ cls' = cls
        BY DEF ForgetPhase1, AfterPhase1, ForgetPending, AtEnd
    <2> QED BY <2>1 DEF SameWaiting, TypeOK
<1> QED BY <1>2, <1>3, Stutter

\* The wait for the original class begins and ends.
LEMMA AwaitOriginalStep ==
    ASSUME TypeOK, TrackingInv, ProcsAssumption, NEW s \in SimpleReqs,
           Reads(s, "populate", "waiting"), BlocksOnPhase1(cls[s])
    PROVE  Latch!AwaitOriginal(cls[s], s)
<1> DEFINE c == cls[s]
<1>1. c \in Classes /\ s \in Procs /\ UNCHANGED <<phase1, pending, cls>>
    BY DEF TypeOK, Reads, cacheVars
<1>2. Stage(c) = "building" /\ SameStages
    BY <1>1 DEF Stage, SameStages, BlocksOnPhase1, TrackingInv
<1>3. \A q \in Requests : pc'[q] = "waiting" <=> q = s \/ pc[q] = "waiting"
    BY <1>1 DEF Reads, TypeOK
<1>4. Early(c)' = Early(c) \cup {s}
    BY <1>1, <1>3 DEF Early, Waiting
<1>5. \A d \in Classes \ {c} : Early(d)' = Early(d)
    BY <1>1, <1>3 DEF Early, Waiting
<1>6. \A d \in Classes : Full(d)' = Full(d)
    BY <1>1, <1>3 DEF Full, Waiting, ProcsAssumption
<1> QED BY <1>1, <1>2, <1>4, <1>5, <1>6 DEF Latch!AwaitOriginal, SameStages, Early, Full

LEMMA GiveUpStep ==
    ASSUME TypeOK, ProcsAssumption, NEW s \in SimpleReqs, SimpleTimeout(s)
    PROVE  Latch!GiveUp(cls[s], s)
<1> DEFINE c == cls[s]
<1>1. c \in Classes /\ s \in Procs /\ UNCHANGED <<phase1, pending, cls>> /\ pc[s] = "waiting"
    BY DEF TypeOK, SimpleTimeout, Reads, cacheVars
<1>2. SameStages
    BY <1>1 DEF Stage, SameStages
<1>3. \A q \in Requests : pc'[q] = "waiting" <=> q # s /\ pc[q] = "waiting"
    BY <1>1 DEF SimpleTimeout, Reads, TypeOK
<1>4. Early(c)' = Early(c) \ {s} /\ s \in Early(c)
    BY <1>1, <1>3 DEF Early, Waiting
<1>5. \A d \in Classes \ {c} : Early(d)' = Early(d)
    BY <1>1, <1>3 DEF Early, Waiting
<1>6. \A d \in Classes : Full(d)' = Full(d)
    BY <1>1, <1>3 DEF Full, Waiting, ProcsAssumption
<1> QED BY <1>1, <1>2, <1>4, <1>5, <1>6 DEF Latch!GiveUp, SameStages, Early, Full

LEMMA AwaitFullStep ==
    ASSUME TypeOK, ProcsAssumption, NEW d \in DebugReqs,
           Reads(d, "wait", "waiting"), BlocksOnPending(cls[d])
    PROVE  Latch!AwaitFull(cls[d], d)
<1> DEFINE c == cls[d]
<1>1. c \in Classes /\ d \in Procs /\ UNCHANGED <<phase1, pending, cls>>
    BY DEF TypeOK, Reads, cacheVars
<1>2. Stage(c) # "idle" /\ SameStages
    BY <1>1 DEF Stage, SameStages, BlocksOnPending
<1>3. \A q \in Requests : pc'[q] = "waiting" <=> q = d \/ pc[q] = "waiting"
    BY <1>1 DEF Reads, TypeOK
<1>4. Full(c)' = Full(c) \cup {d}
    BY <1>1, <1>3 DEF Full, Waiting
<1>5. \A e \in Classes \ {c} : Full(e)' = Full(e)
    BY <1>1, <1>3 DEF Full, Waiting
<1>6. \A e \in Classes : Early(e)' = Early(e)
    BY <1>1, <1>3 DEF Early, Waiting, ProcsAssumption
<1> QED BY <1>1, <1>2, <1>4, <1>5, <1>6 DEF Latch!AwaitFull, SameStages, Early, Full

-----------------------------------------------------------------------------

LEMMA SimpleLatch ==
    ASSUME TypeOK, TrackingInv, ProcsAssumption, NEW s \in SimpleReqs, SimpleStep(s)
    PROVE  [Latch!Next]_(Latch!latchVars)
<1>1. cls[s] \in Classes /\ s \in Procs
    BY DEF TypeOK
<1>2. CASE SimpleSpawnTask(s)
    <2>1. SameWaiting
        BY <1>1, <1>2 DEF SimpleSpawnTask, SameWaiting, TypeOK, ProcsAssumption
    <2> QED BY <1>1, <1>2, <2>1, OpenStep DEF SimpleSpawnTask, Latch!Next
<1>3. CASE SimplePopulate(s)
    <2>1. CASE BlocksOnPhase1(cls[s])
        BY <1>1, <1>3, <2>1, AwaitOriginalStep DEF SimplePopulate, Latch!Next
    <2>2. CASE ~BlocksOnPhase1(cls[s])
        BY <1>1, <1>3, <2>2, ReadsStutter DEF SimplePopulate
    <2> QED BY <2>1, <2>2
<1>4. CASE SimpleTimeout(s)
    BY <1>1, <1>4, GiveUpStep DEF Latch!Next
<1>5. CASE \/ SimpleLookup(s) \/ SimpleCheckCache(s) \/ SimpleCheckFailed(s) \/ SimpleFetchSource(s)
           \/ SimpleSkipSpawn(s) \/ SimpleRead(s)
    BY <1>1, <1>5, ReadsStutter DEF SimpleLookup, SimpleCheckCache, SimpleCheckFailed,
       SimpleFetchSource, SimpleSkipSpawn, SimpleRead
<1> QED BY <1>2, <1>3, <1>4, <1>5 DEF SimpleStep

LEMMA PublishLatch ==
    ASSUME TypeOK, TrackingInv, ProcsAssumption, NEW p \in DebugReqs \cup Classes,
           MarkFailed(p) \/ Publish(p)
    PROVE  [Latch!Next]_(Latch!latchVars)
<1>1. p \in Procs /\ cls[p] \in Classes
    BY DEF TypeOK
<1>2. CASE MarkFailed(p) \/ SetFull(p)
    BY <1>1, <1>2, GotoStutter DEF MarkFailed, SetFull
<1>3. CASE Persist(p)
    BY <1>1, <1>3, GotoStutter DEF Persist, cacheVars
<1>4. CASE SignalPhase1(p)
    BY <1>1, <1>4, SignalStep DEF Latch!Next
<1>5. CASE FinishCompilation(p)
    BY <1>1, <1>5, FinishStep DEF Latch!Next
<1>6. CASE ForgetPhase1(p) \/ ForgetPending(p)
    BY <1>6, ForgetStutter
<1> QED BY <1>2, <1>3, <1>4, <1>5, <1>6 DEF Publish

\* A retry is spawned: no request moves but the one that goes on.
LEMMA EnqueueStutter ==
    ASSUME TypeOK, ProcsAssumption, NEW p \in DebugReqs \cup Classes, NEW l, EnqueueRetry(p, l),
           l # "waiting", pc[p] # "waiting", UNCHANGED <<phase1, pending>>
    PROVE  UNCHANGED Latch!latchVars
<1>1. PICK r \in RetrySlots : /\ pc[r] = "free"
                              /\ pc' = [pc EXCEPT ![p] = l, ![r] = "spawned"]
                              /\ cls' = [cls EXCEPT ![r] = cls[p]]
    BY DEF EnqueueRetry
<1>2. SameWaiting
    BY <1>1 DEF SameWaiting, TypeOK, ProcsAssumption
<1>3. SameStages
    BY DEF SameStages, Stage
<1> QED BY <1>2, <1>3, Stutter

LEMMA DebugLatch ==
    ASSUME TypeOK, TrackingInv, ProcsAssumption, NEW d \in DebugReqs, DebugStep(d)
    PROVE  [Latch!Next]_(Latch!latchVars)
<1>1. cls[d] \in Classes /\ d \in Procs
    BY DEF TypeOK
<1>2. CASE DebugStart(d)
    <2>1. SameWaiting
        BY <1>1, <1>2 DEF DebugStart, SameWaiting, TypeOK
    <2> QED BY <1>1, <1>2, <2>1, OpenStep DEF DebugStart, Latch!Next
<1>3. CASE DebugWait(d)
    <2>1. CASE BlocksOnPending(cls[d])
        BY <1>1, <1>3, <2>1, AwaitFullStep DEF DebugWait, Latch!Next
    <2>2. CASE ~BlocksOnPending(cls[d])
        BY <1>1, <1>3, <2>2, ReadsStutter DEF DebugWait
    <2> QED BY <2>1, <2>2
<1>4. CASE DebugBuild(d) \/ EndUntracked(d)
    BY <1>1, <1>4, GotoStutter DEF DebugBuild, EndUntracked, AtEnd, cacheVars
<1>5. CASE DebugMarkTimeout(d)
    BY <1>5, EnqueueStutter DEF DebugMarkTimeout
<1>6. CASE MarkFailed(d) \/ Publish(d)
    BY <1>6, PublishLatch
<1>7. CASE \/ DebugLookup(d) \/ DebugGet(d) \/ DebugPartial(d) \/ DebugMiss(d)
           \/ DebugMissFailed(d) \/ DebugMissBusy(d) \/ DebugMissIdle(d) \/ DebugReget(d)
           \/ DebugFetchSource(d) \/ DebugStartUntracked(d)
    BY <1>1, <1>7, ReadsStutter DEF DebugLookup, DebugGet, DebugPartial, DebugMiss, DebugMissFailed,
       DebugMissBusy, DebugMissIdle, DebugReget, DebugFetchSource, DebugStartUntracked
<1> QED BY <1>2, <1>3, <1>4, <1>5, <1>6, <1>7 DEF DebugStep

LEMMA TaskLatch ==
    ASSUME TypeOK, TrackingInv, ProcsAssumption, NEW c \in Classes, TaskStep(c)
    PROVE  [Latch!Next]_(Latch!latchVars)
<1>1. c \in Procs
    OBVIOUS
<1>2. CASE TaskPhase1(c) \/ TaskUpdateGet(c)
    BY <1>1, <1>2, GotoStutter DEF TaskPhase1, TaskUpdateGet, cacheVars
<1>3. CASE TaskSetPhase1(c) \/ TaskUpdatePut(c)
    BY <1>1, <1>3, GotoStutter DEF TaskSetPhase1, TaskUpdatePut
<1>4. CASE TaskPhase2(c)
    BY <1>1, <1>4, ReadsStutter DEF TaskPhase2
<1>5. CASE TaskPhase2Timeout(c)
    BY <1>5, EnqueueStutter DEF TaskPhase2Timeout, cacheVars
<1>6. CASE MarkFailed(c) \/ Publish(c)
    BY <1>6, PublishLatch
<1> QED BY <1>2, <1>3, <1>4, <1>5, <1>6 DEF TaskStep

LEMMA RetryLatch ==
    ASSUME TypeOK, ProcsAssumption, NEW r \in RetrySlots, RetryStep(r)
    PROVE  UNCHANGED Latch!latchVars
<1>1. r \notin Requests
    BY DEF ProcsAssumption
<1>2. SameWaiting
    <2>1. \A q \in Requests : pc'[q] = pc[q]
        BY <1>1, RetryMoves
    <2>2. cls' = cls
        BY DEF RetryStep, RetryBegin, RetryAcquire, RetryBuild, Persist, SetFull, RetryClear,
               RetryInvalidate, RetryMarkFailed, RetryLeave, Reads, cacheVars
    <2> QED BY <2>1, <2>2 DEF SameWaiting
<1>3. SameStages
    BY DEF RetryStep, RetryBegin, RetryAcquire, RetryBuild, Persist, SetFull, RetryClear,
           RetryInvalidate, RetryMarkFailed, RetryLeave, Reads, cacheVars, SameStages, Stage
<1> QED BY <1>2, <1>3, Stutter

\* The compilation tracking of ExternalClassCache, under every interleaving of
\* requests, tasks and retries, behaves as a two-stage latch: a stage ends
\* with the send, releases all who wait for it, and is entered by one caller
\* (external_class_cache.rs, start_compilation to finish_compilation).
THEOREM LatchCorrect == Spec => LatchSpec
<1>1. Init => Latch!Init
    <2> SUFFICES ASSUME Init PROVE Latch!Init
        OBVIOUS
    <2>1. \A c \in Classes : Stage(c) = "idle"
        BY DEF Init, CacheInit, Stage
    <2>2. \A q \in Requests : pc[q] # "waiting"
        BY DEF Init
    <2>3. \A c \in Classes : Waiting(SimpleReqs, c) = {} /\ Waiting(DebugReqs, c) = {}
        BY <2>2 DEF Waiting
    <2> QED BY <2>1, <2>3 DEF Latch!Init
<1>2. TypeOK /\ TrackingInv /\ [Next]_vars => [Latch!Next]_(Latch!latchVars)
    <2> SUFFICES ASSUME TypeOK, TrackingInv, [Next]_vars PROVE [Latch!Next]_(Latch!latchVars)
        OBVIOUS
    <2>1. CASE UNCHANGED vars \/ Lapse
        <3>1. UNCHANGED <<pc, cls, phase1, pending>>
            BY <2>1 DEF vars, cacheVars, Lapse, LapseEntry, LapseMarker
        <3>2. SameWaiting /\ SameStages
            BY <3>1 DEF SameWaiting, SameStages, Stage
        <3> QED BY <3>2, Stutter
    <2> QED BY <2>1, SimpleLatch, DebugLatch, TaskLatch, RetryLatch, ProcsAssumption DEF Next
<1> QED BY <1>1, <1>2, TypeCorrect, TrackingCorrect, PTL DEF Spec, LatchSpec, Latch!Spec
=============================================================================
