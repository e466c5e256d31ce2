---------------------- MODULE VerifiedSimulationsProofs ----------------------
(***************************************************************************)
(* Proofs about VerificationWorkflow, SimulationCache and the two in one   *)
(* server, for any classes, sessions, requests and bounds.                 *)
(*                                                                         *)
(* Workflow: AllInv is inductive; the invariants and the action property   *)
(* FinalStatusStays follow from it.  A step of a session is looked at      *)
(* twice: for the others it only adds to the store (OthersUntouched,       *)
(* UntouchedKeeps), for the session itself there is one lemma per group of *)
(* actions (the lemmas named ...Keeps).                                    *)
(*                                                                         *)
(* Cache: HitMatchesRequest is not inductive.  A task reads what another   *)
(* one has put under the same key, any number of steps ago and for a       *)
(* request of its own, so CacheInv speaks of every entry and of every      *)
(* request that has its key, which is where KeysSeparate comes in.         *)
(*                                                                         *)
(* Server: the table contract_classes is `verified` of the cache.  The     *)
(* workflow verifies classes as the cache expects (ClassVerified), and     *)
(* what results show is in the bucket (ShownIsBacked).                     *)
(***************************************************************************)
EXTENDS VerificationWorkflow, SimulationCache, TLAPS

AllPC == HandlerPC \cup TaskPC \cup MinimalPC \cup EndPC

-----------------------------------------------------------------------------
(* Type correctness *)

\* Moving a session to any place keeps pc well typed.
LEMMA GotoType ==
    ASSUME TypeOK, NEW s \in Ids, NEW l \in AllPC, Goto(s, l)
    PROVE  pc' \in [Ids -> AllPC]
  BY DEF TypeOK, Goto, AllPC

\* A write that is lost is counted.
LEMMA LostType ==
    ASSUME TypeOK, lost < MaxLost, lost' = lost + 1
    PROVE  lost' \in 0..MaxLost
  BY BoundsAssumption DEF TypeOK

\* A step that only moves the session on.
LEMMA MovesType ==
    ASSUME TypeOK, NEW s \in Ids, NEW from, NEW to \in AllPC, Moves(s, from, to)
    PROVE  TypeOK'
  BY GotoType DEF Moves, TypeOK, AllPC, StoreTypeOK, storeVars, sessionVars

\* The writes of the store keep its types.
LEMMA StatusWriteType ==
    ASSUME TypeOK, NEW s \in Ids, NEW status \in Status
    PROVE  /\ \A c \in Hashes : insert_verification_status(s, c, status) =>
                  verification_status' \in [Ids -> [Hashes -> Status]]
           /\ \A cs \in SUBSET Hashes : update_verification_statuses(s, cs, status) =>
                  verification_status' \in [Ids -> [Hashes -> Status]]
           /\ insert_verification_request(s) =>
                  verification_requests' \in [Ids -> Status]
           /\ update_verification_request(s, status) =>
                  verification_requests' \in [Ids -> Status]
  <1>0. /\ verification_status \in [Ids -> [Hashes -> Status]]
        /\ verification_requests \in [Ids -> Status]
        /\ {"none", "pending"} \subseteq Status
    BY DEF TypeOK, StoreTypeOK, Status
  <1>1. ASSUME NEW c \in Hashes, insert_verification_status(s, c, status)
        PROVE  verification_status' \in [Ids -> [Hashes -> Status]]
    BY <1>0, <1>1 DEF insert_verification_status
  <1>2. ASSUME NEW cs \in SUBSET Hashes, update_verification_statuses(s, cs, status)
        PROVE  verification_status' \in [Ids -> [Hashes -> Status]]
    <2>. DEFINE row == verification_status[s]
                new == [c \in Hashes |-> IF c \in cs /\ row[c] # "none" THEN status ELSE row[c]]
    <2>1. verification_status' = [verification_status EXCEPT ![s] = new]
      BY <1>0, <1>2 DEF update_verification_statuses
    <2>2. new \in [Hashes -> Status]
      BY <1>0
    <2>. HIDE DEF new
    <2>. QED
      BY <1>0, <2>1, <2>2
  <1>3. insert_verification_request(s) => verification_requests' \in [Ids -> Status]
    BY <1>0 DEF insert_verification_request
  <1>4. update_verification_request(s, status) => verification_requests' \in [Ids -> Status]
    BY <1>0 DEF update_verification_request
  <1>. QED
    BY <1>1, <1>2, <1>3, <1>4

\* What initiate_verification reads and decides is well typed.
LEMMA HandlerType ==
    ASSUME TypeOK, NEW s \in Full, Arrive(s) \/ Handler(s) \/ Disconnect(s)
    PROVE  TypeOK'
  <1>s. s \in Ids
    BY SessionsAssumption
  <1>1. CASE Arrive(s)
    <2>1. pc' \in [Ids -> AllPC]
      BY <1>1, <1>s, GotoType DEF Arrive, AllPC, HandlerPC
    <2>2. PICK cs \in Requests, f \in SUBSET Hashes :
              /\ asked' = [asked EXCEPT ![s] = cs]
              /\ fetched' = [fetched EXCEPT ![s] = f]
              /\ decision' = [decision EXCEPT ![s] =
                    [c \in Hashes |-> IF c \in cs THEN "pending" ELSE "none"]]
      BY <1>1 DEF Arrive
    <2>3. cs \in SUBSET Hashes
      BY RequestsAssumption
    <2>4. /\ asked' \in [Ids -> SUBSET Hashes]
          /\ fetched' \in [Ids -> SUBSET Hashes]
          /\ decision' \in [Ids -> [Hashes -> Status]]
      BY <1>s, <2>2, <2>3 DEF TypeOK, Status
    <2>. QED
      BY <1>1, <2>1, <2>4 DEF Arrive, TypeOK, StoreTypeOK, storeVars, AllPC
  <1>2. CASE ReadInline(s)
    BY <1>2, <1>s, GotoType
       DEF ReadInline, TypeOK, StoreTypeOK, storeVars, AllPC, HandlerPC,
           fetch_inline_class_hashes_for_class_hashes
  <1>3. CASE ReadStatuses(s)
    BY <1>3, <1>s, GotoType DEF ReadStatuses, TypeOK, StoreTypeOK, storeVars, AllPC, HandlerPC
  <1>4. CASE ReadVerified(s)
    <2>1. \A c \in Hashes : VerifiedVerdict(s, c) \in Status
      BY <1>s DEF VerifiedVerdict, TypeOK, Status
    <2>2. decision' \in [Ids -> [Hashes -> Status]]
      BY <1>4, <1>s, <2>1 DEF ReadVerified, TypeOK
    <2>3. \/ Goto(s, "rejected") /\ UNCHANGED todo
          \/ Goto(s, "insert") /\ todo' = [todo EXCEPT ![s] = asked[s]]
      BY <1>4 DEF ReadVerified
    <2>4. pc' \in [Ids -> AllPC]
      BY <1>s, <2>3, GotoType DEF AllPC, HandlerPC, EndPC
    <2>5. todo' \in [Ids -> SUBSET Hashes]
      BY <1>s, <2>3 DEF TypeOK
    <2>. QED
      BY <1>4, <2>2, <2>4, <2>5 DEF ReadVerified, TypeOK, StoreTypeOK, storeVars, AllPC
  <1>5. CASE InsertStatus(s)
    <2>1. PICK c \in todo[s] :
              /\ \/ insert_verification_status(s, c, decision[s][c]) /\ UNCHANGED lost
                 \/ Lost(verification_status)
              /\ todo' = [todo EXCEPT ![s] = @ \ {c}]
              /\ Goto(s, IF todo[s] = {c} THEN "spawn" ELSE "insert")
      BY <1>5 DEF InsertStatus
    <2>2. c \in Hashes /\ decision[s][c] \in Status
      BY <1>s DEF TypeOK
    <2>3. verification_status' \in [Ids -> [Hashes -> Status]] /\ lost' \in 0..MaxLost
      BY <1>s, <2>1, <2>2, StatusWriteType, LostType DEF Lost, TypeOK, StoreTypeOK
    <2>4. pc' \in [Ids -> AllPC] /\ todo' \in [Ids -> SUBSET Hashes]
      BY <1>s, <2>1, GotoType DEF TypeOK, AllPC, HandlerPC
    <2>. QED
      BY <1>5, <2>3, <2>4 DEF InsertStatus, TypeOK, StoreTypeOK, AllPC
  <1>6. CASE ReadFails(s) \/ Spawn(s) \/ Disconnect(s)
    BY <1>6, <1>s, MovesType
       DEF ReadFails, Spawn, Disconnect, AllPC, HandlerPC, TaskPC, EndPC
  <1>. QED
    BY <1>1, <1>2, <1>3, <1>4, <1>5, <1>6 DEF Handler

\* The build of a full session, and what it makes of the classes.
LEMMA BuildType ==
    ASSUME TypeOK, NEW s \in Ids,
           FetchClasses(s) \/ InsertProfile(s) \/ FindVerified(s) \/ EndBuild(s) \/ BuildFails(s)
    PROVE  TypeOK'
  <1>1. CASE FetchClasses(s)
    <2>1. CASE Goto(s, "failRequest") /\ UNCHANGED <<fetched, built, todo, verification_requests>>
      BY <1>1, <2>1, GotoType DEF FetchClasses, TypeOK, StoreTypeOK, AllPC, TaskPC
    <2>2. CASE UNCHANGED pc
      BY <1>1, <2>2 DEF FetchClasses, Goto, TypeOK
    <2>3. ASSUME NEW f \in (SUBSET Pending(s)) \ {{}}, NEW new \in BOOLEAN,
                 fetched' = [fetched EXCEPT ![s] = f],
                 NEW b \in Builds(new),
                 built' = [built EXCEPT ![s] = b],
                 todo' = [todo EXCEPT ![s] = b],
                 insert_verification_request(s),
                 Goto(s, "build")
          PROVE  TypeOK'
      <3>1. f \in SUBSET Hashes /\ b \in SUBSET Hashes
        BY <2>3 DEF Pending, Builds
      <3>2. /\ fetched' \in [Ids -> SUBSET Hashes]
            /\ built' \in [Ids -> SUBSET Hashes]
            /\ todo' \in [Ids -> SUBSET Hashes]
        BY <2>3, <3>1 DEF TypeOK
      <3>3. verification_requests' \in [Ids -> Status]
        BY <2>3, StatusWriteType DEF Status
      <3>4. pc' \in [Ids -> AllPC]
        BY <2>3, GotoType DEF AllPC, TaskPC
      <3>. QED
        BY <1>1, <3>2, <3>3, <3>4 DEF FetchClasses, TypeOK, StoreTypeOK, AllPC
    <2>. QED
      BY <1>1, <2>1, <2>3 DEF FetchClasses
  <1>2. CASE InsertProfile(s)
    <2>1. PICK c \in NextRows(s) :
              /\ \/ insert_class_hash_profiles(c) /\ UNCHANGED lost
                 \/ Lost(class_hash_profiles)
              /\ outcome' = IF s \in Minimal /\ Inline[c] = c
                            THEN [outcome EXCEPT ![s][c] = "built"] ELSE outcome
              /\ todo' = [todo EXCEPT ![s] = @ \ {c}]
      BY <1>2 DEF InsertProfile
    <2>2. c \in Hashes
      BY DEF NextRows, TypeOK
    <2>3. class_hash_profiles' \in SUBSET Hashes /\ lost' \in 0..MaxLost
      BY <2>1, <2>2, LostType DEF Lost, insert_class_hash_profiles, TypeOK, StoreTypeOK
    <2>4. outcome' \in [Ids -> [Hashes -> {"none", "built", "success", "failed"}]]
      BY <2>1, <2>2 DEF TypeOK
    <2>5. todo' \in [Ids -> SUBSET Hashes]
      BY <2>1 DEF TypeOK
    <2>. QED
      BY <1>2, <2>3, <2>4, <2>5 DEF InsertProfile, TypeOK, StoreTypeOK
  <1>3. CASE FindVerified(s)
    <2>. DEFINE known == [c \in Hashes |->
                  IF c \notin todo[s] THEN outcome[s][c]
                  ELSE IF fetch_verified_classes({c}) = {c} THEN "success" ELSE "built"]
    <2>1. outcome' = [outcome EXCEPT ![s] = known]
      BY <1>3 DEF FindVerified, TypeOK
    <2>2. known \in [Hashes -> {"none", "built", "success", "failed"}]
      BY DEF TypeOK
    <2>. HIDE DEF known
    <2>3. outcome' \in [Ids -> [Hashes -> {"none", "built", "success", "failed"}]]
      BY <2>1, <2>2 DEF TypeOK
    <2>. QED
      BY <1>3, <2>3 DEF FindVerified, TypeOK, StoreTypeOK, storeVars
  <1>4. CASE EndBuild(s)
    <2>1. PICK matching \in SUBSET built[s] :
              outcome' = [outcome EXCEPT ![s] = [c \in Hashes |-> Outcome(s, matching, c)]]
      BY <1>4 DEF EndBuild
    <2>2. \A c \in Hashes : Outcome(s, matching, c) \in {"none", "built", "success", "failed"}
      BY DEF Outcome
    <2>3. outcome' \in [Ids -> [Hashes -> {"none", "built", "success", "failed"}]]
      BY <2>1, <2>2 DEF TypeOK
    <2>4. pc' \in [Ids -> AllPC]
      BY <1>4, GotoType DEF EndBuild, AllPC, TaskPC
    <2>. QED
      BY <1>4, <2>3, <2>4 DEF EndBuild, TypeOK, StoreTypeOK, storeVars, AllPC
  <1>5. CASE BuildFails(s)
    BY <1>5, MovesType DEF BuildFails, AllPC, TaskPC, MinimalPC
  <1>. QED
    BY <1>1, <1>2, <1>3, <1>4, <1>5

\* Storing the classes.
LEMMA StoringType ==
    ASSUME TypeOK, NEW s \in Ids,
           \/ Cleanup(s) \/ CleanupFails(s) \/ Upload(s) \/ InsertClass(s) \/ StoreFails(s)
           \/ EndBuildAll(s) \/ Tidy(s),
           pc[s] = "insertClass" => current[s] \in Hashes
    PROVE  TypeOK'
  <1>0. ToStore(s) \in SUBSET Hashes /\ ToRecord(s) \in SUBSET Hashes
    BY DEF ToStore, ToRecord
  <1>1. CASE Cleanup(s)
    <2>1. verification_requests' \in [Ids -> Status] /\ lost' \in 0..MaxLost
      BY <1>1, StatusWriteType, LostType DEF Cleanup, Lost, Status, TypeOK, StoreTypeOK
    <2>2. pc' \in [Ids -> AllPC] /\ todo' \in [Ids -> SUBSET Hashes]
      BY <1>0, <1>1, GotoType DEF Cleanup, TypeOK, AllPC, TaskPC
    <2>. QED
      BY <1>1, <2>1, <2>2 DEF Cleanup, TypeOK, StoreTypeOK, AllPC
  <1>2. CASE Upload(s)
    <2>1. PICK c \in todo[s] : upload_class_to_s3(c) /\ current' = [current EXCEPT ![s] = c]
      BY <1>2 DEF Upload
    <2>2. c \in Hashes
      BY DEF TypeOK
    <2>3. /\ files' \in SUBSET Hashes
          /\ current' \in [Ids -> Hashes \cup {NoHash}]
      BY <2>1, <2>2 DEF upload_class_to_s3, TypeOK, StoreTypeOK
    <2>4. pc' \in [Ids -> AllPC]
      BY <1>2, GotoType DEF Upload, AllPC, TaskPC
    <2>. QED
      BY <1>2, <2>3, <2>4 DEF Upload, TypeOK, StoreTypeOK, AllPC
  <1>3. CASE InsertClass(s)
    <2>. DEFINE c == current[s]
    <2>1. c \in Hashes
      BY <1>3 DEF InsertClass
    <2>2. contract_classes' \in SUBSET Hashes
      BY <1>3, <2>1 DEF InsertClass, insert_contract_class, TypeOK, StoreTypeOK
    <2>3. outcome' \in [Ids -> [Hashes -> {"none", "built", "success", "failed"}]]
      BY <1>3, <2>1 DEF InsertClass, TypeOK
    <2>4. current' \in [Ids -> Hashes \cup {NoHash}]
      BY <1>3 DEF InsertClass, TypeOK
    <2>5. \E l \in AllPC : Goto(s, l)
      BY <1>3 DEF InsertClass, AllPC, TaskPC, MinimalPC
    <2>6. pc' \in [Ids -> AllPC]
      BY <2>5, GotoType
    <2>7. \E t \in SUBSET Hashes : todo' = [todo EXCEPT ![s] = t]
      <3>1. todo[s] \ {c} \in SUBSET Hashes
        BY DEF TypeOK
      <3>. QED
        BY <1>0, <1>3, <3>1 DEF InsertClass, TypeOK
    <2>8. todo' \in [Ids -> SUBSET Hashes]
      BY <2>7 DEF TypeOK
    <2>. QED
      BY <1>3, <2>2, <2>3, <2>4, <2>6, <2>8 DEF InsertClass, TypeOK, StoreTypeOK, AllPC
  <1>4. CASE CleanupFails(s) \/ StoreFails(s) \/ Tidy(s)
    BY <1>4, MovesType DEF CleanupFails, StoreFails, Tidy, AllPC, TaskPC, MinimalPC
  <1>5. CASE EndBuildAll(s)
    <2>1. pc' \in [Ids -> AllPC] /\ todo' \in [Ids -> SUBSET Hashes]
      BY <1>0, <1>5, GotoType DEF EndBuildAll, TypeOK, AllPC, MinimalPC
    <2>. QED
      BY <1>5, <2>1 DEF EndBuildAll, TypeOK, StoreTypeOK, storeVars, AllPC
  <1>. QED
    BY <1>1, <1>2, <1>3, <1>4, <1>5

\* The last steps of the sessions, which write rows.
LEMMA RecordingType ==
    ASSUME TypeOK, NEW s \in Ids,
           \/ Record(s) \/ FailRequest(s) \/ FailStatuses(s) \/ Succeed(s) \/ InsertAll(s)
           \/ FailAll(s)
    PROVE  TypeOK'
  <1>0. {"success", "failed"} \subseteq Status
    BY DEF Status
  <1>1. CASE Record(s)
    <2>1. PICK c \in todo[s], status \in {"success", "failed"} :
              /\ \/ /\ \/ update_verification_statuses(s, {c}, status)
                       \/ insert_verification_status(s, c, status)
                    /\ UNCHANGED lost
                 \/ Lost(verification_status)
              /\ todo' = [todo EXCEPT ![s] = @ \ {c}]
              /\ Goto(s, IF todo[s] = {c} THEN "done" ELSE "record")
      BY <1>1 DEF Record
    <2>2. c \in Hashes
      BY DEF TypeOK
    <2>3. verification_status' \in [Ids -> [Hashes -> Status]] /\ lost' \in 0..MaxLost
      BY <1>0, <2>1, <2>2, StatusWriteType, LostType DEF Lost, TypeOK, StoreTypeOK
    <2>4. pc' \in [Ids -> AllPC] /\ todo' \in [Ids -> SUBSET Hashes]
      BY <2>1, GotoType DEF TypeOK, AllPC, TaskPC, EndPC
    <2>. QED
      BY <1>1, <2>3, <2>4 DEF Record, TypeOK, StoreTypeOK, AllPC
  <1>2. CASE FailRequest(s) \/ FailAll(s)
    <2>1. verification_requests' \in [Ids -> Status] /\ lost' \in 0..MaxLost
      BY <1>0, <1>2, StatusWriteType, LostType
         DEF FailRequest, FailAll, Lost, TypeOK, StoreTypeOK
    <2>2. pc' \in [Ids -> AllPC]
      BY <1>2, GotoType DEF FailRequest, FailAll, AllPC, TaskPC, EndPC
    <2>. QED
      BY <1>2, <2>1, <2>2 DEF FailRequest, FailAll, TypeOK, StoreTypeOK, AllPC, sessionVars
  <1>3. CASE FailStatuses(s)
    <2>1. Pending(s) \in SUBSET Hashes
      BY DEF Pending
    <2>2. verification_status' \in [Ids -> [Hashes -> Status]] /\ lost' \in 0..MaxLost
      BY <1>0, <1>3, <2>1, StatusWriteType, LostType
         DEF FailStatuses, FailPending, Lost, TypeOK, StoreTypeOK
    <2>3. pc' \in [Ids -> AllPC]
      BY <1>3, GotoType DEF FailStatuses, AllPC, EndPC
    <2>. QED
      BY <1>3, <2>2, <2>3 DEF FailStatuses, TypeOK, StoreTypeOK, AllPC, sessionVars
  <1>4. CASE Succeed(s)
    <2>1. verification_requests' \in [Ids -> Status] /\ lost' \in 0..MaxLost
      BY <1>0, <1>4, StatusWriteType, LostType DEF Succeed, Lost, TypeOK, StoreTypeOK
    <2>2. pc' \in [Ids -> AllPC] /\ todo' \in [Ids -> SUBSET Hashes]
      BY <1>4, GotoType DEF Succeed, TypeOK, AllPC, MinimalPC, EndPC
    <2>. QED
      BY <1>4, <2>1, <2>2 DEF Succeed, TypeOK, StoreTypeOK, AllPC
  <1>5. CASE InsertAll(s)
    <2>1. PICK c \in todo[s] :
              /\ \/ insert_verification_status(s, c, "success") /\ UNCHANGED lost
                 \/ Lost(verification_status)
              /\ todo' = [todo EXCEPT ![s] = @ \ {c}]
              /\ Goto(s, IF todo[s] = {c} THEN "done" ELSE "insertAll")
      BY <1>5 DEF InsertAll
    <2>2. c \in Hashes
      BY DEF TypeOK
    <2>3. verification_status' \in [Ids -> [Hashes -> Status]] /\ lost' \in 0..MaxLost
      BY <1>0, <2>1, <2>2, StatusWriteType, LostType DEF Lost, TypeOK, StoreTypeOK
    <2>4. pc' \in [Ids -> AllPC] /\ todo' \in [Ids -> SUBSET Hashes]
      BY <2>1, GotoType DEF TypeOK, AllPC, MinimalPC, EndPC
    <2>. QED
      BY <1>5, <2>3, <2>4 DEF InsertAll, TypeOK, StoreTypeOK, AllPC
  <1>. QED
    BY <1>1, <1>2, <1>3, <1>4, <1>5

\* The start of a minimal session.
LEMMA MinimalArriveType ==
    ASSUME TypeOK, NEW s \in Ids, MinimalArrive(s)
    PROVE  TypeOK'
  <1>1. PICK b \in Builds(TRUE) :
            /\ built' = [built EXCEPT ![s] = b]
            /\ todo' = [todo EXCEPT ![s] = b]
    BY DEF MinimalArrive
  <1>2. b \in SUBSET Hashes
    BY DEF Builds
  <1>3. built' \in [Ids -> SUBSET Hashes] /\ todo' \in [Ids -> SUBSET Hashes]
    BY <1>1, <1>2 DEF TypeOK
  <1>4. verification_requests' \in [Ids -> Status] /\ lost' \in 0..MaxLost
    BY StatusWriteType, LostType DEF MinimalArrive, Lost, Status, TypeOK, StoreTypeOK
  <1>5. pc' \in [Ids -> AllPC]
    BY GotoType DEF MinimalArrive, AllPC, MinimalPC, EndPC
  <1>. QED
    BY <1>3, <1>4, <1>5 DEF MinimalArrive, TypeOK, StoreTypeOK, AllPC

\* A restart.
LEMMA CrashType ==
    ASSUME TypeOK, Crash
    PROVE  TypeOK'
  BY BoundsAssumption
     DEF Crash, TypeOK, StoreTypeOK, storeVars, sessionVars, EndPC

-----------------------------------------------------------------------------
(* One session and the others                                              *)

\* The part of SessionInv that is about session `s`.
SessionFollows(s) ==
    /\ pc[s] = "insertClass" => current[s] \in todo[s] \cap files
    /\ StoringInv(s)
    /\ s \in Full => pc[s] \in HandlerPC \cup TaskPC \cup EndPC
    /\ s \in Minimal => MinimalInv(s)

\* The rows of session `s` that say "success" are of verified classes.
RowsVerified(s) ==
    \A c \in Hashes : verification_status[s][c] = "success" => c \in contract_classes

Inv(s) == SessionFollows(s) /\ RowsVerified(s) /\ RowsFollow(s) /\ OutcomesFollow(s)

\* The rows of session `s` that are final stay.
RowsStay(s) ==
    \A c \in Hashes : verification_status[s][c] \in {"success", "failed"} =>
        verification_status'[s][c] = verification_status[s][c]

AllInv == TypeOK /\ VerifiedHasFile /\ \A s \in Ids : Inv(s)

\* What a step of another session leaves of session `t`.
Untouched(t) ==
    /\ pc'[t] = pc[t] /\ decision'[t] = decision[t] /\ built'[t] = built[t]
    /\ outcome'[t] = outcome[t] /\ todo'[t] = todo[t] /\ current'[t] = current[t]
    /\ verification_status'[t] = verification_status[t]
    /\ verification_requests'[t] = verification_requests[t]

Grows == files \subseteq files' /\ contract_classes \subseteq contract_classes'

\* Files and verified classes are only added to, so nothing that holds of an
\* untouched session ends.
LEMMA UntouchedKeeps ==
    ASSUME NEW t \in Ids, Inv(t), Untouched(t), Grows
    PROVE  Inv(t)' /\ RowsStay(t)
  <1>1. SessionFollows(t)'
    <2>1. StoringInv(t)'
      BY DEF Inv, SessionFollows, StoringInv, Untouched, Grows, ToStore, ToRecord
    <2>2. MinimalInv(t) => MinimalInv(t)'
      BY DEF MinimalInv, Untouched, Grows, ToRecord
    <2>. QED
      BY <2>1, <2>2 DEF Inv, SessionFollows, Untouched, Grows
  <1>2. RowsVerified(t)' /\ RowsStay(t)
    BY DEF Inv, RowsVerified, RowsStay, Untouched, Grows
  <1>3. RowsFollow(t)'
    BY DEF Inv, RowsFollow, Untouched
  <1>4. OutcomesFollow(t)'
    BY DEF Inv, OutcomesFollow, Untouched, NewCairo
  <1>. QED
    BY <1>1, <1>2, <1>3, <1>4 DEF Inv

\* A step of one session touches no other.
LEMMA OthersUntouched ==
    ASSUME TypeOK, NEW s \in Ids, NEW t \in Ids, t # s,
           Arrive(s) \/ Handler(s) \/ Disconnect(s) \/ MinimalArrive(s) \/ Task(s)
    PROVE  Untouched(t) /\ Grows
  <1>0. ASSUME NEW l, Goto(s, l)
        PROVE  pc'[t] = pc[t]
    BY <1>0 DEF Goto, TypeOK
  <1>1. CASE Arrive(s) \/ ReadInline(s) \/ ReadStatuses(s) \/ ReadVerified(s) \/ InsertStatus(s)
    BY <1>0, <1>1 DEF Arrive, ReadInline, ReadStatuses, ReadVerified, InsertStatus, Lost,
       insert_verification_status, storeVars, Untouched, Grows, TypeOK, StoreTypeOK
  <1>2. CASE \E from, to : Moves(s, from, to)
    BY <1>0, <1>2 DEF Moves, storeVars, sessionVars, Untouched, Grows
  <1>3. CASE MinimalArrive(s)
    BY <1>0, <1>3 DEF MinimalArrive, Lost, insert_verification_request, Untouched, Grows, TypeOK,
       StoreTypeOK
  <1>4. CASE FetchClasses(s)
    BY <1>0, <1>4 DEF FetchClasses, insert_verification_request, Untouched, Grows, TypeOK,
       StoreTypeOK
  <1>5. CASE InsertProfile(s) \/ FindVerified(s) \/ EndBuild(s) \/ EndBuildAll(s)
    BY <1>0, <1>5 DEF InsertProfile, FindVerified, EndBuild, EndBuildAll, storeVars, Untouched,
       Grows, TypeOK, StoreTypeOK
  <1>6. CASE Cleanup(s) \/ FailRequest(s) \/ Succeed(s) \/ FailAll(s)
    BY <1>0, <1>6 DEF Cleanup, FailRequest, Succeed, FailAll, Lost, update_verification_request,
       sessionVars, Untouched, Grows, TypeOK, StoreTypeOK
  <1>7. CASE Upload(s)
    BY <1>0, <1>7 DEF Upload, upload_class_to_s3, Untouched, Grows, TypeOK
  <1>8. CASE InsertClass(s)
    <2>1. \E l : Goto(s, l)
      BY <1>8 DEF InsertClass
    <2>2. \E x : todo' = [todo EXCEPT ![s] = x]
      BY <1>8 DEF InsertClass
    <2>. QED
      BY <1>0, <1>8, <2>1, <2>2 DEF InsertClass, insert_contract_class, Untouched, Grows, TypeOK
  <1>9. CASE Record(s) \/ FailStatuses(s) \/ InsertAll(s)
    BY <1>0, <1>9 DEF Record, FailStatuses, InsertAll, FailPending, Lost, update_verification_statuses,
       insert_verification_status, sessionVars, Untouched, Grows, TypeOK, StoreTypeOK
  <1>. QED
    BY <1>1, <1>2, <1>3, <1>4, <1>5, <1>6, <1>7, <1>8, <1>9
       DEF Handler, Task, ReadFails, Spawn, Disconnect, BuildFails, CleanupFails, StoreFails, Tidy

-----------------------------------------------------------------------------
(* The step of the acting session                                          *)

\* What a session knows of itself, unfolded.
LEMMA KnownOf ==
    ASSUME AllInv, NEW s \in Ids
    PROVE  /\ TypeOK /\ Inv(s)
           /\ s \in Full \/ s \in Minimal
           /\ ~(s \in Full /\ s \in Minimal)
           /\ s \in Full => pc[s] \in HandlerPC \cup TaskPC \cup EndPC
           /\ s \in Minimal => pc[s] \in MinimalPC \cup EndPC
  BY SessionsAssumption DEF AllInv, Inv, SessionFollows, MinimalInv

\* A session that only moves on keeps what holds of it, where its new place
\* asks for nothing new.
LEMMA MovesKeeps ==
    ASSUME AllInv, NEW s \in Ids,
           \/ ReadFails(s) \/ Spawn(s) \/ BuildFails(s) \/ CleanupFails(s) \/ StoreFails(s)
           \/ s \in Full /\ Disconnect(s)
    PROVE  Inv(s)' /\ RowsStay(s)
  <1>. USE KnownOf
  <1>. DEFINE Old == {"inline", "statuses", "verified", "spawn", "build", "buildAll", "cleanup",
                      "upload", "insertClass"} \cup HandlerPC
  <1>1. /\ pc[s] \in Old
        /\ \/ pc'[s] \in {"rejected", "done", "dropped"} /\ s \in Full
           \/ pc[s] = "spawn" /\ pc'[s] = "fetch"
           \/ pc[s] = "build" /\ pc'[s] = "failRequest"
           \/ pc[s] = "buildAll" /\ pc'[s] = "failAll"
           \/ pc[s] \in {"cleanup", "upload", "insertClass"} /\ pc'[s] = "fail" /\ s \in Full
           \/ pc[s] \in {"upload", "insertClass"} /\ pc'[s] = "failAll" /\ s \in Minimal
    BY DEF ReadFails, Spawn, BuildFails, CleanupFails, StoreFails, Disconnect, Moves, Goto,
       TypeOK, HandlerPC, TaskPC, MinimalPC, EndPC
  <1>2. UNCHANGED <<storeVars, sessionVars>>
    BY DEF ReadFails, Spawn, BuildFails, CleanupFails, StoreFails, Disconnect, Moves
  <1>3. SessionFollows(s)'
    BY <1>1, <1>2 DEF Inv, SessionFollows, StoringInv, MinimalInv, ToStore, ToRecord, storeVars,
       sessionVars, HandlerPC, TaskPC, MinimalPC, EndPC
  <1>4. RowsVerified(s)' /\ RowsStay(s)
    BY <1>2 DEF Inv, RowsVerified, RowsStay, storeVars
  <1>5. RowsFollow(s)'
    BY <1>1, <1>2 DEF Inv, RowsFollow, storeVars, sessionVars, HandlerPC, TaskPC, MinimalPC, EndPC
  <1>6. OutcomesFollow(s)'
    BY <1>1, <1>2 DEF Inv, OutcomesFollow, sessionVars, NewCairo, HandlerPC
  <1>. QED
    BY <1>3, <1>4, <1>5, <1>6 DEF Inv

\* initiate_verification up to the decision.
LEMMA DecideKeeps ==
    ASSUME AllInv, NEW s \in Full,
           Arrive(s) \/ ReadInline(s) \/ ReadStatuses(s) \/ ReadVerified(s)
    PROVE  Inv(s)' /\ RowsStay(s)
  <1>. USE KnownOf
  <1>s. s \in Ids
    BY SessionsAssumption
  <1>u. UNCHANGED <<storeVars, outcome, current>>
    BY DEF Arrive, ReadInline, ReadStatuses, ReadVerified
  <1>p. /\ pc[s] \in {"idle", "inline", "statuses", "verified"}
        /\ pc'[s] \in {"inline", "statuses", "verified", "rejected", "insert"}
        /\ pc'[s] = "insert" => pc[s] = "verified"
    BY <1>s DEF Arrive, ReadInline, ReadStatuses, ReadVerified, Goto, TypeOK
  <1>d. \A c \in Hashes :
           /\ decision'[s][c] = "success" => c \in contract_classes
           /\ decision'[s][c] = "failed" => ~NewCairo(c)
    <2>1. CASE Arrive(s)
      BY <2>1, <1>s DEF Arrive, TypeOK
    <2>2. CASE ReadInline(s)
      BY <2>2, <1>s DEF ReadInline, Inv, SessionFollows, StoringInv, OutcomesFollow
    <2>3. CASE ReadStatuses(s)
      <3>1. PICK d \in [Hashes -> Status] :
                /\ \A c \in Hashes : d[c] \in StatusVerdicts(s, c)
                /\ decision' = [decision EXCEPT ![s] = d]
        BY <2>3 DEF ReadStatuses
      <3>2. decision'[s] = d
        BY <1>s, <3>1 DEF TypeOK
      <3>3. ASSUME NEW c \in Hashes
            PROVE  /\ d[c] = "success" => c \in contract_classes
                   /\ d[c] = "failed" => ~NewCairo(c)
        <4>1. CASE d[c] = decision[s][c]
          BY <4>1, <1>s DEF Inv, SessionFollows, StoringInv, OutcomesFollow
        <4>2. CASE d[c] # decision[s][c]
          <5>. DEFINE rows == fetch_verification_statuses_pending_or_success(c)
          <5>1. /\ ~NewCairo(c)
                /\ \E row \in rows : d[c] = IF row = "pending" THEN "failed" ELSE "success"
            BY <3>1, <4>2 DEF StatusVerdicts
          <5>2. "success" \in rows => c \in contract_classes
            BY DEF fetch_verification_statuses_pending_or_success, AllInv, Inv, RowsVerified
          <5>3. rows \subseteq {"pending", "success"}
            BY DEF fetch_verification_statuses_pending_or_success
          <5>. QED
            BY <5>1, <5>2, <5>3
        <4>. QED
          BY <4>1, <4>2
      <3>. QED
        BY <3>2, <3>3
    <2>4. CASE ReadVerified(s)
      <3>1. decision'[s] = [c \in Hashes |-> VerifiedVerdict(s, c)]
        BY <2>4, <1>s DEF ReadVerified, TypeOK
      <3>2. ASSUME NEW c \in Hashes
            PROVE  /\ VerifiedVerdict(s, c) = "success" => c \in contract_classes
                   /\ VerifiedVerdict(s, c) = "failed" => ~NewCairo(c)
        BY <1>s DEF VerifiedVerdict, fetch_verified_classes, Inv, SessionFollows, StoringInv, OutcomesFollow
      <3>. QED
        BY <3>1, <3>2
    <2>. QED
      BY <2>1, <2>2, <2>3, <2>4
  <1>t. pc'[s] = "insert" => todo'[s] \subseteq Hashes
    BY <1>s, <1>p DEF Arrive, ReadInline, ReadStatuses, ReadVerified, Goto, TypeOK
  <1>3. SessionFollows(s)'
    BY <1>s, <1>u, <1>p, <1>d DEF Inv, SessionFollows, StoringInv, storeVars, HandlerPC, TaskPC, EndPC
  <1>4. RowsVerified(s)' /\ RowsStay(s)
    BY <1>u, <1>s DEF Inv, RowsVerified, RowsStay, storeVars
  <1>5. RowsFollow(s)'
    BY <1>u, <1>p, <1>s, <1>t DEF Inv, RowsFollow, storeVars, TaskPC
  <1>6. OutcomesFollow(s)'
    BY <1>d, <1>p DEF OutcomesFollow, NewCairo
  <1>. QED
    BY <1>3, <1>4, <1>5, <1>6 DEF Inv

\* The status rows written for the decision.
LEMMA InsertStatusKeeps ==
    ASSUME AllInv, NEW s \in Full, InsertStatus(s)
    PROVE  Inv(s)' /\ RowsStay(s)
  <1>s. s \in Ids
    BY SessionsAssumption
  <1>. USE KnownOf, <1>s
  <1>1. PICK c \in todo[s] :
            /\ \/ insert_verification_status(s, c, decision[s][c]) /\ UNCHANGED lost
               \/ Lost(verification_status)
            /\ todo' = [todo EXCEPT ![s] = @ \ {c}]
            /\ Goto(s, IF todo[s] = {c} THEN "spawn" ELSE "insert")
    BY DEF InsertStatus
  <1>2. c \in Hashes
    BY <1>s DEF TypeOK
  <1>p. pc[s] = "insert" /\ pc'[s] \in {"insert", "spawn"} /\ todo'[s] = todo[s] \ {c}
    BY <1>1, <1>s DEF InsertStatus, Goto, TypeOK
  <1>u. UNCHANGED <<files, contract_classes, decision, built, outcome, current,
                    verification_requests>>
    BY DEF InsertStatus
  <1>v. /\ \A d \in Hashes \ {c} : verification_status'[s][d] = verification_status[s][d]
        /\ verification_status'[s][c] \in {verification_status[s][c], decision[s][c]}
    BY <1>1, <1>2, <1>s DEF insert_verification_status, Lost, TypeOK, StoreTypeOK
  <1>n. verification_status[s][c] = "none"
    BY <1>p DEF Inv, RowsFollow
  <1>3. SessionFollows(s)'
    BY <1>s, <1>u, <1>p DEF Inv, SessionFollows, StoringInv, HandlerPC, TaskPC, EndPC
  <1>4. RowsVerified(s)' /\ RowsStay(s)
    <2>1. decision[s][c] = "success" => c \in contract_classes
      BY <1>2 DEF Inv, SessionFollows, StoringInv
    <2>. QED
      BY <1>u, <1>v, <1>n, <2>1 DEF Inv, RowsVerified, RowsStay
  <1>5. RowsFollow(s)'
    <2>1. todo[s] \subseteq Hashes
      BY DEF TypeOK
    <2>. QED
      BY <1>u, <1>p, <1>v, <1>n, <2>1 DEF Inv, RowsFollow, TaskPC
  <1>6. OutcomesFollow(s)'
    BY <1>u, <1>p DEF Inv, OutcomesFollow, NewCairo
  <1>. QED
    BY <1>3, <1>4, <1>5, <1>6 DEF Inv

\* The build of a full session up to its outcome: what the session decides,
\* stores and has written does not change.
LEMMA FetchKeeps ==
    ASSUME AllInv, NEW s \in Ids, FetchClasses(s)
    PROVE  Inv(s)' /\ RowsStay(s)
  <1>. USE KnownOf
  <1>p. pc[s] = "fetch" /\ pc'[s] \in {"build", "failRequest"} /\ s \in Full
    BY DEF FetchClasses, Goto, TypeOK, MinimalPC, EndPC
  <1>u. UNCHANGED <<files, contract_classes, decision, outcome, current, verification_status>>
    BY DEF FetchClasses
  <1>3. SessionFollows(s)'
    BY <1>u, <1>p DEF Inv, SessionFollows, StoringInv, HandlerPC, TaskPC, EndPC
  <1>4. RowsVerified(s)' /\ RowsStay(s)
    BY <1>u DEF Inv, RowsVerified, RowsStay
  <1>5. RowsFollow(s)'
    BY <1>u, <1>p DEF Inv, RowsFollow, TaskPC
  <1>6. OutcomesFollow(s)'
    BY <1>u, <1>p DEF Inv, OutcomesFollow, NewCairo
  <1>. QED
    BY <1>3, <1>4, <1>5, <1>6 DEF Inv

\* The rows of a profile: what leaves todo has an outcome in a minimal session.
LEMMA ProfileKeeps ==
    ASSUME AllInv, NEW s \in Ids, InsertProfile(s)
    PROVE  Inv(s)' /\ RowsStay(s)
  <1>. USE KnownOf
  <1>1. PICK c \in NextRows(s) :
            /\ outcome' = IF s \in Minimal /\ Inline[c] = c
                          THEN [outcome EXCEPT ![s][c] = "built"] ELSE outcome
            /\ todo' = [todo EXCEPT ![s] = @ \ {c}]
    BY DEF InsertProfile
  <1>2. c \in Hashes /\ c \in todo[s]
    BY DEF NextRows, TypeOK
  <1>p. /\ pc[s] \in {"build", "buildAll"} /\ pc' = pc
        /\ pc[s] = "build" => s \in Full
        /\ pc[s] = "buildAll" => s \in Minimal
    BY DEF InsertProfile, HandlerPC, TaskPC, MinimalPC, EndPC
  <1>u. UNCHANGED <<files, contract_classes, decision, built, current, verification_status,
                    verification_requests>>
    BY DEF InsertProfile
  <1>o. /\ todo'[s] = todo[s] \ {c}
        /\ \A d \in Hashes : outcome'[s][d] \in {outcome[s][d], "built"}
        /\ \A d \in Hashes : outcome[s][d] # "none" => outcome'[s][d] # "none"
        /\ s \in Minimal => outcome'[s][c] # "none"
    <2>1. s \in Minimal => Inline[c] = c \/ outcome[s][c] # "none"
      BY DEF NextRows
    <2>. QED
      BY <1>1, <1>2, <2>1 DEF TypeOK
  <1>3. SessionFollows(s)'
    <2>1. StoringInv(s)'
      BY <1>u, <1>p, <1>o DEF Inv, SessionFollows, StoringInv
    <2>2. s \in Minimal => MinimalInv(s)'
      BY <1>u, <1>p, <1>o DEF Inv, SessionFollows, MinimalInv, ToRecord, TypeOK
    <2>. QED
      BY <1>u, <1>p, <2>1, <2>2 DEF Inv, SessionFollows
  <1>4. RowsVerified(s)' /\ RowsStay(s)
    BY <1>u DEF Inv, RowsVerified, RowsStay
  <1>5. RowsFollow(s)'
    BY <1>u, <1>p DEF Inv, RowsFollow, TaskPC
  <1>6. OutcomesFollow(s)'
    BY <1>u, <1>p DEF Inv, OutcomesFollow, NewCairo
  <1>. QED
    BY <1>3, <1>4, <1>5, <1>6 DEF Inv

\* The classes a minimal session finds verified are verified.
LEMMA FindVerifiedKeeps ==
    ASSUME AllInv, NEW s \in Ids, FindVerified(s)
    PROVE  Inv(s)' /\ RowsStay(s)
  <1>. USE KnownOf
  <1>p. pc[s] = "buildAll" /\ s \in Minimal
    BY DEF FindVerified, HandlerPC, TaskPC, EndPC
  <1>u. UNCHANGED <<storeVars, pc, decision, built, todo, current>>
    BY DEF FindVerified
  <1>o. \A c \in Hashes :
           /\ c \notin todo[s] => outcome'[s][c] = outcome[s][c]
           /\ c \in todo[s] => outcome'[s][c] \in {"success", "built"}
           /\ c \in todo[s] /\ outcome'[s][c] = "success" => c \in contract_classes
    <2>1. outcome'[s] = [c \in Hashes |->
              IF c \notin todo[s] THEN outcome[s][c]
              ELSE IF fetch_verified_classes({c}) = {c} THEN "success" ELSE "built"]
      BY DEF FindVerified, TypeOK
    <2>. QED
      BY <2>1 DEF fetch_verified_classes
  <1>3. SessionFollows(s)'
    <2>1. StoringInv(s)'
      BY <1>u, <1>p, <1>o DEF Inv, SessionFollows, StoringInv, storeVars
    <2>2. MinimalInv(s)'
      BY <1>u, <1>p, <1>o, SMTT(30) DEF Inv, SessionFollows, MinimalInv, ToRecord, storeVars, TypeOK
    <2>. QED
      BY <1>u, <1>p, <2>1, <2>2 DEF Inv, SessionFollows
  <1>4. RowsVerified(s)' /\ RowsStay(s)
    BY <1>u DEF Inv, RowsVerified, RowsStay, storeVars
  <1>5. RowsFollow(s)'
    BY <1>u, <1>p DEF Inv, RowsFollow, TaskPC, storeVars
  <1>6. OutcomesFollow(s)'
    BY <1>u, <1>p DEF Inv, OutcomesFollow, NewCairo
  <1>. QED
    BY <1>3, <1>4, <1>5, <1>6 DEF Inv

\* A class that fails in a build was to be verified, and the inline build of a
\* class that was is of a new Cairo version, so nothing was decided against it.
LEMMA EndBuildKeeps ==
    ASSUME AllInv, NEW s \in Ids, EndBuild(s)
    PROVE  Inv(s)' /\ RowsStay(s)
  <1>. USE KnownOf
  <1>p. pc[s] = "build" /\ pc'[s] = "cleanup" /\ s \in Full
    BY DEF EndBuild, Goto, TypeOK, MinimalPC, EndPC
  <1>u. UNCHANGED <<storeVars, decision, built, todo, current>>
    BY DEF EndBuild
  <1>1. PICK matching \in SUBSET built[s] :
            outcome' = [outcome EXCEPT ![s] = [c \in Hashes |-> Outcome(s, matching, c)]]
    BY DEF EndBuild
  <1>o. \A c \in Hashes : outcome'[s][c] = Outcome(s, matching, c)
    BY <1>1 DEF TypeOK
  <1>f. \A c \in Hashes :
           /\ outcome'[s][c] # "success"
           /\ outcome'[s][c] = "failed" => decision[s][c] = "pending"
           /\ outcome'[s][c] = "built" => decision[s][c] # "failed"
    <2>. SUFFICES ASSUME NEW c \in Hashes
                  PROVE  /\ outcome'[s][c] # "success"
                         /\ outcome'[s][c] = "failed" => decision[s][c] = "pending"
                         /\ outcome'[s][c] = "built" => decision[s][c] # "failed"
      OBVIOUS
    <2>1. CASE c \in Pending(s)
      BY <1>o, <2>1 DEF Outcome, Pending
    <2>2. CASE c \notin Pending(s) /\ \E p \in Pending(s) \cap built[s] : Inline[p] = c
      <3>1. NewCairo(c)
        BY <2>2, StoreAssumption DEF NewCairo, Pending
      <3>. QED
        BY <1>o, <2>2, <3>1 DEF Outcome, Inv, OutcomesFollow
    <2>3. CASE c \notin Pending(s) /\ ~\E p \in Pending(s) \cap built[s] : Inline[p] = c
      BY <1>o, <2>3 DEF Outcome
    <2>. QED
      BY <2>1, <2>2, <2>3
  <1>3. SessionFollows(s)'
    BY <1>u, <1>p, <1>f DEF Inv, SessionFollows, StoringInv, storeVars, HandlerPC, TaskPC, EndPC
  <1>4. RowsVerified(s)' /\ RowsStay(s)
    BY <1>u DEF Inv, RowsVerified, RowsStay, storeVars
  <1>5. RowsFollow(s)'
    BY <1>u, <1>p DEF Inv, RowsFollow, TaskPC, storeVars
  <1>6. OutcomesFollow(s)'
    BY <1>u, <1>p, <1>f DEF Inv, OutcomesFollow, NewCairo
  <1>. QED
    BY <1>3, <1>4, <1>5, <1>6 DEF Inv

\* The loop that stores classes starts with all that are built.
LEMMA CleanupKeeps ==
    ASSUME AllInv, NEW s \in Ids, Cleanup(s)
    PROVE  Inv(s)' /\ RowsStay(s)
  <1>. USE KnownOf
  <1>p. /\ pc[s] = "cleanup" /\ s \in Full
        /\ \/ pc'[s] = "upload" /\ todo'[s] = ToStore(s)
           \/ pc'[s] = "record" /\ todo'[s] = ToRecord(s) /\ ToStore(s) = {}
    BY DEF Cleanup, Goto, TypeOK, MinimalPC, EndPC
  <1>u. UNCHANGED <<files, contract_classes, decision, built, outcome, current,
                    verification_status>>
    BY DEF Cleanup
  <1>3. SessionFollows(s)'
    <2>1. \A c \in Hashes : outcome[s][c] \in {"none", "built", "success", "failed"}
      BY DEF TypeOK
    <2>. QED
      BY <1>u, <1>p, <2>1 DEF Inv, SessionFollows, StoringInv, ToStore, ToRecord, HandlerPC,
         TaskPC, EndPC
  <1>4. RowsVerified(s)' /\ RowsStay(s)
    BY <1>u DEF Inv, RowsVerified, RowsStay
  <1>5. RowsFollow(s)'
    BY <1>u, <1>p DEF Inv, RowsFollow, TaskPC
  <1>6. OutcomesFollow(s)'
    BY <1>u, <1>p DEF Inv, OutcomesFollow, NewCairo
  <1>. QED
    BY <1>3, <1>4, <1>5, <1>6 DEF Inv

\* The class uploaded is one of those left, and its file is there.
LEMMA UploadKeeps ==
    ASSUME AllInv, NEW s \in Ids, Upload(s)
    PROVE  Inv(s)' /\ RowsStay(s)
  <1>. USE KnownOf
  <1>p. /\ pc[s] = "upload" /\ pc'[s] = "insertClass"
        /\ current'[s] \in todo[s] \cap files'
    BY DEF Upload, Goto, upload_class_to_s3, TypeOK
  <1>u. UNCHANGED <<contract_classes, decision, built, outcome, todo, verification_status,
                    verification_requests>>
    BY DEF Upload
  <1>3. SessionFollows(s)'
    <2>1. StoringInv(s)'
      BY <1>u, <1>p DEF Inv, SessionFollows, StoringInv, ToStore
    <2>2. s \in Minimal => MinimalInv(s)'
      BY <1>u, <1>p DEF Inv, SessionFollows, MinimalInv, ToRecord, MinimalPC
    <2>. QED
      BY <1>u, <1>p, <2>1, <2>2 DEF Inv, SessionFollows, TaskPC
  <1>4. RowsVerified(s)' /\ RowsStay(s)
    BY <1>u DEF Inv, RowsVerified, RowsStay
  <1>5. RowsFollow(s)'
    BY <1>u, <1>p DEF Inv, RowsFollow, TaskPC, MinimalPC
  <1>6. OutcomesFollow(s)'
    BY <1>u, <1>p DEF Inv, OutcomesFollow, NewCairo
  <1>. QED
    BY <1>3, <1>4, <1>5, <1>6 DEF Inv

\* The class inserted leaves the loop; with the last one every class of the
\* session is stored.
LEMMA InsertClassKeeps ==
    ASSUME AllInv, NEW s \in Ids, InsertClass(s)
    PROVE  Inv(s)' /\ RowsStay(s)
  <1>. USE KnownOf
  <1>. DEFINE c == current[s]
  <1>1. /\ pc[s] = "insertClass" /\ c \in todo[s] /\ c \in Hashes
        /\ todo[s] = ToStore(s)
    BY DEF InsertClass, Inv, SessionFollows, StoringInv, TypeOK
  <1>2. /\ contract_classes' = contract_classes \cup {c}
        /\ \A d \in Hashes : outcome'[s][d] = IF d = c THEN "success" ELSE outcome[s][d]
    BY <1>1 DEF InsertClass, insert_contract_class, TypeOK
  <1>p. \/ pc'[s] = "upload" /\ todo'[s] = todo[s] \ {c}
        \/ pc'[s] = "record" /\ s \in Full /\ todo'[s] = ToRecord(s) /\ todo[s] = {c}
        \/ pc'[s] = "tidy" /\ s \in Minimal /\ todo'[s] = {} /\ todo[s] = {c}
    BY DEF InsertClass, Goto, TypeOK
  <1>u. UNCHANGED <<files, decision, built, verification_status, verification_requests>>
    BY DEF InsertClass
  <1>t. \A d \in Hashes : outcome[s][d] \in {"none", "built", "success", "failed"}
    BY DEF TypeOK
  <1>b. built[s] \subseteq Hashes
    BY DEF TypeOK
  <1>3. SessionFollows(s)'
    <2>1. StoringInv(s)'
      <3>1. \A d \in Hashes : "success" \in {decision'[s][d], outcome'[s][d]}
                                => d \in contract_classes'
        BY <1>2, <1>u DEF Inv, SessionFollows, StoringInv
      <3>2. pc'[s] \in {"upload", "insertClass"} => todo'[s] = ToStore(s)'
        BY <1>1, <1>2, <1>p DEF ToStore
      <3>3. pc'[s] = "record" => \A d \in todo'[s] : outcome'[s][d] \in {"success", "failed"}
        BY <1>1, <1>2, <1>p, <1>t DEF ToStore, ToRecord
      <3>. QED
        BY <3>1, <3>2, <3>3, <1>p DEF StoringInv
    <2>2. s \in Minimal => MinimalInv(s)'
      <3>. SUFFICES ASSUME s \in Minimal PROVE MinimalInv(s)'
        OBVIOUS
      <3>1. \A d \in Hashes : outcome'[s][d] # "failed"
        BY <1>2 DEF Inv, SessionFollows, MinimalInv
      <3>2. built[s] \subseteq ToRecord(s)
        BY <1>1 DEF Inv, SessionFollows, MinimalInv
      <3>3. pc'[s] \in {"upload", "insertClass"} => built'[s] \subseteq ToRecord(s)'
        BY <1>2, <1>u, <3>2 DEF ToRecord
      <3>4. pc'[s] = "tidy" => built[s] \subseteq contract_classes'
        <4>. SUFFICES ASSUME pc'[s] = "tidy", NEW d \in built[s]
                      PROVE  d \in contract_classes'
          OBVIOUS
        <4>1. d \in Hashes /\ outcome[s][d] \in {"built", "success"}
          BY <1>b, <1>t, <3>2 DEF ToRecord, Inv, SessionFollows, MinimalInv
        <4>2. CASE outcome[s][d] = "built"
          BY <1>1, <1>2, <1>p, <4>1, <4>2 DEF ToStore
        <4>3. CASE outcome[s][d] = "success"
          BY <1>2, <4>1, <4>3 DEF Inv, SessionFollows, StoringInv
        <4>. QED
          BY <4>1, <4>2, <4>3
      <3>5. verification_requests'[s] = "success" => built'[s] \subseteq contract_classes'
        BY <1>2, <1>u DEF Inv, SessionFollows, MinimalInv
      <3>. QED
        BY <3>1, <3>3, <3>4, <3>5, <1>p, <1>u DEF MinimalInv, MinimalPC
    <2>. QED
      BY <1>p, <2>1, <2>2 DEF SessionFollows, TaskPC
  <1>4. RowsVerified(s)' /\ RowsStay(s)
    BY <1>u, <1>2 DEF Inv, RowsVerified, RowsStay
  <1>5. RowsFollow(s)'
    BY <1>u, <1>p, <1>1 DEF Inv, RowsFollow, TaskPC, MinimalPC
  <1>6. OutcomesFollow(s)'
    <2>1. outcome[s][c] = "built"
      BY <1>1 DEF ToStore
    <2>. QED
      BY <1>u, <1>p, <1>1, <1>2, <2>1 DEF Inv, OutcomesFollow, NewCairo
  <1>. QED
    BY <1>3, <1>4, <1>5, <1>6 DEF Inv

\* A minimal session starts to store what it built; what it found verified is
\* stored already.
LEMMA EndBuildAllKeeps ==
    ASSUME AllInv, NEW s \in Ids, EndBuildAll(s)
    PROVE  Inv(s)' /\ RowsStay(s)
  <1>. USE KnownOf
  <1>p. /\ pc[s] = "buildAll" /\ s \in Minimal /\ todo[s] = {}
        /\ todo'[s] = ToStore(s)
        /\ \/ pc'[s] = "tidy" /\ ToStore(s) = {}
           \/ pc'[s] = "upload"
    BY DEF EndBuildAll, Goto, TypeOK, HandlerPC, TaskPC, EndPC
  <1>u. UNCHANGED <<storeVars, decision, built, outcome, current>>
    BY DEF EndBuildAll
  <1>3. SessionFollows(s)'
    <2>1. StoringInv(s)'
      BY <1>u, <1>p DEF Inv, SessionFollows, StoringInv, ToStore, storeVars
    <2>2. built[s] \subseteq ToRecord(s)
      BY <1>p DEF Inv, SessionFollows, MinimalInv
    <2>3. ToStore(s) = {} => built[s] \subseteq contract_classes
      <3>1. \A d \in Hashes : outcome[s][d] \in {"none", "built", "success"}
        BY <1>p DEF Inv, SessionFollows, MinimalInv, TypeOK
      <3>. QED
        BY <2>2, <3>1 DEF ToStore, ToRecord, Inv, SessionFollows, StoringInv
    <2>4. MinimalInv(s)'
      BY <1>u, <1>p, <2>2, <2>3 DEF Inv, SessionFollows, MinimalInv, ToRecord, storeVars, MinimalPC
    <2>. QED
      BY <1>p, <2>1, <2>4 DEF SessionFollows
  <1>4. RowsVerified(s)' /\ RowsStay(s)
    BY <1>u DEF Inv, RowsVerified, RowsStay, storeVars
  <1>5. RowsFollow(s)'
    BY <1>u, <1>p DEF Inv, RowsFollow, TaskPC, MinimalPC, storeVars
  <1>6. OutcomesFollow(s)'
    BY <1>u, <1>p DEF Inv, OutcomesFollow, NewCairo
  <1>. QED
    BY <1>3, <1>4, <1>5, <1>6 DEF Inv

\* After the directory of a minimal session is removed.
LEMMA TidyKeeps ==
    ASSUME AllInv, NEW s \in Ids, Tidy(s)
    PROVE  Inv(s)' /\ RowsStay(s)
  <1>. USE KnownOf
  <1>p. pc[s] = "tidy" /\ pc'[s] \in {"succeed", "failAll"} /\ s \in Minimal
    BY DEF Tidy, Moves, Goto, TypeOK, HandlerPC, TaskPC, EndPC
  <1>u. UNCHANGED <<storeVars, sessionVars>>
    BY DEF Tidy, Moves
  <1>3. SessionFollows(s)'
    BY <1>u, <1>p DEF Inv, SessionFollows, StoringInv, MinimalInv, storeVars, sessionVars, MinimalPC
  <1>4. RowsVerified(s)' /\ RowsStay(s)
    BY <1>u DEF Inv, RowsVerified, RowsStay, storeVars
  <1>5. RowsFollow(s)'
    BY <1>u, <1>p DEF Inv, RowsFollow, TaskPC, MinimalPC, storeVars, sessionVars
  <1>6. OutcomesFollow(s)'
    BY <1>u, <1>p DEF Inv, OutcomesFollow, NewCairo, sessionVars
  <1>. QED
    BY <1>3, <1>4, <1>5, <1>6 DEF Inv

\* What is recorded of a class never goes against the row its decision left:
\* a class that fails has a pending row, a class that is stored no failed one.
LEMMA RecordKeeps ==
    ASSUME AllInv, NEW s \in Ids, Record(s)
    PROVE  Inv(s)' /\ RowsStay(s)
  <1>. USE KnownOf
  <1>1. PICK c \in todo[s], status \in {"success", "failed"} :
            /\ status = IF outcome[s][c] = "failed" THEN "failed" ELSE "success"
            /\ \/ decision[s][c] # "none" /\ update_verification_statuses(s, {c}, status)
               \/ decision[s][c] = "none" /\ insert_verification_status(s, c, status)
               \/ Lost(verification_status)
            /\ todo' = [todo EXCEPT ![s] = @ \ {c}]
            /\ Goto(s, IF todo[s] = {c} THEN "done" ELSE "record")
    BY DEF Record
  <1>2. c \in Hashes
    BY DEF TypeOK
  <1>p. /\ pc[s] = "record" /\ s \in Full /\ pc'[s] \in {"record", "done"}
        /\ todo'[s] = todo[s] \ {c}
    BY <1>1 DEF Record, Goto, TypeOK, MinimalPC, EndPC
  <1>u. UNCHANGED <<files, contract_classes, decision, built, outcome, current,
                    verification_requests>>
    BY DEF Record
  <1>v. /\ \A d \in Hashes \ {c} : verification_status'[s][d] = verification_status[s][d]
        /\ verification_status'[s][c] \in {verification_status[s][c], status}
    <2>1. CASE update_verification_statuses(s, {c}, status)
      <3>1. verification_status'[s] = [d \in Hashes |->
                IF d \in {c} /\ verification_status[s][d] # "none" THEN status
                ELSE verification_status[s][d]]
        BY <2>1 DEF update_verification_statuses, TypeOK, StoreTypeOK
      <3>. QED
        BY <1>2, <3>1
    <2>2. CASE insert_verification_status(s, c, status)
      BY <1>2, <2>2 DEF insert_verification_status, TypeOK, StoreTypeOK
    <2>3. CASE Lost(verification_status)
      BY <2>3 DEF Lost
    <2>. QED
      BY <1>1, <2>1, <2>2, <2>3
  <1>n. verification_status[s][c] \in {"none", decision[s][c]}
    BY <1>p, <1>2 DEF Inv, RowsFollow, TaskPC
  <1>o. /\ outcome[s][c] \in {"success", "failed"}
        /\ outcome[s][c] = "failed" => decision[s][c] = "pending"
        /\ outcome[s][c] = "success" => decision[s][c] # "failed"
        /\ outcome[s][c] = "success" => c \in contract_classes
    BY <1>p, <1>2 DEF Inv, SessionFollows, StoringInv, OutcomesFollow
  <1>3. SessionFollows(s)'
    BY <1>u, <1>p DEF Inv, SessionFollows, StoringInv, HandlerPC, TaskPC, EndPC
  <1>4. RowsVerified(s)' /\ RowsStay(s)
    BY <1>u, <1>v, <1>1, <1>2, <1>n, <1>o DEF Inv, RowsVerified, RowsStay
  <1>5. RowsFollow(s)'
    BY <1>u, <1>v, <1>p, <1>2 DEF Inv, RowsFollow, TaskPC
  <1>6. OutcomesFollow(s)'
    BY <1>u, <1>p DEF Inv, OutcomesFollow, NewCairo
  <1>. QED
    BY <1>3, <1>4, <1>5, <1>6 DEF Inv

\* A failing full session writes only over the pending rows of its own.
LEMMA FailStatusesKeeps ==
    ASSUME AllInv, NEW s \in Ids, FailStatuses(s)
    PROVE  Inv(s)' /\ RowsStay(s)
  <1>. USE KnownOf
  <1>p. pc[s] = "fail" /\ s \in Full /\ pc'[s] = "done"
    BY DEF FailStatuses, Goto, TypeOK, MinimalPC, EndPC
  <1>u. UNCHANGED <<files, contract_classes, sessionVars, verification_requests>>
    BY DEF FailStatuses
  <1>v. \A c \in Hashes : verification_status'[s][c] # verification_status[s][c]
            => decision[s][c] = "pending" /\ verification_status'[s][c] = "failed"
    <2>1. CASE Lost(verification_status)
      BY <2>1 DEF Lost
    <2>2. CASE FailPending(s)
      <3>1. verification_status'[s] = [c \in Hashes |->
                IF c \in Pending(s) /\ verification_status[s][c] # "none" THEN "failed"
                ELSE verification_status[s][c]]
        BY <2>2 DEF FailPending, update_verification_statuses, TypeOK, StoreTypeOK
      <3>. QED
        BY <3>1 DEF Pending
    <2>. QED
      BY <2>1, <2>2 DEF FailStatuses
  <1>n. \A c \in Hashes : verification_status[s][c] \in {"none", decision[s][c]}
    BY <1>p DEF Inv, RowsFollow, TaskPC
  <1>3. SessionFollows(s)'
    BY <1>u, <1>p DEF Inv, SessionFollows, StoringInv, sessionVars, HandlerPC, TaskPC, EndPC
  <1>4. RowsVerified(s)' /\ RowsStay(s)
    BY <1>u, <1>v, <1>n DEF Inv, RowsVerified, RowsStay
  <1>5. RowsFollow(s)'
    BY <1>p DEF RowsFollow, TaskPC, MinimalPC
  <1>6. OutcomesFollow(s)'
    BY <1>u, <1>p DEF Inv, OutcomesFollow, NewCairo, sessionVars
  <1>. QED
    BY <1>3, <1>4, <1>5, <1>6 DEF Inv

\* The request row of a session that failed.
LEMMA FailRequestKeeps ==
    ASSUME AllInv, NEW s \in Ids, FailRequest(s) \/ FailAll(s)
    PROVE  Inv(s)' /\ RowsStay(s)
  <1>. USE KnownOf
  <1>p. \/ pc[s] = "failRequest" /\ pc'[s] = "fail" /\ s \in Full
        \/ pc[s] = "failAll" /\ pc'[s] = "done" /\ s \in Minimal
    BY DEF FailRequest, FailAll, Goto, TypeOK, HandlerPC, TaskPC, MinimalPC, EndPC
  <1>u. UNCHANGED <<files, contract_classes, sessionVars, verification_status>>
    BY DEF FailRequest, FailAll
  <1>v. verification_requests'[s] = "success" => verification_requests[s] = "success"
    BY DEF FailRequest, FailAll, update_verification_request, Lost, TypeOK, StoreTypeOK
  <1>3. SessionFollows(s)'
    BY <1>u, <1>p, <1>v DEF Inv, SessionFollows, StoringInv, MinimalInv, sessionVars, HandlerPC,
       TaskPC, MinimalPC, EndPC
  <1>4. RowsVerified(s)' /\ RowsStay(s)
    BY <1>u DEF Inv, RowsVerified, RowsStay
  <1>5. RowsFollow(s)'
    BY <1>u, <1>p DEF Inv, RowsFollow, TaskPC, MinimalPC, sessionVars
  <1>6. OutcomesFollow(s)'
    BY <1>u, <1>p DEF Inv, OutcomesFollow, NewCairo, sessionVars
  <1>. QED
    BY <1>3, <1>4, <1>5, <1>6 DEF Inv

\* A minimal session whose classes are stored says so.
LEMMA SucceedKeeps ==
    ASSUME AllInv, NEW s \in Ids, Succeed(s)
    PROVE  Inv(s)' /\ RowsStay(s)
  <1>. USE KnownOf
  <1>p. /\ pc[s] = "succeed" /\ s \in Minimal /\ pc'[s] \in {"insertAll", "done"}
        /\ todo'[s] = built[s]
    BY DEF Succeed, Goto, TypeOK, HandlerPC, TaskPC, EndPC
  <1>u. UNCHANGED <<files, contract_classes, decision, built, outcome, current,
                    verification_status>>
    BY DEF Succeed
  <1>b. built[s] \subseteq Hashes
    BY DEF TypeOK
  <1>3. SessionFollows(s)'
    <2>1. StoringInv(s)'
      BY <1>u, <1>p DEF Inv, SessionFollows, StoringInv
    <2>2. MinimalInv(s)'
      BY <1>u, <1>p DEF Inv, SessionFollows, MinimalInv, MinimalPC, EndPC
    <2>. QED
      BY <1>p, <2>1, <2>2 DEF SessionFollows
  <1>4. RowsVerified(s)' /\ RowsStay(s)
    BY <1>u DEF Inv, RowsVerified, RowsStay
  <1>5. RowsFollow(s)'
    BY <1>u, <1>p, <1>b DEF Inv, RowsFollow, TaskPC, MinimalPC
  <1>6. OutcomesFollow(s)'
    BY <1>u, <1>p DEF Inv, OutcomesFollow, NewCairo
  <1>. QED
    BY <1>3, <1>4, <1>5, <1>6 DEF Inv

\* The status rows of a minimal session are written once, of verified classes.
LEMMA InsertAllKeeps ==
    ASSUME AllInv, NEW s \in Ids, InsertAll(s)
    PROVE  Inv(s)' /\ RowsStay(s)
  <1>. USE KnownOf
  <1>1. PICK c \in todo[s] :
            /\ insert_verification_status(s, c, "success") \/ Lost(verification_status)
            /\ todo' = [todo EXCEPT ![s] = @ \ {c}]
            /\ Goto(s, IF todo[s] = {c} THEN "done" ELSE "insertAll")
    BY DEF InsertAll
  <1>2. c \in Hashes /\ todo[s] \subseteq Hashes
    BY DEF TypeOK
  <1>p. /\ pc[s] = "insertAll" /\ s \in Minimal /\ pc'[s] \in {"insertAll", "done"}
        /\ todo'[s] = todo[s] \ {c}
    BY <1>1 DEF InsertAll, Goto, TypeOK, HandlerPC, TaskPC, EndPC
  <1>u. UNCHANGED <<files, contract_classes, decision, built, outcome, current,
                    verification_requests>>
    BY DEF InsertAll
  <1>v. /\ \A d \in Hashes \ {c} : verification_status'[s][d] = verification_status[s][d]
        /\ verification_status'[s][c] \in {verification_status[s][c], "success"}
    BY <1>1, <1>2 DEF insert_verification_status, Lost, TypeOK, StoreTypeOK
  <1>n. verification_status[s][c] = "none" /\ c \in contract_classes
    BY <1>p DEF Inv, RowsFollow, SessionFollows, MinimalInv
  <1>3. SessionFollows(s)'
    <2>1. StoringInv(s)'
      BY <1>u, <1>p DEF Inv, SessionFollows, StoringInv
    <2>2. MinimalInv(s)'
      BY <1>u, <1>p DEF Inv, SessionFollows, MinimalInv, MinimalPC, EndPC
    <2>. QED
      BY <1>p, <2>1, <2>2 DEF SessionFollows
  <1>4. RowsVerified(s)' /\ RowsStay(s)
    BY <1>u, <1>v, <1>n, <1>2 DEF Inv, RowsVerified, RowsStay
  <1>5. RowsFollow(s)'
    BY <1>u, <1>v, <1>p, <1>2 DEF Inv, RowsFollow, TaskPC, MinimalPC
  <1>6. OutcomesFollow(s)'
    BY <1>u, <1>p DEF Inv, OutcomesFollow, NewCairo
  <1>. QED
    BY <1>3, <1>4, <1>5, <1>6 DEF Inv

\* The start of a minimal session.
LEMMA MinimalArriveKeeps ==
    ASSUME AllInv, NEW s \in Minimal, MinimalArrive(s)
    PROVE  Inv(s)' /\ RowsStay(s)
  <1>s. s \in Ids
    BY SessionsAssumption
  <1>. USE KnownOf, <1>s
  <1>p. /\ pc[s] = "idle" /\ pc'[s] \in {"buildAll", "dropped"}
        /\ todo'[s] = built'[s]
    BY DEF MinimalArrive, Goto, TypeOK
  <1>u. UNCHANGED <<files, contract_classes, decision, outcome, current, verification_status>>
    BY DEF MinimalArrive
  <1>v. verification_requests'[s] # "success"
    BY <1>p DEF MinimalArrive, insert_verification_request, Lost, TypeOK, StoreTypeOK, Inv,
       SessionFollows, MinimalInv
  <1>3. SessionFollows(s)'
    <2>1. StoringInv(s)'
      BY <1>u, <1>p DEF Inv, SessionFollows, StoringInv
    <2>2. MinimalInv(s)'
      BY <1>u, <1>p, <1>v DEF Inv, SessionFollows, MinimalInv, MinimalPC, EndPC
    <2>. QED
      BY <1>p, <2>1, <2>2 DEF SessionFollows
  <1>4. RowsVerified(s)' /\ RowsStay(s)
    BY <1>u DEF Inv, RowsVerified, RowsStay
  <1>5. RowsFollow(s)'
    BY <1>u, <1>p DEF Inv, RowsFollow, TaskPC, MinimalPC
  <1>6. OutcomesFollow(s)'
    BY <1>u, <1>p DEF Inv, OutcomesFollow, NewCairo
  <1>. QED
    BY <1>3, <1>4, <1>5, <1>6 DEF Inv

-----------------------------------------------------------------------------
(* The step of the system                                                  *)

\* A step of the acting session, whichever it is.
LEMMA ActorKeeps ==
    ASSUME AllInv, NEW s \in Ids,
           \/ s \in Full /\ (Arrive(s) \/ Handler(s) \/ Disconnect(s))
           \/ s \in Minimal /\ MinimalArrive(s)
           \/ Task(s)
    PROVE  Inv(s)' /\ RowsStay(s)
  <1>1. CASE s \in Full /\ (Arrive(s) \/ Handler(s) \/ Disconnect(s))
    BY <1>1, DecideKeeps, MovesKeeps, InsertStatusKeeps DEF Handler
  <1>2. CASE s \in Minimal /\ MinimalArrive(s)
    BY <1>2, MinimalArriveKeeps
  <1>3. CASE Task(s)
    BY <1>3, FetchKeeps, ProfileKeeps, FindVerifiedKeeps, EndBuildKeeps, MovesKeeps, CleanupKeeps,
       UploadKeeps, InsertClassKeeps, RecordKeeps, FailRequestKeeps, FailStatusesKeeps,
       EndBuildAllKeeps, TidyKeeps, SucceedKeeps, InsertAllKeeps DEF Task
  <1>. QED
    BY <1>1, <1>2, <1>3

\* A restart leaves the store, and asks for nothing of the sessions it ends.
LEMMA CrashKeeps ==
    ASSUME AllInv, NEW s \in Ids, Crash
    PROVE  Inv(s)' /\ RowsStay(s)
  <1>. USE KnownOf
  <1>p. /\ pc'[s] \in {pc[s], "crashed"}
        /\ pc'[s] = pc[s] => pc[s] \in EndPC \cup {"crashed"}
    BY DEF Crash
  <1>u. UNCHANGED <<storeVars, sessionVars>>
    BY DEF Crash
  <1>3. SessionFollows(s)'
    BY <1>u, <1>p DEF Inv, SessionFollows, StoringInv, MinimalInv, ToStore, ToRecord, storeVars,
       sessionVars, EndPC
  <1>4. RowsVerified(s)' /\ RowsStay(s)
    BY <1>u DEF Inv, RowsVerified, RowsStay, storeVars
  <1>5. RowsFollow(s)'
    BY <1>u, <1>p DEF Inv, RowsFollow, TaskPC, MinimalPC, EndPC, storeVars, sessionVars
  <1>6. OutcomesFollow(s)'
    BY <1>u, <1>p DEF Inv, OutcomesFollow, NewCairo, sessionVars, EndPC
  <1>. QED
    BY <1>3, <1>4, <1>5, <1>6 DEF Inv

\* Every step keeps the types, given that the class a session inserts is one.
LEMMA StepType ==
    ASSUME AllInv, Next
    PROVE  TypeOK'
  <1>. USE SessionsAssumption DEF AllInv
  <1>1. ASSUME NEW s \in Ids, Task(s)
        PROVE  TypeOK'
    <2>1. pc[s] = "insertClass" => current[s] \in Hashes
      BY DEF Inv, SessionFollows, TypeOK
    <2>. QED
      BY <1>1, <2>1, BuildType, StoringType, RecordingType DEF Task
  <1>2. ASSUME NEW s \in Full, Arrive(s) \/ Handler(s) \/ Disconnect(s)
        PROVE  TypeOK'
    BY <1>2, HandlerType
  <1>3. ASSUME NEW s \in Minimal, MinimalArrive(s)
        PROVE  TypeOK'
    BY <1>3, MinimalArriveType
  <1>. QED
    BY <1>1, <1>2, <1>3, CrashType DEF Next

\* Only InsertClass adds a class, the one that its session uploaded.
LEMMA StepHasFile ==
    ASSUME AllInv, Next
    PROVE  VerifiedHasFile'
  <1>. USE SessionsAssumption DEF AllInv
  <1>1. ASSUME NEW s \in Ids, InsertClass(s)
        PROVE  VerifiedHasFile'
    BY <1>1 DEF InsertClass, insert_contract_class, VerifiedHasFile, Inv, SessionFollows
  <1>2. CASE UNCHANGED contract_classes /\ files \subseteq files'
    BY <1>2 DEF VerifiedHasFile
  <1>3. ASSUME NEW s \in Ids,
               Arrive(s) \/ Handler(s) \/ Disconnect(s) \/ MinimalArrive(s) \/ Task(s),
               ~InsertClass(s)
        PROVE  UNCHANGED contract_classes /\ files \subseteq files'
    BY <1>3 DEF Arrive, Handler, Disconnect, MinimalArrive, Task, ReadInline, ReadStatuses,
       ReadVerified, ReadFails, InsertStatus, Spawn, FetchClasses, InsertProfile, FindVerified,
       EndBuild, BuildFails, Cleanup, CleanupFails, Upload, upload_class_to_s3, StoreFails,
       Record, FailRequest, FailStatuses, EndBuildAll, Tidy, Succeed, InsertAll, FailAll, Moves,
       storeVars
  <1>4. Crash => UNCHANGED contract_classes /\ files \subseteq files'
    BY DEF Crash, storeVars
  <1>. QED
    BY <1>1, <1>2, <1>3, <1>4 DEF Next

\* Every step keeps the invariant, and the final rows of every session.
LEMMA StepKeeps ==
    ASSUME AllInv, Next
    PROVE  AllInv' /\ \A t \in Ids : RowsStay(t)
  <1>. SUFFICES ASSUME NEW t \in Ids
                PROVE  Inv(t)' /\ RowsStay(t)
    BY StepType, StepHasFile DEF AllInv
  <1>1. ASSUME NEW s \in Ids,
               \/ s \in Full /\ (Arrive(s) \/ Handler(s) \/ Disconnect(s))
               \/ s \in Minimal /\ MinimalArrive(s)
               \/ Task(s)
        PROVE  Inv(t)' /\ RowsStay(t)
    <2>1. CASE t = s
      BY <1>1, <2>1, ActorKeeps
    <2>2. CASE t # s
      <3>1. Untouched(t) /\ Grows
        BY <1>1, <2>2, OthersUntouched DEF AllInv
      <3>. QED
        BY <3>1, UntouchedKeeps DEF AllInv
    <2>. QED
      BY <2>1, <2>2
  <1>2. CASE Crash
    BY <1>2, CrashKeeps
  <1>. QED
    BY <1>1, <1>2, SessionsAssumption DEF Next

-----------------------------------------------------------------------------
(* The theorems                                                            *)

\* Nothing is stored, decided or recorded at first.
LEMMA InitKeeps ==
    ASSUME Init
    PROVE  AllInv
  <1>1. TypeOK
    BY BoundsAssumption, StoreAssumption
       DEF Init, StoreInit, TypeOK, StoreTypeOK, Status, EndPC
  <1>2. VerifiedHasFile
    BY DEF Init, StoreInit, VerifiedHasFile
  <1>3. ASSUME NEW s \in Ids
        PROVE  Inv(s)
    <2>1. SessionFollows(s)
      BY DEF Init, StoreInit, SessionFollows, StoringInv, MinimalInv, ToStore, ToRecord, EndPC
    <2>2. RowsVerified(s)
      BY DEF Init, StoreInit, RowsVerified
    <2>3. RowsFollow(s)
      BY DEF Init, StoreInit, RowsFollow, MinimalPC, TaskPC
    <2>4. OutcomesFollow(s)
      BY DEF Init, StoreInit, OutcomesFollow
    <2>. QED
      BY <2>1, <2>2, <2>3, <2>4 DEF Inv
  <1>. QED
    BY <1>1, <1>2, <1>3 DEF AllInv

\* A step that changes nothing keeps the invariant.
LEMMA StutterKeeps ==
    ASSUME AllInv, UNCHANGED vars
    PROVE  AllInv'
  BY DEF AllInv, TypeOK, StoreTypeOK, VerifiedHasFile, Inv, SessionFollows, StoringInv, MinimalInv,
     RowsVerified, RowsFollow, OutcomesFollow, ToStore, ToRecord, NewCairo, vars, storeVars,
     sessionVars

\* The inductive invariant holds in every state.
THEOREM Invariant == Spec => []AllInv
  <1>1. Init => AllInv
    BY InitKeeps
  <1>2. AllInv /\ [Next]_vars => AllInv'
    BY StepKeeps, StutterKeeps
  <1>. QED
    BY <1>1, <1>2, PTL DEF Spec

\* The tables and the sessions are well typed: no status is ever written that
\* the queries of the server do not know.
THEOREM TypeCorrect == Spec => []TypeOK
  <1>1. AllInv => TypeOK
    BY DEF AllInv
  <1>. QED
    BY <1>1, Invariant, PTL

\* However many sessions interleave, and wherever they stop, a class that a
\* session put in contract_classes has its file in the bucket.
THEOREM VerifiedHasFileCorrect == Spec => []VerifiedHasFile
  <1>1. AllInv => VerifiedHasFile
    BY DEF AllInv
  <1>. QED
    BY <1>1, Invariant, PTL

\* A status row says "success" only of a class in contract_classes.
THEOREM SuccessIsVerifiedCorrect == Spec => []SuccessIsVerified
  <1>1. AllInv => SuccessIsVerified
    BY DEF AllInv, Inv, RowsVerified, SuccessIsVerified
  <1>. QED
    BY <1>1, Invariant, PTL

\* A minimal session's request is successful only with all that it built
\* verified.
THEOREM MinimalSuccessIsStoredCorrect == Spec => []MinimalSuccessIsStored
  <1>1. AllInv => MinimalSuccessIsStored
    BY SessionsAssumption DEF AllInv, Inv, SessionFollows, MinimalInv, MinimalSuccessIsStored
  <1>. QED
    BY <1>1, Invariant, PTL

\* The decisions, the outcomes and the loop that stores classes agree with the
\* store at every place of every session.
THEOREM SessionInvCorrect == Spec => []SessionInv
  <1>1. AllInv => SessionInv
    BY SessionsAssumption DEF AllInv, Inv, SessionFollows, SessionInv, UploadedFirst
  <1>. QED
    BY <1>1, Invariant, PTL

\* The rows of a session follow its decisions until it records its outcomes,
\* which go against no final decision.
THEOREM RowInvCorrect == Spec => []RowInv
  <1>1. AllInv => RowInv
    BY DEF AllInv, Inv, RowInv
  <1>. QED
    BY <1>1, Invariant, PTL

\* A row that says "success" or "failed" is never written again with another
\* status, by its own session or by any other.
THEOREM FinalStatusStaysCorrect == Spec => FinalStatusStays
  <1>. DEFINE Stays == \A id \in Ids, c \in Hashes :
                  verification_status[id][c] \in {"success", "failed"} =>
                     verification_status'[id][c] = verification_status[id][c]
  <1>1. AllInv /\ [Next]_vars => [Stays]_vars
    BY StepKeeps DEF RowsStay
  <1>. QED
    BY <1>1, Invariant, PTL DEF Spec, FinalStatusStays

-----------------------------------------------------------------------------
(* The simulation cache *)

\* `x` may be the answer to request `r`.
Answers(x, r) ==
    /\ x.kind = Kind(r)
    /\ x.tx = r.tx
    /\ r.api # "rpcHash" => x.rpc = r.rpc

\* An entry may answer every request with its key, at whatever block.
EntriesAnswer ==
    \A r \in SimRequests, b \in Blocks :
        entries[CacheKey(r, b)] # Nothing => Answers(entries[CacheKey(r, b)].result, r)

\* A task has found what answers its request and nothing before it has asked;
\* what it is about to cache is the result of its own request.
TasksAnswer ==
    \A t \in Tasks :
        /\ found[t] # Nothing => Answers(found[t].result, req[t])
        /\ taskPc[t] = "idle" => found[t] = Nothing
        /\ taskPc[t] \in {"fetch", "insert"} =>
              /\ result[t] \in Result
              /\ result[t].kind = Kind(req[t])
              /\ result[t].tx = req[t].tx
              /\ result[t].rpc = req[t].rpc

CacheInv == CacheTypeOK /\ EntriesAnswer /\ TasksAnswer

\* Two requests with one key are of the same kind and transaction, and of the
\* same chain unless the second names none.
LEMMA KeysSeparate ==
    ASSUME NEW r \in SimRequests, NEW b \in Blocks, NEW q \in SimRequests, NEW d \in Blocks,
           CacheKey(r, b) = CacheKey(q, d)
    PROVE  /\ Kind(r) = Kind(q)
           /\ r.tx = q.tx
           /\ q.api # "rpcHash" => r.rpc = q.rpc
<1>1. r \in RequestType /\ q \in RequestType
    BY SimRequestsAssumption
<1>2. CASE ByArgs(r) /\ ByArgs(q)
    <2>1. <<r.api, r.tx, r.rpc, b>> = <<q.api, q.tx, q.rpc, d>>
        BY <1>2 DEF CacheKey
    <2>2. r.api = q.api /\ r.tx = q.tx /\ r.rpc = q.rpc
        BY <2>1
    <2> QED BY <2>2 DEF Kind
<1>3. CASE ~ByArgs(r) /\ ~ByArgs(q)
    <2>1. r.tx = q.tx
          /\ (IF r.api = "chainHash" THEN r.rpc ELSE "starknet")
                = (IF q.api = "chainHash" THEN q.rpc ELSE "starknet")
        BY <1>3 DEF CacheKey
    <2>2. r.api \in {"chainHash", "rpcHash"} /\ q.api \in {"chainHash", "rpcHash"}
        BY <1>1, <1>3 DEF ByArgs, RequestType
    <2>3. q.rpc # "starknet"
        BY <1>1, RpcsAssumption DEF RequestType
    <2> QED BY <2>1, <2>2, <2>3 DEF Kind
<1>4. CASE ByArgs(r) /\ ~ByArgs(q)
    <2>1. CacheKey(r, b)[1] \in {"calldata", "debug"}
        BY <1>4 DEF CacheKey, ByArgs
    <2>2. CacheKey(q, d)[1] = "hash"
        BY <1>4 DEF CacheKey
    <2> QED BY <2>1, <2>2
<1>5. CASE ~ByArgs(r) /\ ByArgs(q)
    <2>1. CacheKey(q, d)[1] \in {"calldata", "debug"}
        BY <1>5 DEF CacheKey, ByArgs
    <2>2. CacheKey(r, b)[1] = "hash"
        BY <1>5 DEF CacheKey
    <2> QED BY <2>1, <2>2
<1> QED BY <1>2, <1>3, <1>4, <1>5

LEMMA KeyInKeys ==
    ASSUME CacheTypeOK, NEW t \in Tasks
    PROVE  Key(t) \in Keys
BY DEF CacheTypeOK, Key, Keys

\* A request that any task may have.
LEMMA SomeRequest == (CHOOSE r \in SimRequests : TRUE) \in SimRequests
BY SimRequestsAssumption

LEMMA InitInv == CacheInit => CacheInv
<1> SUFFICES ASSUME CacheInit PROVE CacheInv
    OBVIOUS
<1>1. CacheTypeOK
    BY SomeRequest, CacheBoundsAssumption DEF CacheInit, CacheTypeOK, EntryType, SimPC, Blocks
<1>2. EntriesAnswer
    BY DEF CacheInit, EntriesAnswer, Keys
<1>3. TasksAnswer
    BY DEF CacheInit, TasksAnswer
<1> QED BY <1>1, <1>2, <1>3 DEF CacheInv

\* A task that ends leaves the invariant as far as it is about tasks.
LEMMA EndKeeps ==
    ASSUME CacheInv, NEW t \in Tasks, End(t)
    PROVE  /\ taskPc' \in [Tasks -> SimPC]
           /\ req' \in [Tasks -> SimRequests]
           /\ keyBlock' \in [Tasks -> Blocks]
           /\ found' \in [Tasks -> EntryType]
           /\ result' \in [Tasks -> Result \cup {Nothing}]
           /\ TasksAnswer'
<1>1. 0 \in Blocks
    BY CacheBoundsAssumption DEF Blocks
<1>2. /\ taskPc' \in [Tasks -> SimPC]
      /\ req' \in [Tasks -> SimRequests]
      /\ keyBlock' \in [Tasks -> Blocks]
      /\ found' \in [Tasks -> EntryType]
      /\ result' \in [Tasks -> Result \cup {Nothing}]
    BY <1>1, SomeRequest DEF CacheInv, CacheTypeOK, End, TaskGoto, SimPC, EntryType
<1>3. TasksAnswer'
    BY DEF CacheInv, CacheTypeOK, TasksAnswer, End, TaskGoto, Answers
<1> QED BY <1>2, <1>3

\* What no step of this kind touches.
LEMMA EntriesStay ==
    ASSUME EntriesAnswer, UNCHANGED entries
    PROVE  EntriesAnswer'
BY DEF EntriesAnswer, Answers

LEMMA ArriveInv ==
    ASSUME CacheInv, NEW t \in Tasks, Ask(t)
    PROVE  CacheInv'
<1>1. CacheTypeOK'
    BY DEF CacheInv, CacheTypeOK, Ask, TaskGoto, SimPC
<1>2. TasksAnswer'
    BY DEF CacheInv, CacheTypeOK, TasksAnswer, Ask, TaskGoto, Answers
<1> QED BY <1>1, <1>2, EntriesStay DEF CacheInv, Ask

LEMMA ResolveInv ==
    ASSUME CacheInv, NEW t \in Tasks, resolve_block_number(t)
    PROVE  CacheInv'
<1>1. CASE End(t)
    BY <1>1, EndKeeps, EntriesStay DEF CacheInv, CacheTypeOK, resolve_block_number
<1>2. CASE keyBlock' = [keyBlock EXCEPT ![t] = BlockNow(req[t])] /\ TaskGoto(t, "get")
           /\ UNCHANGED <<req, found, result>>
    <2>1. BlockNow(req[t]) \in Blocks
        BY SimRequestsAssumption DEF CacheInv, CacheTypeOK, BlockNow, RequestType
    <2>2. CacheTypeOK'
        BY <1>2, <2>1 DEF CacheInv, CacheTypeOK, resolve_block_number, TaskGoto, SimPC
    <2>3. TasksAnswer'
        BY <1>2 DEF CacheInv, CacheTypeOK, TasksAnswer, resolve_block_number, TaskGoto, Answers
    <2> QED BY <2>2, <2>3, EntriesStay DEF CacheInv, resolve_block_number
<1> QED BY <1>1, <1>2 DEF resolve_block_number

\* What is read under a request's key answers the request.
LEMMA GetInv ==
    ASSUME CacheInv, NEW t \in Tasks, Get(t)
    PROVE  CacheInv'
<1>1. /\ entries[Key(t)] \in EntryType
      /\ entries[Key(t)] # Nothing => Answers(entries[Key(t)].result, req[t])
    BY KeyInKeys DEF CacheInv, CacheTypeOK, EntriesAnswer, Key
<1>2. PICK l \in {"simulate", "invalidate", "check"} : taskPc' = [taskPc EXCEPT ![t] = l]
    <2>1. entries[Key(t)].state \in {"absent", "fresh", "expired"}
        BY <1>1 DEF EntryType, Nothing
    <2>2. taskPc' = [taskPc EXCEPT ![t] = CASE entries[Key(t)].state = "absent" -> "simulate"
                                    [] entries[Key(t)].state = "expired" -> "invalidate"
                                    [] entries[Key(t)].state = "fresh" -> "check"]
        BY DEF Get, TaskGoto
    <2> QED BY <2>1, <2>2
<1>3. CacheTypeOK'
    BY <1>1, <1>2 DEF CacheInv, CacheTypeOK, Get, SimPC
<1>4. TasksAnswer'
    BY <1>1, <1>2 DEF CacheInv, CacheTypeOK, TasksAnswer, Get, Answers
<1> QED BY <1>3, <1>4, EntriesStay DEF CacheInv, Get

LEMMA HitInv ==
    ASSUME CacheInv, NEW t \in Tasks, Hit(t)
    PROVE  CacheInv'
<1>1. CASE End(t)
    BY <1>1, EndKeeps, EntriesStay DEF CacheInv, CacheTypeOK, Hit
<1>2. CASE TaskGoto(t, "simulate") /\ UNCHANGED <<req, keyBlock, found, result>>
    <2>1. CacheTypeOK'
        BY <1>2 DEF CacheInv, CacheTypeOK, Hit, TaskGoto, SimPC
    <2>2. TasksAnswer'
        BY <1>2 DEF CacheInv, CacheTypeOK, TasksAnswer, Hit, TaskGoto, Answers
    <2> QED BY <2>1, <2>2, EntriesStay DEF CacheInv, Hit
<1> QED BY <1>1, <1>2 DEF Hit

LEMMA OutdateInv ==
    ASSUME CacheInv, NEW t \in Tasks, Outdate(t)
    PROVE  CacheInv'
<1>1. CacheTypeOK'
    BY DEF CacheInv, CacheTypeOK, Outdate, TaskGoto, SimPC
<1>2. TasksAnswer'
    BY DEF CacheInv, CacheTypeOK, TasksAnswer, Outdate, TaskGoto, Answers
<1> QED BY <1>1, <1>2, EntriesStay DEF CacheInv, Outdate

LEMMA InvalidateInv ==
    ASSUME CacheInv, NEW t \in Tasks, Invalidate(t)
    PROVE  CacheInv'
<1>1. CacheTypeOK'
    BY DEF CacheInv, CacheTypeOK, Invalidate, TaskGoto, SimPC, EntryType
<1>2. EntriesAnswer'
    BY DEF CacheInv, CacheTypeOK, EntriesAnswer, Invalidate, Answers, Keys
<1>3. TasksAnswer'
    BY DEF CacheInv, CacheTypeOK, TasksAnswer, Invalidate, TaskGoto, Answers
<1> QED BY <1>1, <1>2, <1>3 DEF CacheInv

LEMMA SimulateInv ==
    ASSUME CacheInv, NEW t \in Tasks, Simulate(t)
    PROVE  CacheInv'
<1>1. CASE End(t)
    BY <1>1, EndKeeps, EntriesStay DEF CacheInv, CacheTypeOK, Simulate
<1>2. ASSUME NEW shows \in SUBSET (Uses[req[t].tx] \cap verified),
             result' = [result EXCEPT ![t] =
                 [kind |-> Kind(req[t]), tx |-> req[t].tx, rpc |-> req[t].rpc,
                  block |-> IF ByArgs(req[t]) THEN BlockNow(req[t]) ELSE req[t].block,
                  shows |-> shows, atCache |-> {}]],
             TaskGoto(t, "fetch"), UNCHANGED <<req, keyBlock, found>>
      PROVE  CacheInv'
    <2>1. req[t] \in RequestType
        BY SimRequestsAssumption DEF CacheInv, CacheTypeOK
    <2>2. result'[t] \in Result
        <3>1. (IF ByArgs(req[t]) THEN BlockNow(req[t]) ELSE req[t].block) \in Blocks \cup {Latest}
            BY <2>1 DEF CacheInv, CacheTypeOK, BlockNow, RequestType
        <3>2. Kind(req[t]) \in {"Simulation", "Debug"}
            BY DEF Kind
        <3>3. shows \in SUBSET Classes
            BY DEF CacheInv, CacheTypeOK
        <3>4. req[t].tx \in Txs /\ req[t].rpc \in Rpcs
            BY <2>1 DEF RequestType
        <3> QED BY <1>2, <3>1, <3>2, <3>3, <3>4 DEF CacheInv, CacheTypeOK, Result
    <2>3. CacheTypeOK'
        BY <1>2, <2>2 DEF CacheInv, CacheTypeOK, Simulate, TaskGoto, SimPC
    <2>4. TasksAnswer'
        BY <1>2, <2>2 DEF CacheInv, CacheTypeOK, TasksAnswer, TaskGoto, Answers
    <2> QED BY <2>3, <2>4, EntriesStay DEF CacheInv, Simulate
<1> QED BY <1>1, <1>2 DEF Simulate

LEMMA FetchInv ==
    ASSUME CacheInv, NEW t \in Tasks, FetchVerified(t)
    PROVE  CacheInv'
<1>1. PICK known \in {{}, Uses[req[t].tx] \cap verified} :
          result' = [result EXCEPT ![t].atCache = known]
    BY DEF FetchVerified
<1>2. known \in SUBSET Classes
    BY DEF CacheInv, CacheTypeOK
<1>3. result[t] \in Result
    BY DEF CacheInv, TasksAnswer, FetchVerified
<1>4. /\ result'[t] \in Result
      /\ result'[t].kind = result[t].kind
      /\ result'[t].tx = result[t].tx
      /\ result'[t].rpc = result[t].rpc
    BY <1>1, <1>2, <1>3 DEF CacheInv, CacheTypeOK, Result
<1>5. \A u \in Tasks \ {t} : result'[u] = result[u]
    BY <1>1 DEF CacheInv, CacheTypeOK
<1>6. result' \in [Tasks -> Result \cup {Nothing}]
    BY <1>1, <1>4, <1>5 DEF CacheInv, CacheTypeOK
<1>7. CacheTypeOK'
    BY <1>6 DEF CacheInv, CacheTypeOK, FetchVerified, TaskGoto, SimPC
<1>8. TasksAnswer'
    BY <1>4, <1>5 DEF CacheInv, CacheTypeOK, TasksAnswer, FetchVerified, TaskGoto, Answers
<1> QED BY <1>7, <1>8, EntriesStay DEF CacheInv, FetchVerified

\* What is cached under a key answers every request that has this key.
LEMMA InsertInv ==
    ASSUME CacheInv, NEW t \in Tasks, Insert(t)
    PROVE  CacheInv'
<1>1. /\ result[t] \in Result
      /\ result[t].kind = Kind(req[t])
      /\ result[t].tx = req[t].tx
      /\ result[t].rpc = req[t].rpc
    BY DEF CacheInv, TasksAnswer, Insert
<1> DEFINE new == [state |-> "fresh", result |-> result[t]]
<1>2. entries' = [entries EXCEPT ![Key(t)] = new] /\ End(t)
    BY DEF Insert
<1>3. new \in EntryType
    BY <1>1 DEF EntryType
<1>4. entries' \in [Keys -> EntryType]
    BY <1>2, <1>3 DEF CacheInv, CacheTypeOK
<1>5. CacheTypeOK'
    BY <1>2, <1>4, EndKeeps DEF CacheInv, CacheTypeOK, Insert
<1>6. EntriesAnswer'
    <2> SUFFICES ASSUME NEW r \in SimRequests, NEW b \in Blocks,
                        entries'[CacheKey(r, b)] # Nothing
                 PROVE  Answers(entries'[CacheKey(r, b)].result, r)
        BY DEF EntriesAnswer
    <2>1. CacheKey(r, b) \in Keys
        BY DEF Keys
    <2>2. CASE CacheKey(r, b) # Key(t)
        BY <1>2, <2>1, <2>2 DEF CacheInv, CacheTypeOK, EntriesAnswer
    <2>3. CASE CacheKey(r, b) = Key(t)
        <3>1. entries'[CacheKey(r, b)].result = result[t]
            BY <1>2, <2>1, <2>3 DEF CacheInv, CacheTypeOK
        <3>2. req[t] \in SimRequests /\ keyBlock[t] \in Blocks
            BY DEF CacheInv, CacheTypeOK
        <3>3. /\ Kind(req[t]) = Kind(r)
              /\ req[t].tx = r.tx
              /\ r.api # "rpcHash" => req[t].rpc = r.rpc
            BY <2>3, <3>2, KeysSeparate DEF Key
        <3> QED BY <1>1, <3>1, <3>3 DEF Answers
    <2> QED BY <2>2, <2>3
<1>7. TasksAnswer'
    BY <1>2, EndKeeps
<1> QED BY <1>5, <1>6, <1>7 DEF CacheInv

\* An entry that lapses is gone or the same but for its state.
LEMMA LapseInv ==
    ASSUME CacheInv, Lapse
    PROVE  CacheInv'
<1>1. PICK k \in Keys : \E e \in {Nothing, [entries[k] EXCEPT !.state = "expired"]} :
          entries[k].state = "fresh" /\ entries' = [entries EXCEPT ![k] = e]
    BY DEF Lapse
<1>0. PICK e \in {Nothing, [entries[k] EXCEPT !.state = "expired"]} :
          entries[k].state = "fresh" /\ entries' = [entries EXCEPT ![k] = e]
    BY <1>1
<1>2. entries[k] \in [state: {"fresh", "expired"}, result: Result]
    BY <1>0 DEF CacheInv, CacheTypeOK, EntryType, Nothing
<1>3. e \in EntryType /\ (e # Nothing => entries[k] # Nothing /\ e.result = entries[k].result)
    BY <1>0, <1>2 DEF EntryType, Nothing
<1>4. CacheTypeOK'
    BY <1>0, <1>3, CacheBoundsAssumption DEF CacheInv, CacheTypeOK, Lapse
<1>5. EntriesAnswer'
    <2> SUFFICES ASSUME NEW r \in SimRequests, NEW b \in Blocks,
                        entries'[CacheKey(r, b)] # Nothing
                 PROVE  Answers(entries'[CacheKey(r, b)].result, r)
        BY DEF EntriesAnswer
    <2>1. CacheKey(r, b) \in Keys
        BY DEF Keys
    <2>2. entries[CacheKey(r, b)] # Nothing
          /\ entries'[CacheKey(r, b)].result = entries[CacheKey(r, b)].result
        BY <1>0, <1>3, <2>1 DEF CacheInv, CacheTypeOK
    <2> QED BY <2>2 DEF CacheInv, EntriesAnswer
<1>6. TasksAnswer'
    BY DEF CacheInv, TasksAnswer, Lapse, Answers
<1> QED BY <1>4, <1>5, <1>6 DEF CacheInv

\* Steps of others that touch neither entries nor tasks.
LEMMA OutsideInv ==
    ASSUME CacheInv, Verify \/ NewBlock
    PROVE  CacheInv'
<1>1. CacheTypeOK'
    BY CacheBoundsAssumption DEF CacheInv, CacheTypeOK, Verify, NewBlock, Blocks
<1>2. TasksAnswer'
    BY DEF CacheInv, TasksAnswer, Verify, NewBlock, Answers
<1> QED BY <1>1, <1>2, EntriesStay DEF CacheInv, Verify, NewBlock

LEMMA NextInv == CacheInv /\ [CacheNext]_cacheVars => CacheInv'
<1> SUFFICES ASSUME CacheInv, [CacheNext]_cacheVars PROVE CacheInv'
    OBVIOUS
<1>1. ASSUME NEW t \in Tasks, Ask(t) PROVE CacheInv'
    BY <1>1, ArriveInv
<1>2. ASSUME NEW t \in Tasks, Handle(t) PROVE CacheInv'
    BY <1>2, ResolveInv, GetInv, HitInv, OutdateInv, InvalidateInv, SimulateInv, FetchInv, InsertInv
       DEF Handle, CheckedHit, UncheckedHit
<1>3. CASE UNCHANGED cacheVars
    BY <1>3 DEF cacheVars, CacheInv, CacheTypeOK, EntriesAnswer, TasksAnswer, Answers
<1> QED BY <1>1, <1>2, <1>3, LapseInv, OutsideInv DEF CacheNext

\* Every reachable state has CacheInv (simulation_cache.rs, handlers/simulate.rs,
\* handlers/debugger.rs).
THEOREM CacheInvCorrect == CacheSpec => []CacheInv
<1> QED BY InitInv, NextInv, PTL DEF CacheSpec

\* The types hold; a cache key is only made with a resolved block number.
THEOREM CacheTypeCorrect == CacheSpec => []CacheTypeOK
<1>1. CacheInv => CacheTypeOK
    BY DEF CacheInv
<1> QED BY <1>1, CacheInvCorrect, PTL

\* No request reads a result of the other kind, of another transaction or,
\* unless it names no chain, of another chain: whichever tasks have filled the
\* cache, outdated, invalidated or replaced the entry in between.
THEOREM HitMatchesRequestCorrect == CacheSpec => []HitMatchesRequest
<1>1. CacheInv => HitMatchesRequest
    BY DEF CacheInv, TasksAnswer, HitMatchesRequest, Answers
<1> QED BY <1>1, CacheInvCorrect, PTL

-----------------------------------------------------------------------------
(* Both in one server                                                      *)

\* What the cache assumes of a verification (its action Verify): one class more.
ClassVerified == \E c \in Hashes \ contract_classes : contract_classes' = contract_classes \cup {c}

\* Whatever session steps, and wherever others stand, the table grows by one
\* class or stays.
LEMMA StepVerifies ==
    ASSUME AllInv, Next
    PROVE  ClassVerified \/ UNCHANGED contract_classes
  <1>. USE SessionsAssumption DEF AllInv
  <1>1. ASSUME NEW s \in Ids, InsertClass(s)
        PROVE  ClassVerified \/ UNCHANGED contract_classes
    <2>1. current[s] \in Hashes
      BY <1>1 DEF InsertClass, Inv, SessionFollows, TypeOK
    <2>2. contract_classes' = contract_classes \cup {current[s]}
      BY <1>1 DEF InsertClass, insert_contract_class
    <2>. QED
      BY <2>1, <2>2 DEF ClassVerified
  <1>2. ASSUME NEW s \in Ids,
               Arrive(s) \/ Handler(s) \/ Disconnect(s) \/ MinimalArrive(s) \/ Task(s),
               ~InsertClass(s)
        PROVE  UNCHANGED contract_classes
    BY <1>2 DEF Arrive, Handler, Disconnect, MinimalArrive, Task, ReadInline, ReadStatuses,
       ReadVerified, ReadFails, InsertStatus, Spawn, FetchClasses, InsertProfile, FindVerified,
       EndBuild, BuildFails, Cleanup, CleanupFails, Upload, StoreFails,
       Record, FailRequest, FailStatuses, EndBuildAll, Tidy, Succeed, InsertAll, FailAll, Moves,
       storeVars
  <1>3. Crash => UNCHANGED contract_classes
    BY DEF Crash, storeVars
  <1>. QED
    BY <1>1, <1>2, <1>3 DEF Next

\* The classes that a result shows as verified, and those it was cached with,
\* have been verified.
Shows(x) == x.shows \cup x.atCache \subseteq verified
ResultsVerified ==
    /\ \A k \in Keys : entries[k] # Nothing => Shows(entries[k].result)
    /\ \A t \in Tasks :
        /\ found[t] # Nothing => Shows(found[t].result)
        /\ result[t] # Nothing => Shows(result[t])

LEMMA ResultIsSome == Nothing \notin Result
<1>1. DOMAIN Nothing = {"state"}
    BY DEF Nothing
<1>2. \A x \in Result : "kind" \in DOMAIN x
    BY DEF Result
<1> QED BY <1>1, <1>2

LEMMA EndShows ==
    ASSUME CacheInv, ResultsVerified, NEW t \in Tasks, End(t), UNCHANGED verified
    PROVE  \A u \in Tasks :
               /\ found'[u] # Nothing => Shows(found[u].result)' /\ found'[u] = found[u]
               /\ result'[u] # Nothing => Shows(result[u])' /\ result'[u] = result[u]
BY DEF CacheInv, CacheTypeOK, ResultsVerified, End, Shows

\* No step of a task shows more than is verified, and nothing gets unverified.
LEMMA StepShows ==
    ASSUME CacheInv, ResultsVerified, [CacheNext]_cacheVars
    PROVE  ResultsVerified'
<1>. USE DEF CacheInv, CacheTypeOK
<1>1. ASSUME NEW t \in Tasks, Ask(t) PROVE ResultsVerified'
    BY <1>1 DEF Ask, ResultsVerified, Shows
<1>2. ASSUME NEW t \in Tasks, resolve_block_number(t) PROVE ResultsVerified'
    <2>1. CASE End(t)
        BY <1>2, <2>1, EndShows DEF resolve_block_number, ResultsVerified, Shows
    <2>2. CASE UNCHANGED <<found, result>>
        BY <1>2, <2>2 DEF resolve_block_number, ResultsVerified, Shows
    <2> QED BY <1>2, <2>1, <2>2 DEF resolve_block_number
<1>3. ASSUME NEW t \in Tasks, Get(t) PROVE ResultsVerified'
    BY <1>3, KeyInKeys DEF Get, ResultsVerified, Shows
<1>4. ASSUME NEW t \in Tasks, Hit(t), UNCHANGED <<entries, verified>> PROVE ResultsVerified'
    <2>1. CASE End(t)
        BY <1>4, <2>1, EndShows DEF ResultsVerified, Shows
    <2>2. CASE UNCHANGED <<found, result>>
        BY <1>4, <2>2 DEF ResultsVerified, Shows
    <2> QED BY <1>4, <2>1, <2>2 DEF Hit
<1>5. ASSUME NEW t \in Tasks, Outdate(t) PROVE ResultsVerified'
    BY <1>5 DEF Outdate, ResultsVerified, Shows
<1>6. ASSUME NEW t \in Tasks, Invalidate(t) PROVE ResultsVerified'
    BY <1>6 DEF Invalidate, ResultsVerified, Shows
<1>7. ASSUME NEW t \in Tasks, Simulate(t) PROVE ResultsVerified'
    <2>1. CASE End(t)
        BY <1>7, <2>1, EndShows DEF Simulate, ResultsVerified, Shows
    <2>2. ASSUME NEW x, x.shows \subseteq verified, x.atCache = {},
                 result' = [result EXCEPT ![t] = x], UNCHANGED found
          PROVE  ResultsVerified'
        BY <1>7, <2>2 DEF Simulate, ResultsVerified, Shows
    <2>3. CASE ~End(t)
        <3>1. PICK shows \in SUBSET (Uses[req[t].tx] \cap verified) :
                  result' = [result EXCEPT ![t] =
                      [kind |-> Kind(req[t]), tx |-> req[t].tx, rpc |-> req[t].rpc,
                       block |-> IF ByArgs(req[t]) THEN BlockNow(req[t]) ELSE req[t].block,
                       shows |-> shows, atCache |-> {}]]
            BY <1>7, <2>3 DEF Simulate
        <3> DEFINE x == [kind |-> Kind(req[t]), tx |-> req[t].tx, rpc |-> req[t].rpc,
                         block |-> IF ByArgs(req[t]) THEN BlockNow(req[t]) ELSE req[t].block,
                         shows |-> shows, atCache |-> {}]
        <3>2. x.shows \subseteq verified /\ x.atCache = {} /\ result' = [result EXCEPT ![t] = x]
            BY <3>1
        <3>3. UNCHANGED found
            BY <1>7, <2>3 DEF Simulate
        <3> HIDE DEF x
        <3> QED BY <2>2, <3>2, <3>3
    <2> QED BY <2>1, <2>3
<1>8. ASSUME NEW t \in Tasks, FetchVerified(t) PROVE ResultsVerified'
    <2>1. PICK known \in {{}, Uses[req[t].tx] \cap verified} :
              result' = [result EXCEPT ![t].atCache = known]
        BY <1>8 DEF FetchVerified
    <2>2. result[t] \in Result
        BY <1>8 DEF FetchVerified, TasksAnswer
    <2>3. result'[t].shows = result[t].shows /\ result'[t].atCache = known
        BY <2>1, <2>2 DEF Result
    <2>4. result[t] # Nothing
        BY <2>2, ResultIsSome
    <2>5. \A u \in Tasks \ {t} : result'[u] = result[u]
        BY <2>1
    <2>6. Shows(result[t])'
        BY <1>8, <2>1, <2>3, <2>4 DEF FetchVerified, ResultsVerified, Shows
    <2> QED BY <1>8, <2>5, <2>6 DEF FetchVerified, ResultsVerified, Shows
<1>9. ASSUME NEW t \in Tasks, Insert(t) PROVE ResultsVerified'
    <2>1. result[t] \in Result /\ result[t] # Nothing
        BY <1>9, ResultIsSome DEF Insert, TasksAnswer
    <2> DEFINE new == [state |-> "fresh", result |-> result[t]]
    <2>2. entries' = [entries EXCEPT ![Key(t)] = new] /\ UNCHANGED verified
        BY <1>9 DEF Insert
    <2>3. new.result.shows \cup new.result.atCache \subseteq verified
        BY <2>1, <2>2 DEF ResultsVerified, Shows
    <2> HIDE DEF new
    <2>4. \A k \in Keys : entries'[k] # Nothing => Shows(entries[k].result)'
        <3> SUFFICES ASSUME NEW k \in Keys, entries'[k] # Nothing
                     PROVE  entries'[k].result.shows \cup entries'[k].result.atCache \subseteq verified'
            BY DEF Shows
        <3>1. CASE k = Key(t)
            <4>1. entries'[k] = new
                BY <2>2, <3>1
            <4> QED BY <2>2, <2>3, <4>1
        <3>2. CASE k # Key(t)
            <4>1. entries'[k] = entries[k]
                BY <2>2, <3>2
            <4> QED BY <2>2, <4>1 DEF ResultsVerified, Shows
        <3> QED BY <3>1, <3>2
    <2> QED BY <1>9, <2>2, <2>4, EndShows DEF Insert, ResultsVerified
<1>10. CASE Verify \/ NewBlock \/ UNCHANGED cacheVars
    BY <1>10 DEF Verify, NewBlock, cacheVars, ResultsVerified, Shows
<1>11. CASE Lapse
    <2>1. PICK k \in Keys : \E e \in {Nothing, [entries[k] EXCEPT !.state = "expired"]} :
              entries[k].state = "fresh" /\ entries' = [entries EXCEPT ![k] = e]
        BY <1>11 DEF Lapse
    <2>2. PICK e \in {Nothing, [entries[k] EXCEPT !.state = "expired"]} :
              entries[k].state = "fresh" /\ entries' = [entries EXCEPT ![k] = e]
        BY <2>1
    <2>3. entries[k] \in [state: {"fresh", "expired"}, result: Result]
        BY <2>2 DEF EntryType, Nothing
    <2>4. e # Nothing => e.result = entries[k].result /\ entries[k] # Nothing
        BY <2>2, <2>3 DEF Nothing
    <2>5. UNCHANGED <<verified, found, result>>
        BY <1>11 DEF Lapse
    <2> QED BY <2>2, <2>4, <2>5 DEF ResultsVerified, Shows
<1> QED BY <1>1, <1>2, <1>3, <1>4, <1>5, <1>6, <1>7, <1>8, <1>9, <1>10, <1>11
        DEF CacheNext, Handle, CheckedHit, UncheckedHit, Hit

\* Only verified classes are shown, in the cache or on the way to a client.
LEMMA ResultsVerifiedCorrect == CacheSpec => []ResultsVerified
<1>1. CacheInit => ResultsVerified
    BY DEF CacheInit, ResultsVerified
<1>2. CacheInv /\ ResultsVerified /\ [CacheNext]_cacheVars => ResultsVerified'
    BY StepShows
<1> QED BY <1>1, <1>2, CacheInvCorrect, PTL DEF CacheSpec

\* The server runs both; the table that sessions fill is the one that tasks read.
SameTable == verified = contract_classes
Server == Spec /\ CacheSpec /\ []SameTable

\* Every class that a result shows as verified, wherever the result is, has its
\* file in the bucket.
Backed(x) == x.shows \cup x.atCache \subseteq files
ShownIsBacked ==
    /\ \A k \in Keys : entries[k] # Nothing => Backed(entries[k].result)
    /\ \A t \in Tasks :
        /\ found[t] # Nothing => Backed(found[t].result)
        /\ result[t] # Nothing => Backed(result[t])

\* A verification session, whatever it is doing and however many of them there
\* are, verifies classes as the simulation cache expects it: one by one, and for
\* good (verification/src/verification.rs, simulation_cache.rs).
THEOREM SessionsVerifyOneByOne == Spec => [][ClassVerified]_contract_classes
<1>1. AllInv /\ [Next]_vars => [ClassVerified]_contract_classes
    BY StepVerifies DEF vars, storeVars
<1> QED BY <1>1, Invariant, PTL DEF Spec

\* What a cached or fresh result shows as verified is in the table with its file,
\* whichever sessions and tasks interleave: the file is uploaded before the row,
\* the row is read before the result, and neither is removed.
THEOREM ShownIsBackedCorrect == Server => []ShownIsBacked
<1>1. ResultsVerified /\ VerifiedHasFile /\ SameTable => ShownIsBacked
    BY DEF ResultsVerified, Shows, VerifiedHasFile, SameTable, ShownIsBacked, Backed
<1> QED BY <1>1, ResultsVerifiedCorrect, VerifiedHasFileCorrect, PTL DEF Server
=============================================================================
