------------------------- MODULE VerificationWorkflow -------------------------
(***************************************************************************)
(* The verification of classes against submitted sources                   *)
(* (verification/src/{verification,helpers,minimal_verification}.rs).      *)
(* A full session is a request with class hashes: initiate_verification    *)
(* reads what is known about the classes, writes a status row for each and *)
(* spawns a task that rebuilds the sources and stores the classes whose    *)
(* hash comes out (verify_by_class_hashes).  A minimal session has sources *)
(* only (initiate_minimal_verification) and stores every class that it     *)
(* builds.  One action is the code between two awaits that touch the       *)
(* store; a client that disconnects ends a handler, a restart ends every   *)
(* session, and nobody resumes them.                                       *)
(***************************************************************************)
EXTENDS VerificationStore

CONSTANTS
    Full, Minimal,      \* bound: sessions, named by their verification id
    Requests,           \* the sets of class hashes that requests name
    MaxLost,            \* bound: writes that fail and are only logged
    MaxCrashes          \* bound: restarts of the server

ASSUME SessionsAssumption == Full \cup Minimal = Ids /\ Full \cap Minimal = {}
ASSUME RequestsAssumption == Requests \subseteq (SUBSET Hashes) \ {{}}
ASSUME BoundsAssumption == MaxLost \in Nat /\ MaxCrashes \in Nat

VARIABLES
    pc,         \* where each session is
    asked,      \* the classes the request names
    fetched,    \* of these, the classes the chain returned
    inlines,    \* of these, the classes whose inline class hash is known
    decision,   \* class_status_map: what initiate_verification decided
    built,      \* the classes the build of the sources produces
    outcome,    \* class_verification_data: what becomes of each class
    todo,       \* the classes a loop has still to handle
    current,    \* the class uploaded and not yet inserted
    lost,       \* writes lost so far (bounded by MaxLost)
    crashes     \* restarts so far (bounded by MaxCrashes)

sessionVars == <<asked, fetched, inlines, decision, built, outcome, todo, current>>
vars == <<storeVars, pc, sessionVars, lost, crashes>>

HandlerPC == {"inline", "statuses", "verified", "insert", "spawn"}
TaskPC == {"fetch", "build", "cleanup", "upload", "insertClass", "record",
           "failRequest", "fail"}
MinimalPC == {"buildAll", "upload", "insertClass", "tidy", "succeed", "insertAll",
              "failAll"}
EndPC == {"idle", "rejected", "dropped", "crashed", "done"}

\* The types of the state: a status that is none of Status would be read by no
\* query of the server.
TypeOK ==
    /\ StoreTypeOK
    /\ pc \in [Ids -> HandlerPC \cup TaskPC \cup MinimalPC \cup EndPC]
    /\ asked \in [Ids -> SUBSET Hashes]
    /\ fetched \in [Ids -> SUBSET Hashes]
    /\ inlines \in [Ids -> SUBSET Hashes]
    /\ decision \in [Ids -> [Hashes -> Status]]
    /\ built \in [Ids -> SUBSET Hashes]
    /\ outcome \in [Ids -> [Hashes -> {"none", "built", "success", "failed"}]]
    /\ todo \in [Ids -> SUBSET Hashes]
    /\ current \in [Ids -> Hashes \cup {NoHash}]
    /\ lost \in 0..MaxLost
    /\ crashes \in 0..MaxCrashes

Init ==
    /\ StoreInit
    /\ pc = [s \in Ids |-> "idle"]
    /\ asked = [s \in Ids |-> {}]
    /\ fetched = [s \in Ids |-> {}]
    /\ inlines = [s \in Ids |-> {}]
    /\ decision = [s \in Ids |-> [c \in Hashes |-> "none"]]
    /\ built = [s \in Ids |-> {}]
    /\ outcome = [s \in Ids |-> [c \in Hashes |-> "none"]]
    /\ todo = [s \in Ids |-> {}]
    /\ current = [s \in Ids |-> NoHash]
    /\ lost = 0
    /\ crashes = 0

-----------------------------------------------------------------------------
(* Steps *)

Goto(s, l) == pc' = [pc EXCEPT ![s] = l]

\* A write whose error is only logged: it may leave `v` as it is.
Lost(v) == lost < MaxLost /\ lost' = lost + 1 /\ UNCHANGED v

\* The classes the task verifies.
Pending(s) == {c \in Hashes : decision[s][c] = "pending"}

\* A step that only moves the session on.
Moves(s, from, to) ==
    /\ pc[s] = from
    /\ Goto(s, to)
    /\ UNCHANGED <<storeVars, sessionVars, lost, crashes>>

-----------------------------------------------------------------------------
(* initiate_verification *)

\* The chain is asked for every class; a class it does not return keeps the
\* status it starts with.
Arrive(s) ==
    /\ pc[s] = "idle"
    /\ \E cs \in Requests, f \in SUBSET Hashes :
          /\ f \subseteq cs
          /\ asked' = [asked EXCEPT ![s] = cs]
          /\ fetched' = [fetched EXCEPT ![s] = f]
          /\ decision' = [decision EXCEPT ![s] =
                [c \in Hashes |-> IF c \in cs THEN "pending" ELSE "none"]]
    /\ Goto(s, "inline")
    /\ UNCHANGED <<storeVars, inlines, built, outcome, todo, current, lost, crashes>>

ReadInline(s) ==
    /\ pc[s] = "inline"
    /\ inlines' = [inlines EXCEPT ![s] =
          fetch_inline_class_hashes_for_class_hashes(asked[s])]
    /\ Goto(s, "statuses")
    /\ UNCHANGED <<storeVars, asked, fetched, decision, built, outcome, todo, current,
                   lost, crashes>>

\* What the status rows say of a class.  For a class of a new Cairo version
\* the rows are read as well, but the next read decides whatever they say.
StatusVerdicts(s, c) ==
    LET rows == fetch_verification_statuses_pending_or_success(c) IN
    IF c \notin fetched[s] \/ NewCairo(c) \/ rows = {}
    THEN {decision[s][c]}
    ELSE {IF row = "pending" THEN "failed" ELSE "success" : row \in rows}

ReadStatuses(s) ==
    /\ pc[s] = "statuses"
    /\ \E d \in [Hashes -> Status] :
          /\ \A c \in Hashes : d[c] \in StatusVerdicts(s, c)
          /\ decision' = [decision EXCEPT ![s] = d]
    /\ Goto(s, "verified")
    /\ UNCHANGED <<storeVars, asked, fetched, inlines, built, outcome, todo, current,
                   lost, crashes>>

\* Whether a class is verified already, with its inline build where that is
\* known.
VerifiedVerdict(s, c) ==
    CASE c \notin fetched[s] -> decision[s][c]
      [] c \in fetched[s] \cap inlines[s] ->
            IF fetch_verified_classes({c, Inline[c]}) = {c, Inline[c]}
            THEN "success" ELSE "pending"
      [] OTHER -> IF fetch_verified_classes({c}) = {c} THEN "success" ELSE decision[s][c]

\* A request for one class is rejected when there is nothing to do for it.
ReadVerified(s) ==
    LET d == [c \in Hashes |-> VerifiedVerdict(s, c)] IN
    /\ pc[s] = "verified"
    /\ decision' = [decision EXCEPT ![s] = d]
    /\ IF Cardinality(asked[s]) = 1 /\ \E c \in asked[s] : d[c] # "pending"
       THEN Goto(s, "rejected") /\ UNCHANGED todo
       ELSE Goto(s, "insert") /\ todo' = [todo EXCEPT ![s] = asked[s]]
    /\ UNCHANGED <<storeVars, asked, fetched, inlines, built, outcome, current, lost, crashes>>

ReadFails(s) == \E l \in {"inline", "statuses", "verified"} : Moves(s, l, "rejected")

\* One status row for each class, whatever was decided.
InsertStatus(s) ==
    /\ pc[s] = "insert"
    /\ \E c \in todo[s] :
          /\ \/ insert_verification_status(s, c, decision[s][c]) /\ UNCHANGED lost
             \/ Lost(verification_status)
          /\ todo' = [todo EXCEPT ![s] = @ \ {c}]
          /\ Goto(s, IF todo[s] = {c} THEN "spawn" ELSE "insert")
    /\ UNCHANGED <<files, contract_classes, class_hash_profiles, verification_requests,
                   asked, fetched, inlines, decision, built, outcome, current, crashes>>

Spawn(s) == Moves(s, "spawn", IF Pending(s) = {} THEN "done" ELSE "fetch")

\* The client is gone: the handler is not polled again.
Disconnect(s) == \E l \in HandlerPC : Moves(s, l, "dropped")

-----------------------------------------------------------------------------
(* The task of a full session: verify_by_class_hashes and verify *)

\* The build of the sources: of new Cairo versions every class comes with its
\* inline build.
Builds(new) == {b \in SUBSET {c \in Hashes : NewCairo(c) = new} :
                   new => \A c \in b : Inline[c] \in b}

\* The task asks the chain again.  It needs one class at least, all it gets of
\* one kind of Cairo version, a manifest, a request row and a directory.
FetchClasses(s) ==
    /\ pc[s] = "fetch"
    /\ \/ /\ \E f \in (SUBSET Pending(s)) \ {{}}, new \in BOOLEAN :
                /\ \A c \in f : NewCairo(c) = new
                /\ fetched' = [fetched EXCEPT ![s] = f]
                /\ \E b \in Builds(new) :
                      /\ built' = [built EXCEPT ![s] = b]
                      /\ todo' = [todo EXCEPT ![s] = b]
          /\ insert_verification_request(s)
          /\ Goto(s, "build")
       \/ Goto(s, "failRequest") /\ UNCHANGED <<fetched, built, todo, verification_requests>>
    /\ UNCHANGED <<files, contract_classes, class_hash_profiles, verification_status,
                   asked, inlines, decision, outcome, current, lost, crashes>>

\* The classes whose rows are written next: inline builds come first, and a
\* minimal session has looked up the others by then.
NextRows(s) ==
    LET inlineBuilds == {c \in todo[s] : Inline[c] = c} IN
    IF inlineBuilds # {} THEN inlineBuilds
    ELSE {c \in todo[s] : s \in Minimal => outcome[s][c] # "none"}

\* A profile has been built: the rows of its classes are written.  A minimal
\* session stores all inline builds.
InsertProfile(s) ==
    /\ pc[s] \in {"build", "buildAll"}
    /\ \E c \in NextRows(s) :
          /\ \/ insert_class_hash_profiles(c) /\ UNCHANGED lost
             \/ Lost(class_hash_profiles)
          /\ outcome' = IF s \in Minimal /\ Inline[c] = c
                        THEN [outcome EXCEPT ![s][c] = "built"] ELSE outcome
          /\ todo' = [todo EXCEPT ![s] = @ \ {c}]
    /\ UNCHANGED <<files, contract_classes, verification_status, verification_requests, pc,
                   asked, fetched, inlines, decision, built, current, crashes>>

\* A minimal session does not store a class again that is verified before its
\* rows are written.
FindVerified(s) ==
    /\ pc[s] = "buildAll"
    /\ todo[s] # {} /\ NextRows(s) = {}
    /\ outcome' = [outcome EXCEPT ![s] = [c \in Hashes |->
          IF c \notin todo[s] THEN @[c]
          ELSE IF fetch_verified_classes({c}) = {c} THEN "success" ELSE "built"]]
    /\ UNCHANGED <<storeVars, pc, asked, fetched, inlines, decision, built, todo, current,
                   lost, crashes>>

\* A class is verified when the chain returned it and the build produced it;
\* for an old Cairo version the programs must match besides.  The inline
\* builds of the requested classes are stored with them.
Outcome(s, matching, c) ==
    CASE c \in Pending(s) -> IF c \in fetched[s] \cap matching THEN "built" ELSE "failed"
      [] \E p \in Pending(s) \cap built[s] : Inline[p] = c -> "built"
      [] OTHER -> "none"

EndBuild(s) ==
    /\ pc[s] = "build" /\ todo[s] = {}
    /\ \E matching \in SUBSET built[s] :
          /\ \A c \in built[s] : NewCairo(c) => c \in matching
          /\ outcome' = [outcome EXCEPT ![s] = [c \in Hashes |-> Outcome(s, matching, c)]]
    /\ Goto(s, "cleanup")
    /\ UNCHANGED <<storeVars, asked, fetched, inlines, decision, built, todo, current,
                   lost, crashes>>

\* A profile did not build, at any time.
BuildFails(s) ==
    \/ Moves(s, "build", "failRequest")
    \/ Moves(s, "buildAll", "failAll")

ToStore(s) == {c \in Hashes : outcome[s][c] = "built"}
ToRecord(s) == {c \in Hashes : outcome[s][c] # "none"}

\* The directory is removed first; if that fails, the request row is not
\* updated.
Cleanup(s) ==
    /\ pc[s] = "cleanup"
    /\ \/ update_verification_request(s, "success") /\ UNCHANGED lost
       \/ Lost(verification_requests)
    /\ IF ToStore(s) = {}
       THEN Goto(s, "record") /\ todo' = [todo EXCEPT ![s] = ToRecord(s)]
       ELSE Goto(s, "upload") /\ todo' = [todo EXCEPT ![s] = ToStore(s)]
    /\ UNCHANGED <<files, contract_classes, class_hash_profiles, verification_status,
                   asked, fetched, inlines, decision, built, outcome, current, crashes>>

CleanupFails(s) == Moves(s, "cleanup", "fail")

-----------------------------------------------------------------------------
(* Storing the classes, in both kinds of session *)

\* Mutant: a failed upload is logged, and the row inserted all the same.
UploadLogged(s) ==
    /\ pc[s] = "upload"
    /\ \E c \in todo[s] :
          /\ upload_class_to_s3(c) \/ UNCHANGED files
          /\ current' = [current EXCEPT ![s] = c]
    /\ Goto(s, "insertClass")
    /\ UNCHANGED <<contract_classes, class_hash_profiles, verification_status,
                   verification_requests, asked, fetched, inlines, decision, built,
                   outcome, todo, lost, crashes>>

Upload(s) ==
    /\ pc[s] = "upload"
    /\ \E c \in todo[s] :
          /\ upload_class_to_s3(c)
          /\ current' = [current EXCEPT ![s] = c]
    /\ Goto(s, "insertClass")
    /\ UNCHANGED <<contract_classes, class_hash_profiles, verification_status,
                   verification_requests, asked, fetched, inlines, decision, built,
                   outcome, todo, lost, crashes>>

InsertClass(s) ==
    LET c == current[s] IN
    /\ pc[s] = "insertClass"
    /\ insert_contract_class(c)
    /\ outcome' = [outcome EXCEPT ![s][c] = "success"]
    /\ current' = [current EXCEPT ![s] = NoHash]
    /\ IF todo[s] # {c}
       THEN Goto(s, "upload") /\ todo' = [todo EXCEPT ![s] = @ \ {c}]
       ELSE IF s \in Full
            THEN Goto(s, "record") /\ todo' = [todo EXCEPT ![s] = ToRecord(s)]
            ELSE Goto(s, "tidy") /\ todo' = [todo EXCEPT ![s] = {}]
    /\ UNCHANGED <<files, class_hash_profiles, verification_status, verification_requests,
                   asked, fetched, inlines, decision, built, lost, crashes>>

\* Mutant: the statuses are recorded although storing stopped.
StoreFailsRecorded(s) ==
    /\ pc[s] \in {"upload", "insertClass"}
    /\ Goto(s, IF s \in Full THEN "record" ELSE "tidy")
    /\ todo' = [todo EXCEPT ![s] = IF s \in Full THEN ToRecord(s) ELSE {}]
    /\ UNCHANGED <<storeVars, asked, fetched, inlines, decision, built, outcome, current,
                   lost, crashes>>

\* The first failure ends the loop and fails every class of the session.
StoreFails(s) ==
    \E l \in {"upload", "insertClass"} :
        Moves(s, l, IF s \in Full THEN "fail" ELSE "failAll")

-----------------------------------------------------------------------------
(* The end of a full session *)

\* A class of the request has a row to update, the others get one.
Record(s) ==
    /\ pc[s] = "record"
    /\ \E c \in todo[s] :
          LET status == IF outcome[s][c] = "failed" THEN "failed" ELSE "success" IN
          /\ \/ /\ IF decision[s][c] # "none"
                   THEN update_verification_statuses(s, {c}, status)
                   ELSE insert_verification_status(s, c, status)
                /\ UNCHANGED lost
             \/ Lost(verification_status)
          /\ todo' = [todo EXCEPT ![s] = @ \ {c}]
          /\ Goto(s, IF todo[s] = {c} THEN "done" ELSE "record")
    /\ UNCHANGED <<files, contract_classes, class_hash_profiles, verification_requests,
                   asked, fetched, inlines, decision, built, outcome, current, crashes>>

FailRequest(s) ==
    /\ pc[s] = "failRequest"
    /\ \/ update_verification_request(s, "failed") /\ UNCHANGED lost
       \/ Lost(verification_requests)
    /\ Goto(s, "fail")
    /\ UNCHANGED <<files, contract_classes, class_hash_profiles, verification_status,
                   sessionVars, crashes>>

\* Mutants: the rows of all classes of the request fail; no row does.
FailAsked(s) == update_verification_statuses(s, asked[s], "failed")
FailNone(s) == UNCHANGED verification_status

FailPending(s) == update_verification_statuses(s, Pending(s), "failed")

FailStatuses(s) ==
    /\ pc[s] = "fail"
    /\ \/ FailPending(s) /\ UNCHANGED lost
       \/ Lost(verification_status)
    /\ Goto(s, "done")
    /\ UNCHANGED <<files, contract_classes, class_hash_profiles, verification_requests,
                   sessionVars, crashes>>

-----------------------------------------------------------------------------
(* initiate_minimal_verification *)

\* A handler dropped while it writes the row leaves the row and no task.
MinimalArrive(s) ==
    /\ pc[s] = "idle"
    /\ \E b \in Builds(TRUE) :
          /\ built' = [built EXCEPT ![s] = b]
          /\ todo' = [todo EXCEPT ![s] = b]
    /\ \/ insert_verification_request(s) /\ UNCHANGED lost
       \/ Lost(verification_requests)
    /\ \E l \in {"buildAll", "dropped"} : Goto(s, l)
    /\ UNCHANGED <<files, contract_classes, class_hash_profiles, verification_status,
                   asked, fetched, inlines, decision, outcome, current, crashes>>

EndBuildAll(s) ==
    /\ pc[s] = "buildAll" /\ todo[s] = {}
    /\ todo' = [todo EXCEPT ![s] = ToStore(s)]
    /\ Goto(s, IF ToStore(s) = {} THEN "tidy" ELSE "upload")
    /\ UNCHANGED <<storeVars, asked, fetched, inlines, decision, built, outcome, current,
                   lost, crashes>>

\* The directory is removed last here.
Tidy(s) == \E l \in {"succeed", "failAll"} : Moves(s, "tidy", l)

Succeed(s) ==
    /\ pc[s] = "succeed"
    /\ \/ update_verification_request(s, "success") /\ UNCHANGED lost
       \/ Lost(verification_requests)
    /\ todo' = [todo EXCEPT ![s] = built[s]]
    /\ Goto(s, IF built[s] = {} THEN "done" ELSE "insertAll")
    /\ UNCHANGED <<files, contract_classes, class_hash_profiles, verification_status,
                   asked, fetched, inlines, decision, built, outcome, current, crashes>>

InsertAll(s) ==
    /\ pc[s] = "insertAll"
    /\ \E c \in todo[s] :
          /\ \/ insert_verification_status(s, c, "success") /\ UNCHANGED lost
             \/ Lost(verification_status)
          /\ todo' = [todo EXCEPT ![s] = @ \ {c}]
          /\ Goto(s, IF todo[s] = {c} THEN "done" ELSE "insertAll")
    /\ UNCHANGED <<files, contract_classes, class_hash_profiles, verification_requests,
                   asked, fetched, inlines, decision, built, outcome, current, crashes>>

FailAll(s) ==
    /\ pc[s] = "failAll"
    /\ \/ update_verification_request(s, "failed") /\ UNCHANGED lost
       \/ Lost(verification_requests)
    /\ Goto(s, "done")
    /\ UNCHANGED <<files, contract_classes, class_hash_profiles, verification_status,
                   sessionVars, crashes>>

-----------------------------------------------------------------------------

\* The steps of a spawned task.
Task(s) ==
    \/ FetchClasses(s) \/ InsertProfile(s) \/ FindVerified(s) \/ EndBuild(s) \/ BuildFails(s)
    \/ Cleanup(s) \/ CleanupFails(s) \/ Upload(s) \/ InsertClass(s) \/ StoreFails(s) \/ Record(s)
    \/ FailRequest(s) \/ FailStatuses(s) \/ EndBuildAll(s) \/ Tidy(s) \/ Succeed(s)
    \/ InsertAll(s) \/ FailAll(s)

Handler(s) ==
    \/ ReadInline(s) \/ ReadStatuses(s) \/ ReadVerified(s) \/ ReadFails(s)
    \/ InsertStatus(s) \/ Spawn(s)

\* The server restarts: its sessions are lost, the store stays.
Crash ==
    /\ crashes < MaxCrashes
    /\ crashes' = crashes + 1
    /\ pc' = [s \in Ids |-> IF pc[s] \in EndPC THEN pc[s] ELSE "crashed"]
    /\ UNCHANGED <<storeVars, sessionVars, lost>>

Next ==
    \/ \E s \in Full : Arrive(s) \/ Handler(s) \/ Disconnect(s)
    \/ \E s \in Minimal : MinimalArrive(s)
    \/ \E s \in Ids : Task(s)
    \/ Crash

Spec == Init /\ [][Next]_vars

(***************************************************************************)
(* Fairness: the runtime polls handlers and tasks, and every build ends    *)
(* (default_build_timeout).                                                *)
(***************************************************************************)
FairSpec == Spec /\ \A s \in Ids : WF_vars(Handler(s)) /\ WF_vars(Task(s))

-----------------------------------------------------------------------------
(* Properties *)

\* A class is in contract_classes only with its file in the bucket, wherever
\* sessions stop: the file is uploaded first, and a failed upload ends the loop.
VerifiedHasFile == contract_classes \subseteq files

\* A status row says "success" only of a class in contract_classes, whichever
\* session wrote the row, and whatever failed in the session that stored it.
SuccessIsVerified ==
    \A id \in Ids, c \in Hashes :
        verification_status[id][c] = "success" => c \in contract_classes

\* A minimal session's request is successful only when every class it built is
\* verified.
MinimalSuccessIsStored ==
    \A m \in Minimal : verification_requests[m] = "success" => built[m] \subseteq contract_classes

\* A status row that says "success" or "failed" keeps saying so: a session that
\* fails does not touch the classes it found verified or in progress.
FinalStatusStays ==
    [][\A id \in Ids, c \in Hashes :
          verification_status[id][c] \in {"success", "failed"} =>
             verification_status'[id][c] = verification_status[id][c]]_vars

\* A pending status row is resolved, as long as the server runs, the client of
\* the handler waits and the writes of statuses succeed; so is the request row
\* of a minimal session.
Interrupted(s) == pc[s] \in {"dropped", "crashed"}
PendingResolves ==
    /\ \A s \in Full, c \in Hashes :
          verification_status[s][c] = "pending" ~>
             verification_status[s][c] # "pending" \/ Interrupted(s) \/ lost > 0
    /\ \A m \in Minimal :
          verification_requests[m] = "pending" ~>
             verification_requests[m] # "pending" \/ Interrupted(m) \/ lost > 0

(***************************************************************************)
(* The inductive strengthening of SuccessIsVerified and                    *)
(* MinimalSuccessIsStored: what a session has decided or stored so far is  *)
(* stored, and the loop that stores classes has exactly the others left.   *)
(***************************************************************************)
UploadedFirst ==
    \A s \in Ids : pc[s] = "insertClass" => current[s] \in todo[s] \cap files

StoringInv(s) ==
    /\ \A c \in Hashes : "success" \in {decision[s][c], outcome[s][c]} => c \in contract_classes
    /\ pc[s] \in {"upload", "insertClass"} => todo[s] = ToStore(s)
    /\ pc[s] = "record" => \A c \in todo[s] : outcome[s][c] \in {"success", "failed"}
    /\ pc[s] = "idle" => ToRecord(s) = {}

MinimalInv(m) ==
    /\ pc[m] \in MinimalPC \cup EndPC
    /\ \A c \in Hashes : outcome[m][c] # "failed"
    /\ pc[m] = "buildAll" => built[m] \subseteq todo[m] \cup ToRecord(m)
    /\ pc[m] \in {"upload", "insertClass"} => built[m] \subseteq ToRecord(m)
    /\ pc[m] \in {"tidy", "succeed", "insertAll"} \/ verification_requests[m] = "success"
          => built[m] \subseteq contract_classes
    /\ pc[m] = "insertAll" => todo[m] \subseteq built[m]
    /\ pc[m] = "idle" => verification_requests[m] = "none"

SessionInv ==
    /\ UploadedFirst
    /\ \A s \in Ids : StoringInv(s)
    /\ \A s \in Full : pc[s] \in HandlerPC \cup TaskPC \cup EndPC
    /\ \A m \in Minimal : MinimalInv(m)

(***************************************************************************)
(* The inductive strengthening of FinalStatusStays: until a session        *)
(* records its outcomes, its rows say what it decided, and it records      *)
(* nothing against a final decision.                                       *)
(***************************************************************************)
RowsFollow(s) ==
    /\ pc[s] \in {"idle", "inline", "statuses", "verified"} =>
          \A c \in Hashes : verification_status[s][c] = "none"
    /\ pc[s] \in {"insert", "insertAll"} =>
          \A c \in todo[s] : verification_status[s][c] = "none"
    /\ pc[s] \in MinimalPC \ {"insertAll"} /\ s \in Minimal =>
          \A c \in Hashes : verification_status[s][c] = "none"
    /\ pc[s] \in {"insert", "spawn"} \cup TaskPC /\ s \in Full =>
          \A c \in Hashes :
             \/ verification_status[s][c] \in {"none", decision[s][c]}
             \/ pc[s] = "record" /\ c \notin todo[s]

OutcomesFollow(s) ==
    /\ \A c \in Hashes : decision[s][c] = "failed" => ~NewCairo(c)
    /\ pc[s] \in {"cleanup", "upload", "insertClass", "record"} /\ s \in Full =>
          \A c \in Hashes :
             /\ outcome[s][c] = "failed" => decision[s][c] = "pending"
             /\ outcome[s][c] \in {"built", "success"} => decision[s][c] # "failed"

RowInv == \A s \in Ids : RowsFollow(s) /\ OutcomesFollow(s)
=============================================================================
