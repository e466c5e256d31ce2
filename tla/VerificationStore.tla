-------------------------- MODULE VerificationStore --------------------------
(***************************************************************************)
(* What a verification leaves behind: the tables of the database           *)
(* (verification/src/db.rs, server/migrations) and the class files in the  *)
(* S3 bucket (verification/src/s3.rs).  Each operator is one statement or  *)
(* one call of S3; the processes are in VerificationWorkflow.              *)
(***************************************************************************)
EXTENDS Naturals, FiniteSets

CONSTANTS
    Hashes,     \* class hashes
    NoHash,     \* no class hash
    Inline,     \* the inline-strategy build of each class: itself for a class
                \* that is one, NoHash for a class of an old Cairo version
    Ids         \* verification ids, one for each request to verify

ASSUME StoreAssumption ==
    /\ NoHash \notin Hashes
    /\ Inline \in [Hashes -> Hashes \cup {NoHash}]
    /\ \A c \in Hashes : Inline[c] # NoHash => Inline[Inline[c]] = Inline[c]

VARIABLES
    files,                  \* classes with a file in the bucket
    contract_classes,       \* classes with a row in contract_classes
    class_hash_profiles,    \* classes with a row in class_hash_profiles, which
                            \* names the inline build of the class
    verification_status,    \* the status of each class in each verification
    verification_requests   \* the status of each verification's build

storeVars == <<files, contract_classes, class_hash_profiles,
               verification_status, verification_requests>>

Status == {"none", "pending", "success", "failed"}

StoreTypeOK ==
    /\ files \in SUBSET Hashes
    /\ contract_classes \in SUBSET Hashes
    /\ class_hash_profiles \in SUBSET Hashes
    /\ verification_status \in [Ids -> [Hashes -> Status]]
    /\ verification_requests \in [Ids -> Status]

StoreInit ==
    /\ files = {}
    /\ contract_classes = {}
    /\ class_hash_profiles = {}
    /\ verification_status = [id \in Ids |-> [c \in Hashes |-> "none"]]
    /\ verification_requests = [id \in Ids |-> "none"]

NewCairo(c) == Inline[c] # NoHash

-----------------------------------------------------------------------------
(* Writes.  An insert of a class that is there already does nothing.       *)

upload_class_to_s3(c) == files' = files \cup {c}

insert_contract_class(c) == contract_classes' = contract_classes \cup {c}

insert_class_hash_profiles(c) == class_hash_profiles' = class_hash_profiles \cup {c}

insert_verification_status(id, c, status) ==
    verification_status' = [verification_status EXCEPT ![id][c] = status]

\* An update without a row to update does nothing.
update_verification_statuses(id, cs, status) ==
    verification_status' = [verification_status EXCEPT ![id] =
        [c \in Hashes |-> IF c \in cs /\ @[c] # "none" THEN status ELSE @[c]]]

insert_verification_request(id) ==
    verification_requests' = [verification_requests EXCEPT ![id] = "pending"]

update_verification_request(id, status) ==
    verification_requests' = [verification_requests EXCEPT ![id] =
        IF @ = "none" THEN "none" ELSE status]

-----------------------------------------------------------------------------
(* Reads *)

\* The pending and success rows of a class.  The caller keeps the oldest one;
\* the model keeps any.
fetch_verification_statuses_pending_or_success(c) ==
    {verification_status[id][c] : id \in Ids} \cap {"pending", "success"}

\* The classes among `cs` whose inline class hash the profiles tell.
fetch_inline_class_hashes_for_class_hashes(cs) ==
    {c \in cs \cap class_hash_profiles : NewCairo(c)}

fetch_verified_classes(cs) == cs \cap contract_classes
=============================================================================
