------------------------- MODULE VoyagerPersistence -------------------------
(***************************************************************************)
(* How classes that Voyager knows get into the tables and the bucket and   *)
(* out of them again.  A trace looks its class up in four queries          *)
(* (verification/src/db.rs, fetch_verified_classes_with_inlining_classes)  *)
(* and fetches a file; a class it does not get is compiled from Voyager's  *)
(* sources and persisted piece by piece (internal-tracing/src/             *)
(* voyager_persistence.rs), each piece failing on its own.  The cache of   *)
(* compiled classes is taken to be empty: the server was restarted, or     *)
(* another server asks.  Verifications through Walnut write rows of their  *)
(* own beside it.                                                          *)
(***************************************************************************)
EXTENDS Naturals, FiniteSets

CONSTANTS
    Classes,        \* hashes of the classes that traces ask for
    Inline, Walnut, \* the inline builds that Voyager's sources and a Walnut
                    \* session give for each class
    Built,          \* the classes with a non-inline build matching the chain
    None,           \* no hash, no id
    WalnutId,       \* the verification_id of Walnut's session
    Requests,       \* bound: traces at a time
    Ids,            \* bound: verification_ids of compiled classes
    MaxFaults       \* bound: queries, reads, writes and builds that fail

Hashes == Classes \cup {Inline[c] : c \in Classes} \cup {Walnut[c] : c \in Classes}

ASSUME HashesAssumption ==
    /\ Classes # {} /\ None \notin Hashes /\ None \notin Ids /\ WalnutId \notin Ids
    /\ Built \subseteq Classes
    /\ \A c \in Classes : Inline[c] \notin Classes /\ Walnut[c] \notin Classes
ASSUME FaultsAssumption == MaxFaults \in Nat

VARIABLES
    files,      \* the bucket: the hashes with a file
    verified,   \* contract_classes
    profiles,   \* class_hash_profiles, see Row
    voyager,    \* verification_requests with status "voyager"
    req,        \* each trace, see RequestType
    answers,    \* history: for each lookup, all it could have been told at once
    faults

tables == <<files, verified, profiles, voyager>>
vars == <<files, verified, profiles, voyager, req, answers, faults>>

Row == [class: Hashes, inline: Hashes, id: Ids \cup {WalnutId}]

\* What a lookup tells of a class: not there, there without an inline build,
\* there with one, or taken out again as its inline build is not verified.
Answer == {"absent", "plain", "removed"} \cup Hashes

\* The writes of a compiled class still to be made; those of one stage are
\* made in any order.
Piece == {"inlineFile", "inlineClass", "file", "class", "request", "rowA", "rowB"}
Stages == <<{"inlineFile", "inlineClass", "file", "class"}, {"request"}, {"rowA"}, {"rowB"}>>

RequestPC == {"idle", "classes", "ids", "profiles", "inlines", "fetch", "compile", "persist"}
RequestType == [pc: RequestPC, kind: {"simple", "debug"}, class: Classes,
                ids: SUBSET (Ids \cup {WalnutId}), rows: SUBSET Row,
                answer: Answer,
                id: Ids \cup {None}, todo: SUBSET Piece]
Idle == [pc |-> "idle", kind |-> "simple", class |-> CHOOSE c \in Classes : TRUE,
         ids |-> {}, rows |-> {}, answer |-> "absent",
         id |-> None, todo |-> {}]

\* The types of the state; only a trace that compiles has an id and pieces
\* left to write.
TypeOK ==
    /\ files \in SUBSET Hashes
    /\ verified \in SUBSET Hashes
    /\ profiles \in SUBSET Row
    /\ voyager \in SUBSET Ids
    /\ req \in [Requests -> RequestType]
    /\ answers \in [Requests -> SUBSET Answer]
    /\ faults \in 0..MaxFaults
    /\ \A r \in Requests : (req[r].pc = "persist") = (req[r].id # None)
    /\ \A r \in Requests : req[r].todo # {} => req[r].pc = "persist"

Init ==
    /\ files = {}
    /\ verified = {}
    /\ profiles = {}
    /\ voyager = {}
    /\ req = [r \in Requests |-> Idle]
    /\ answers = [r \in Requests |-> {}]
    /\ faults = 0

-----------------------------------------------------------------------------
(* The lookup *)

RowsOf(c) == {row \in profiles : row.class = c}
Inlines(rows) == {row.inline : row \in rows}

\* The last row decides, whichever the database returns last: a verified
\* inline build is put into the map, one that is not takes the class out.
Decided(rows, existing) ==
    IF rows = {} THEN {"plain"}
    ELSE (Inlines(rows) \cap existing) \cup IF Inlines(rows) \subseteq existing THEN {} ELSE {"removed"}

\* All that a lookup could be told if its queries were one.
Told(c) == IF c \in verified THEN Decided(RowsOf(c), verified) ELSE {"absent"}

\* The hash whose file is fetched; simple traces only want the class itself.
FileOf(kind, c, answer) ==
    IF answer \in {"absent", "removed"} THEN None
    ELSE IF kind = "debug" /\ answer \in Hashes THEN answer ELSE c

Step(r, s) == req' = [req EXCEPT ![r] = s]
Fault == faults < MaxFaults /\ faults' = faults + 1
NoFault == faults' = faults

Ask(r, c, kind) ==
    /\ req[r].pc = "idle"
    /\ Step(r, [Idle EXCEPT !.pc = "classes", !.class = c, !.kind = kind])
    /\ UNCHANGED tables /\ NoFault

\* An error of any query leaves the caller with an empty map.
QueryFails(r) ==
    /\ req[r].pc \in {"classes", "ids", "profiles", "inlines"}
    /\ Step(r, [req[r] EXCEPT !.pc = "compile", !.ids = {}, !.rows = {}])
    /\ UNCHANGED tables /\ Fault

FetchClasses(r) ==
    /\ req[r].pc = "classes"
    /\ Step(r, [req[r] EXCEPT !.pc = IF req[r].class \in verified THEN "ids" ELSE "fetch"])
    /\ UNCHANGED tables /\ NoFault

FetchIds(r) ==
    /\ req[r].pc = "ids"
    /\ LET ids == {row.id : row \in RowsOf(req[r].class)}
       IN Step(r, IF ids = {} THEN [req[r] EXCEPT !.pc = "fetch", !.answer = "plain"]
                  ELSE [req[r] EXCEPT !.pc = "profiles", !.ids = ids])
    /\ UNCHANGED tables /\ NoFault

FetchProfiles(r) ==
    /\ req[r].pc = "profiles"
    /\ Step(r, [req[r] EXCEPT !.pc = "inlines", !.ids = {},
                   !.rows = {row \in RowsOf(req[r].class) : row.id \in req[r].ids}])
    /\ UNCHANGED tables /\ NoFault

\* Mutant: takes an inline build that no query has found.
FetchInlinesUnchecked(r) ==
    /\ req[r].pc = "inlines"
    /\ \E row \in req[r].rows :
          Step(r, [req[r] EXCEPT !.pc = "fetch", !.answer = row.inline, !.rows = {}])
    /\ UNCHANGED tables /\ NoFault

FetchInlines(r) ==
    /\ req[r].pc = "inlines"
    /\ \E answer \in Decided(req[r].rows, verified) :
          Step(r, [req[r] EXCEPT !.pc = "fetch", !.answer = answer, !.rows = {}])
    /\ UNCHANGED tables /\ NoFault

\* The file decides: without it the class counts as missing.
Fetch(r) ==
    /\ req[r].pc = "fetch"
    /\ LET hash == FileOf(req[r].kind, req[r].class, req[r].answer)
       IN \/ /\ hash \in files /\ NoFault
             /\ Step(r, Idle)
          \/ /\ hash \notin files /\ NoFault
             /\ Step(r, [req[r] EXCEPT !.pc = "compile", !.answer = "absent"])
          \/ /\ hash \in files /\ Fault
             /\ Step(r, [req[r] EXCEPT !.pc = "compile", !.answer = "absent"])
    /\ UNCHANGED tables

-----------------------------------------------------------------------------
(* The class from Voyager *)

\* Mutant: a class that is in the tables already is not written again.
PiecesOnce(c) ==
    IF c \in verified THEN {}
    ELSE IF c \in Built THEN Piece ELSE {"inlineFile", "inlineClass", "request", "rowA"}

Pieces(c) ==
    IF c \in Built THEN Piece ELSE {"inlineFile", "inlineClass", "request", "rowA"}

CompileFails(r) ==
    /\ req[r].pc = "compile"
    /\ Step(r, Idle)
    /\ UNCHANGED tables /\ Fault

FreshIds ==
    Ids \ ({row.id : row \in profiles} \cup voyager \cup {req[r].id : r \in Requests})

\* The compiled class answers the trace and is persisted under a fresh id.
Compile(r) ==
    /\ req[r].pc = "compile"
    /\ \/ \E id \in FreshIds :
             Step(r, [Idle EXCEPT !.pc = "persist", !.class = req[r].class, !.id = id,
                         !.todo = Pieces(req[r].class)])
       \/ FreshIds = {} /\ Step(r, Idle)   \* bound: not persisted once more
    /\ UNCHANGED tables /\ NoFault

\* Mutant: every piece may be written at any time.
DueAnytime(todo) == todo

\* The pieces of the first stage that has any left.
Due(todo) ==
    LET left == {i \in DOMAIN Stages : Stages[i] \cap todo # {}}
    IN IF left = {} THEN {}
       ELSE Stages[CHOOSE i \in left : \A j \in left : i <= j] \cap todo

Add(hash, set) == set \cup {hash}

\* The effect of a write that succeeds.
Write(piece, c, id) ==
    /\ files' = CASE piece = "file" -> Add(c, files)
                  [] piece = "inlineFile" -> Add(Inline[c], files)
                  [] OTHER -> files
    /\ verified' = CASE piece = "class" -> Add(c, verified)
                     [] piece = "inlineClass" -> Add(Inline[c], verified)
                     [] OTHER -> verified
    /\ voyager' = IF piece = "request" THEN Add(id, voyager) ELSE voyager
    /\ profiles' =
          CASE piece = "rowA" -> Add([class |-> Inline[c], inline |-> Inline[c], id |-> id], profiles)
            [] piece = "rowB" -> Add([class |-> c, inline |-> Inline[c], id |-> id], profiles)
            [] OTHER -> profiles

\* One write; an error is logged, and the next piece is written all the same.
Persist(r, piece) ==
    /\ req[r].pc = "persist" /\ piece \in Due(req[r].todo)
    /\ \/ Write(piece, req[r].class, req[r].id) /\ NoFault
       \/ UNCHANGED tables /\ Fault
    /\ Step(r, [req[r] EXCEPT !.todo = @ \ {piece}])

Persisted(r) ==
    /\ req[r].pc = "persist" /\ req[r].todo = {}
    /\ Step(r, Idle)
    /\ UNCHANGED tables /\ NoFault

-----------------------------------------------------------------------------
(* A verification through Walnut: the rows that point to the inline build    *)
(* come before either build is stored, which may never happen.               *)

WalnutProfiles(c) ==
    /\ \A row \in profiles : row.id # WalnutId
    /\ profiles' = profiles \cup {[class |-> h, inline |-> Walnut[c], id |-> WalnutId]
                                   : h \in {c, Walnut[c]}}
    /\ UNCHANGED <<files, verified, voyager, req>> /\ NoFault

WalnutStores(h) ==
    /\ h \in {row.class : row \in {row \in profiles : row.id = WalnutId}} \ verified
    /\ files' = Add(h, files)
    /\ verified' = Add(h, verified)
    /\ UNCHANGED <<profiles, voyager, req>> /\ NoFault

-----------------------------------------------------------------------------

Looking(r) == req[r].pc \in {"classes", "ids", "profiles", "inlines", "fetch"}

\* The history: every answer of a single query while the lookup runs.
Observe ==
    answers' = [r \in Requests |->
        IF ~Looking(r)' THEN {}
        ELSE (IF Looking(r) THEN answers[r] ELSE {}) \cup Told(req[r].class)']

RequestStep(r) ==
    \/ \E c \in Classes, kind \in {"simple", "debug"} : Ask(r, c, kind)
    \/ QueryFails(r)
    \/ FetchClasses(r)
    \/ FetchIds(r)
    \/ FetchProfiles(r)
    \/ FetchInlines(r)
    \/ Fetch(r)
    \/ CompileFails(r)
    \/ Compile(r)
    \/ \E piece \in Piece : Persist(r, piece)
    \/ Persisted(r)

TableStep ==
    \/ \E r \in Requests : RequestStep(r)
    \/ \E c \in Classes : WalnutProfiles(c)
    \/ \E h \in Hashes : WalnutStores(h)

Next == TableStep /\ Observe

Spec == Init /\ [][Next]_vars

-----------------------------------------------------------------------------
(* Properties *)

\* The queries of a lookup see four different states of the tables, and yet
\* tell what a single query could have told at some moment of the lookup: the
\* rows are read before it is asked which inline builds are verified (db.rs,
\* steps 1 to 4), and no row goes away.
LookupIsAtomic ==
    \A r \in Requests : req[r].pc = "fetch" => req[r].answer \in answers[r]

\* Rows A and B are written after the builds they point to were tried, and
\* the class of a row B has been tried as well: as long as nothing failed, a
\* Voyager row points to a build that is verified and stored, and so does not
\* take its class out of the map (voyager_persistence.rs).
RowsPointToBuilds ==
    faults = 0 => \A row \in profiles :
        row.id # WalnutId => {row.class, row.inline} \subseteq (files \cap verified)

\* A class with a build that matches the chain is served from the tables in
\* the end, whatever fails: a lookup that misses a file compiles the class,
\* and persisting it puts the file there.  A Walnut session whose inline
\* build is never stored is left out: its row may take the class out of the
\* map for ever.
CompilesEnd ==
    \A c \in Built :
        <>[](Inlines(RowsOf(c)) \subseteq verified)
            => <>[](\A r \in Requests : req[r].pc = "compile" => req[r].class # c)

\* voyager_persistence.rs:22 says of a class of which only some pieces were
\* written: "the next request will re-attempt whatever piece is missing".  The
\* pieces that debug traces need get there as long as debug traces come, unless
\* a Walnut session has rows of its own for the class.
Complete(c) ==
    /\ c \in verified /\ Inline[c] \in files \cap verified
    /\ \E row \in RowsOf(c) : row.inline = Inline[c]
OnlyVoyager == \A row \in profiles : row.id # WalnutId
Started(c) == {c, Inline[c]} \cap (files \cup verified) # {}
MissingPieceIsReattempted ==
    \A c \in Built : (Started(c) /\ OnlyVoyager) ~> (Complete(c) \/ ~OnlyVoyager)
=============================================================================
