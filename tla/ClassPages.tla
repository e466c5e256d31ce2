----------------------------- MODULE ClassPages -----------------------------
(***************************************************************************)
(* The pages of a class and of a contract (server/src/handlers/classes.rs, *)
(* handlers/contracts.rs) beside the traces and sessions that fill the     *)
(* tables of VoyagerPersistence.  A page asks whether the class is         *)
(* verified, looks up its source code by queries of its own                *)
(* (verification/src/db.rs, fetch_verified_class_with_inlining_class;      *)
(* s3.rs), goes to Voyager when it has none, and says where the class came *)
(* from.                                                                   *)
(***************************************************************************)
EXTENDS VoyagerPersistence

CONSTANT Pages      \* bound: pages at a time

\* "class" and "contract" pages are built alike once the class is known; the
\* route with a chain id ("chain") reads the row and the file of the class.
Kinds == {"page", "chain"}
Source == {"walnut", "voyager"}

PagePC == {"idle", "local", "ids", "profile", "inline", "file", "voyager", "sources", "done"}

VARIABLE page       \* each page, see PageType

\* `code` is the file or "voyager" that the source code came from; `ready`
\* and `settled` are history: at the start the class was stored, and it was
\* persisted from Voyager with nothing lost.
PageType == [pc: PagePC, kind: Kinds, class: Classes, withCode: BOOLEAN,
             local: BOOLEAN, ids: SUBSET (Ids \cup {WalnutId}), inline: Hashes \cup {None},
             code: Hashes \cup {"voyager", None}, hit: BOOLEAN, sources: SUBSET Source,
             ready: BOOLEAN, settled: BOOLEAN, failed: BOOLEAN]
Closed == [pc |-> "idle", kind |-> "page", class |-> CHOOSE c \in Classes : TRUE,
           withCode |-> FALSE, local |-> FALSE, ids |-> {}, inline |-> None, code |-> None,
           hit |-> FALSE, sources |-> {}, ready |-> FALSE, settled |-> FALSE, failed |-> FALSE]

\* The types of the tables and the pages; a page that is closed keeps nothing.
PageTypeOK ==
    /\ TypeOK
    /\ page \in [Pages -> PageType]
    /\ \A p \in Pages : page[p].pc = "idle" => page[p] = Closed

PageInit == Init /\ page = [p \in Pages |-> Closed]

-----------------------------------------------------------------------------

At(p, l) == page[p].pc = l
Put(p, s) == page' = [page EXCEPT ![p] = s]
Goto(p, l) == [page[p] EXCEPT !.pc = l]
Reads == UNCHANGED tables /\ UNCHANGED req
PageFault(p, s) == Put(p, [s EXCEPT !.failed = TRUE]) /\ Fault

\* Nothing failed so far, no trace is writing and Walnut has no rows: what
\* is in the tables is complete and Voyager's.
Settled(c) ==
    /\ c \in verified /\ faults = 0
    /\ \A r \in Requests : req[r].todo = {}
    /\ \A row \in profiles : row.id # WalnutId

Open(p, c, kind, withCode) ==
    /\ At(p, "idle")
    /\ Put(p, [Closed EXCEPT !.pc = "local", !.class = c, !.kind = kind,
                  !.withCode = withCode \/ kind = "chain",
                  !.ready = c \in verified \cap files, !.settled = Settled(c)])
    /\ Reads /\ NoFault

\* fetch_verified_class; an error counts as not verified.
Local(p) ==
    /\ At(p, "local")
    /\ \/ /\ page[p].class \in verified /\ NoFault
          /\ Put(p, [Goto(p, IF page[p].kind = "chain" THEN "file"
                               ELSE IF page[p].withCode THEN "ids" ELSE "sources")
                        EXCEPT !.local = TRUE])
       \/ page[p].class \notin verified /\ NoFault /\ Put(p, Goto(p, "voyager"))
       \/ PageFault(p, Goto(p, "voyager"))
    /\ Reads

PageIds(p) ==
    /\ At(p, "ids")
    /\ \/ /\ NoFault
          /\ LET ids == {row.id : row \in RowsOf(page[p].class)}
             IN Put(p, [Goto(p, IF ids = {} THEN "file" ELSE "profile") EXCEPT !.ids = ids])
       \/ PageFault(p, Goto(p, "voyager"))
    /\ Reads

\* fetch_optional: one of the rows.
PageProfile(p) ==
    /\ At(p, "profile")
    /\ \/ /\ NoFault
          /\ \E row \in {row \in RowsOf(page[p].class) : row.id \in page[p].ids} :
                Put(p, [Goto(p, "inline") EXCEPT !.inline = row.inline, !.ids = {}])
       \/ PageFault(p, [Goto(p, "voyager") EXCEPT !.ids = {}])
    /\ Reads

PageInline(p) ==
    /\ At(p, "inline")
    /\ \/ /\ NoFault
          /\ Put(p, [Goto(p, "file") EXCEPT
                        !.inline = IF page[p].inline \in verified THEN @ ELSE None])
       \/ PageFault(p, [Goto(p, "voyager") EXCEPT !.inline = None])
    /\ Reads

\* Mutant: no second attempt with the class itself.
FilesOfFirst(p) ==
    IF page[p].inline # None THEN {page[p].inline} ELSE {page[p].class}

FilesOf(p) == {page[p].inline, page[p].class} \ {None}

\* The file of the inline build, else that of the class itself, else Voyager.
PageFile(p) ==
    /\ At(p, "file")
    /\ LET found == FilesOf(p) \cap files
           code == IF page[p].inline \in found THEN page[p].inline ELSE page[p].class
           next == IF page[p].kind = "chain" THEN "done" ELSE "sources"
           without == [Goto(p, "voyager") EXCEPT !.inline = None]
       IN \/ /\ found # {} /\ NoFault
             /\ Put(p, [without EXCEPT !.pc = next, !.code = code,
                           !.sources = IF next = "done" THEN {"walnut"} ELSE {}])
          \/ found = {} /\ NoFault /\ Put(p, without)
          \/ PageFault(p, without)
    /\ Reads

\* Voyager has the class and its sources, or has not or does not answer.
PageVoyager(p) ==
    /\ At(p, "voyager")
    /\ \E hit \in BOOLEAN :
          Put(p, [Goto(p, IF page[p].kind = "chain" THEN "done" ELSE "sources") EXCEPT
                     !.hit = hit,
                     !.code = IF hit /\ page[p].withCode THEN "voyager" ELSE None,
                     !.sources = IF hit /\ page[p].kind = "chain" THEN {"voyager"} ELSE {}])
    /\ Reads /\ NoFault

\* class_has_voyager_provenance: a row of the class under a request that is
\* tagged with Voyager.
HasProvenance(c) == \E row \in RowsOf(c) : row.id \in voyager

\* Mutant: the local copy alone decides.
ClassSourcesLocal(p, known) ==
    (IF page[p].local THEN {"walnut"} ELSE {}) \cup IF page[p].hit THEN {"voyager"} ELSE {}

ClassSources(p, known) ==
    (IF page[p].local THEN {"walnut"} ELSE {})
        \cup IF page[p].hit \/ (page[p].local /\ known) THEN {"voyager"} ELSE {}

\* An error of the query means "walnut" alone.
PageSources(p) ==
    /\ At(p, "sources")
    /\ \/ /\ NoFault
          /\ Put(p, [Goto(p, "done") EXCEPT !.sources = ClassSources(p, HasProvenance(page[p].class))])
       \/ PageFault(p, [Goto(p, "done") EXCEPT !.sources = ClassSources(p, FALSE)])
    /\ Reads

\* Mutant: the next page starts with what the last one knew.
CloseKeeps(p) ==
    /\ At(p, "done")
    /\ Put(p, Goto(p, "idle"))
    /\ Reads /\ NoFault

Close(p) ==
    /\ At(p, "done")
    /\ Put(p, Closed)
    /\ Reads /\ NoFault

PageStep(p) ==
    \/ \E c \in Classes, kind \in Kinds, withCode \in BOOLEAN : Open(p, c, kind, withCode)
    \/ Local(p)
    \/ PageIds(p)
    \/ PageProfile(p)
    \/ PageInline(p)
    \/ PageFile(p)
    \/ PageVoyager(p)
    \/ PageSources(p)
    \/ Close(p)

PageNext ==
    /\ \/ TableStep /\ UNCHANGED page
       \/ \E p \in Pages : PageStep(p)
    /\ Observe

\* Traces go on, and debug traces of each class keep coming; queries, reads,
\* writes and builds fail only a few times (MaxFaults).
PageVars == <<vars, page>>
PageSpec ==
    /\ PageInit /\ [][PageNext]_PageVars
    /\ \A r \in Requests : WF_PageVars(RequestStep(r) /\ Observe /\ UNCHANGED page)
    /\ \A c \in Classes : SF_PageVars(
          (\E r \in Requests : Ask(r, c, "debug")) /\ Observe /\ UNCHANGED page)

-----------------------------------------------------------------------------
(* Properties *)

\* A page of a class that was stored when it was opened shows the source code
\* of the own bucket: whichever rows and builds come in between its queries,
\* a verified inline build without a file falls back to the class (s3.rs:26,
\* 57).  Only an error sends it to Voyager.
StoredCodeIsShown ==
    \A p \in Pages :
        At(p, "done") /\ page[p].ready /\ page[p].withCode /\ ~page[p].failed
            => page[p].code \in files /\ ~page[p].hit

\* db.rs:307 says "voyager" of a local copy that was originally pulled from
\* Voyager: with every write of the persistence behind it, the page of such a
\* class says so.
ProvenanceIsTold ==
    \A p \in Pages :
        At(p, "done") /\ page[p].settled /\ page[p].kind = "page" /\ ~page[p].failed
            => page[p].sources = Source
=============================================================================
