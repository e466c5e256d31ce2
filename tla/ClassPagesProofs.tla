-------------------------- MODULE ClassPagesProofs --------------------------
(***************************************************************************)
(* What traces and pages are told of a class is right, for any classes,    *)
(* traces, pages, ids and number of failures.                              *)
(*                                                                         *)
(* Three arguments carry the proof.  The tables only grow (Grows), so what *)
(* one query has seen is still there for the next.  A trace knows of every *)
(* piece it no longer has to write that it is written, unless something    *)
(* has failed (PersistOK); and the last piece, row B, is to be written as  *)
(* long as any other is.  A class that is stored has its provenance, or a  *)
(* trace or a session of Walnut is still about to give it (ProvenanceInv). *)
(***************************************************************************)
EXTENDS ClassPages, TLAPS

Grows ==
    /\ files \subseteq files' /\ verified \subseteq verified'
    /\ profiles \subseteq profiles' /\ voyager \subseteq voyager'
    /\ faults' = 0 => faults = 0

\* What the lookup of a trace has read is still so.
LookupOK(r) ==
    LET c == req[r].class
    IN /\ req[r].pc = "classes" => req[r].answer = "absent"
       /\ req[r].pc \in {"ids", "profiles", "inlines"} => c \in verified
       /\ req[r].pc = "profiles" =>
             req[r].ids # {} /\ \A id \in req[r].ids : \E row \in RowsOf(c) : row.id = id
       /\ req[r].pc = "inlines" => req[r].rows # {} /\ req[r].rows \subseteq RowsOf(c)
       /\ req[r].pc = "fetch" => req[r].answer \in answers[r]

RowB(c, id) == [class |-> c, inline |-> Inline[c], id |-> id]

\* What a trace has persisted: each piece it had to write and has not left.
PersistOK(r) ==
    LET c == req[r].class
        todo == req[r].todo
        Done(piece) == piece \notin todo
    IN req[r].pc = "persist" =>
          /\ todo \subseteq Pieces(c)
          /\ c \in Built /\ todo # {} => "rowB" \in todo
          /\ faults = 0 =>
                /\ Done("inlineFile") => Inline[c] \in files
                /\ Done("inlineClass") => Inline[c] \in verified
                /\ Done("request") => req[r].id \in voyager
                /\ c \in Built =>
                      /\ Done("file") => c \in files
                      /\ Done("class") => c \in verified
                      /\ Done("rowB") => RowB(c, req[r].id) \in profiles

Gives(r, c) == req[r].pc = "persist" /\ req[r].class = c /\ "rowB" \in req[r].todo

ProvenanceInv ==
    faults = 0 => \A c \in Classes \cap verified :
        \/ HasProvenance(c)
        \/ \E row \in profiles : row.id = WalnutId
        \/ \E r \in Requests : Gives(r, c)

PageOK(p) ==
    LET s == page[p]
    IN /\ s.ready => s.class \in verified \cap files
       /\ s.ready /\ ~s.failed =>
             /\ s.pc # "voyager" /\ ~s.hit
             /\ s.withCode /\ s.pc \in {"sources", "done"} => s.code \in files
       /\ s.settled => s.class \in verified /\ HasProvenance(s.class)
       /\ s.settled /\ ~s.failed =>
             /\ s.pc \in {"ids", "profile", "inline", "file", "voyager", "sources"} => s.local
             /\ s.pc = "done" /\ s.kind = "page" => s.sources = Source

TablesInv ==
    /\ TypeOK
    /\ \A r \in Requests : LookupOK(r) /\ PersistOK(r)
    /\ RowsPointToBuilds
    /\ ProvenanceInv

PagesInv == TablesInv /\ PageTypeOK /\ \A p \in Pages : PageOK(p)

-----------------------------------------------------------------------------
(* Helpers *)

LEMMA HashesOf ==
    ASSUME NEW c \in Classes
    PROVE  {c, Inline[c], Walnut[c]} \subseteq Hashes
BY DEF Hashes

LEMMA SomeClass == (CHOOSE c \in Classes : TRUE) \in Classes
BY HashesAssumption

LEMMA IdleType == Idle \in RequestType
BY SomeClass DEF Idle, RequestType, RequestPC, Answer

LEMMA ClosedType == Closed \in PageType
BY SomeClass DEF Closed, PageType, PagePC, Kinds

\* The pieces of a stage are due when nothing of a stage before it is left.
LEMMA DueStage ==
    ASSUME NEW todo \in SUBSET Piece, NEW piece \in Due(todo)
    PROVE  /\ piece \in todo
           /\ piece \in {"request", "rowA", "rowB"} => Stages[1] \cap todo = {}
           /\ piece \in {"rowA", "rowB"} => "request" \notin todo
           /\ piece = "rowB" => todo = {"rowB"}
<1> DEFINE left == {i \in DOMAIN Stages : Stages[i] \cap todo # {}}
           i == CHOOSE i \in left : \A j \in left : i <= j
<1>1. /\ Stages[1] = {"inlineFile", "inlineClass", "file", "class"} /\ Stages[2] = {"request"}
      /\ Stages[3] = {"rowA"} /\ Stages[4] = {"rowB"} /\ DOMAIN Stages = {1, 2, 3, 4}
    BY DEF Stages
<1>2. left # {} /\ piece \in Stages[i] \cap todo
    BY DEF Due
<1>3. \E k \in left : \A j \in left : k <= j
    <2>1. left \subseteq {1, 2, 3, 4}
        BY <1>1
    <2> HIDE DEF left
    <2>2. CASE 1 \in left
        BY <2>1, <2>2
    <2>3. CASE 1 \notin left /\ 2 \in left
        BY <2>1, <2>3
    <2>4. CASE 1 \notin left /\ 2 \notin left /\ 3 \in left
        BY <2>1, <2>4
    <2>5. CASE left \subseteq {4}
        BY <1>2, <2>5
    <2> QED BY <2>1, <2>2, <2>3, <2>4, <2>5
<1>4. i \in left /\ \A j \in left : i <= j
    <2> HIDE DEF left
    <2> QED BY <1>3
<1>5. i \in {1, 2, 3, 4} /\ \A j \in {1, 2, 3, 4} : j < i => Stages[j] \cap todo = {}
    BY <1>1, <1>4
<1> HIDE DEF i
<1>6. /\ piece \in {"request", "rowA", "rowB"} => i > 1
      /\ piece \in {"rowA", "rowB"} => i > 2
      /\ piece = "rowB" => i = 4
    BY <1>1, <1>2, <1>5
<1>7. todo \subseteq Stages[1] \cup Stages[2] \cup Stages[3] \cup Stages[4]
    BY <1>1 DEF Piece
<1> QED BY <1>1, <1>2, <1>5, <1>6, <1>7

-----------------------------------------------------------------------------
(* Traces *)

LEMMA DecidedType ==
    ASSUME NEW rows, NEW existing \in SUBSET Hashes
    PROVE  Decided(rows, existing) \subseteq Answer
BY DEF Decided, Answer

LEMMA AnswersType ==
    ASSUME Observe, answers \in [Requests -> SUBSET Answer], verified' \in SUBSET Hashes
    PROVE  answers' \in [Requests -> SUBSET Answer]
<1>1. \A r \in Requests : Told(req[r].class)' \subseteq Answer
    <2> TAKE r \in Requests
    <2>1. CASE req'[r].class \in verified'
        BY <2>1, DecidedType DEF Told
    <2>2. CASE req'[r].class \notin verified'
        BY <2>2 DEF Told, Answer
    <2> QED BY <2>1, <2>2
<1> QED BY <1>1 DEF Observe

\* A trace that does not move keeps what it knows, whatever others write.
LEMMA Waits ==
    ASSUME NEW r \in Requests, LookupOK(r), PersistOK(r), Grows, Observe, req'[r] = req[r]
    PROVE  LookupOK(r)' /\ PersistOK(r)'
<1>1. RowsOf(req[r].class) \subseteq RowsOf(req[r].class)'
    BY DEF Grows, RowsOf
<1>2. req[r].pc = "fetch" => answers[r] \subseteq answers'[r]
    BY DEF Observe, Looking
<1>3. LookupOK(r)'
    <2>1. /\ req'[r].pc = "classes" => req'[r].answer = "absent"
          /\ req'[r].pc \in {"ids", "profiles", "inlines"} => req'[r].class \in verified'
          /\ req'[r].pc = "inlines" =>
                req'[r].rows # {} /\ req'[r].rows \subseteq RowsOf(req[r].class)'
        BY <1>1 DEF Grows, LookupOK
    <2>2. req'[r].pc = "profiles" =>
              req'[r].ids # {}
              /\ \A id \in req'[r].ids : \E row \in RowsOf(req[r].class)' : row.id = id
        BY <1>1 DEF LookupOK
    <2>3. req'[r].pc = "fetch" => req'[r].answer \in answers'[r]
        BY <1>2 DEF LookupOK
    <2> QED BY <2>1, <2>2, <2>3 DEF LookupOK, RowsOf
<1>4. PersistOK(r)'
    BY DEF Grows, PersistOK, RowB
<1> QED BY <1>3, <1>4

\* A step of a trace that writes nothing.
LEMMA ReadStep ==
    ASSUME TablesInv, Observe, NEW r \in Requests, NEW s \in RequestType, Step(r, s),
           UNCHANGED tables, NoFault \/ Fault,
           (s.pc = "persist") = (s.id # None), s.todo # {} => s.pc = "persist",
           req[r].pc # "persist" \/ req[r].todo = {},
           LookupOK(r)', PersistOK(r)'
    PROVE  TablesInv'
<1>1. req' \in [Requests -> RequestType] /\ req'[r] = s
      /\ \A q \in Requests \ {r} : req'[q] = req[q]
    BY DEF TablesInv, TypeOK, Step
<1>2. faults' \in 0..MaxFaults /\ (faults' = 0 => faults = 0)
    BY FaultsAssumption DEF TablesInv, TypeOK, NoFault, Fault
<1>3. Grows
    BY <1>2 DEF Grows, tables
<1>4. TypeOK'
    BY <1>1, <1>2, AnswersType DEF TablesInv, TypeOK, tables
<1>5. \A q \in Requests : LookupOK(q)' /\ PersistOK(q)'
    BY <1>1, <1>3, Waits DEF TablesInv
<1>6. RowsPointToBuilds'
    BY <1>2 DEF TablesInv, RowsPointToBuilds, tables
<1>7. ProvenanceInv'
    <2>1. \A q \in Requests, c \in Classes : Gives(q, c) => Gives(q, c)'
        BY <1>1 DEF Gives
    <2> QED BY <1>2, <2>1 DEF TablesInv, ProvenanceInv, HasProvenance, RowsOf, tables
<1> QED BY <1>4, <1>5, <1>6, <1>7 DEF TablesInv

LEMMA AskInv ==
    ASSUME TablesInv, Observe, NEW r \in Requests, NEW c \in Classes, NEW kind \in {"simple", "debug"},
           Ask(r, c, kind)
    PROVE  TablesInv'
<1> DEFINE s == [Idle EXCEPT !.pc = "classes", !.class = c, !.kind = kind]
<1>1. s \in RequestType /\ s.pc = "classes" /\ s.id = None /\ s.todo = {}
    BY IdleType DEF Idle, RequestType, RequestPC
<1>2. Step(r, s) /\ req[r].pc = "idle" /\ UNCHANGED tables /\ NoFault
    BY DEF Ask
<1>3. req'[r] = s
    BY <1>2 DEF Step, TablesInv, TypeOK
<1>4. LookupOK(r)' /\ PersistOK(r)'
    BY <1>1, <1>3 DEF LookupOK, PersistOK, Idle
<1> HIDE DEF s
<1> QED BY <1>1, <1>2, <1>4, ReadStep

LEMMA QueryFailsInv ==
    ASSUME TablesInv, Observe, NEW r \in Requests, QueryFails(r)
    PROVE  TablesInv'
<1> DEFINE s == [req[r] EXCEPT !.pc = "compile", !.ids = {}, !.rows = {}]
<1>1. req[r] \in RequestType /\ req[r].id = None /\ req[r].todo = {}
    BY DEF TablesInv, TypeOK, QueryFails
<1>2. s \in RequestType /\ s.pc = "compile" /\ s.id = None /\ s.todo = {}
    BY <1>1 DEF RequestType, RequestPC
<1>3. Step(r, s) /\ req[r].pc # "persist" /\ UNCHANGED tables /\ Fault
    BY DEF QueryFails
<1>4. req'[r] = s
    BY <1>3 DEF Step, TablesInv, TypeOK
<1>5. LookupOK(r)' /\ PersistOK(r)'
    BY <1>2, <1>4 DEF LookupOK, PersistOK
<1> HIDE DEF s
<1> QED BY <1>2, <1>3, <1>5, ReadStep

\* A step that ends a lookup with an answer that a query could have given now.
LEMMA ToldNow ==
    ASSUME TablesInv, Observe, NEW r \in Requests, Looking(r)', UNCHANGED verified, UNCHANGED profiles,
           req'[r].class = req[r].class
    PROVE  Told(req[r].class) \subseteq answers'[r]
BY DEF Observe, Told, Decided, RowsOf, Inlines

LEMMA FetchClassesInv ==
    ASSUME TablesInv, Observe, NEW r \in Requests, FetchClasses(r)
    PROVE  TablesInv'
<1> DEFINE s == [req[r] EXCEPT !.pc = IF req[r].class \in verified THEN "ids" ELSE "fetch"]
<1>1. req[r] \in RequestType /\ req[r].id = None /\ req[r].todo = {}
    BY DEF TablesInv, TypeOK, FetchClasses
<1>2. s \in RequestType /\ s.pc # "persist" /\ s.id = None /\ s.todo = {} /\ s.class = req[r].class
    BY <1>1 DEF RequestType, RequestPC
<1>3. Step(r, s) /\ req[r].pc = "classes" /\ UNCHANGED tables /\ NoFault
    BY DEF FetchClasses
<1>4. req'[r] = s
    BY <1>3 DEF Step, TablesInv, TypeOK
<1>5. CASE req[r].class \in verified
    <2>1. s.pc = "ids"
        BY <1>1, <1>5 DEF RequestType
    <2>2. LookupOK(r)' /\ PersistOK(r)'
        BY <1>1, <1>3, <1>4, <1>5 DEF LookupOK, PersistOK, RequestType, tables
    <2> HIDE DEF s
    <2> QED BY <1>2, <1>3, <2>1, <2>2, ReadStep
<1>6. CASE req[r].class \notin verified
    <2>1. Told(req[r].class) = {"absent"}
        BY <1>6 DEF Told
    <2>2. s.answer = "absent" /\ s.pc = "fetch"
        BY <1>1, <1>3, <1>6 DEF TablesInv, LookupOK, RequestType
    <2>3. "absent" \in answers'[r]
        BY <1>2, <1>3, <1>4, <2>1, <2>2, ToldNow DEF tables, Looking
    <2>4. LookupOK(r)' /\ PersistOK(r)'
        BY <1>4, <2>2, <2>3 DEF LookupOK, PersistOK
    <2> HIDE DEF s
    <2> QED BY <1>2, <1>3, <2>4, ReadStep
<1> QED BY <1>5, <1>6

LEMMA FetchIdsInv ==
    ASSUME TablesInv, Observe, NEW r \in Requests, FetchIds(r)
    PROVE  TablesInv'
<1> DEFINE ids == {row.id : row \in RowsOf(req[r].class)}
           s == IF ids = {} THEN [req[r] EXCEPT !.pc = "fetch", !.answer = "plain"]
                ELSE [req[r] EXCEPT !.pc = "profiles", !.ids = ids]
<1>1. req[r] \in RequestType /\ req[r].id = None /\ req[r].todo = {} /\ req[r].class \in verified
    BY DEF TablesInv, TypeOK, FetchIds, LookupOK
<1>2. ids \subseteq Ids \cup {WalnutId}
    BY DEF TablesInv, TypeOK, RowsOf, Row
<1>3. Step(r, s) /\ req[r].pc = "ids" /\ UNCHANGED tables /\ NoFault
    BY DEF FetchIds
<1>4. req'[r] = s
    BY <1>3 DEF Step, TablesInv, TypeOK
<1>5. CASE ids = {}
    <2>1. s \in RequestType /\ s.pc = "fetch" /\ s.answer = "plain" /\ s.id = None /\ s.todo = {}
          /\ s.class = req[r].class
        BY <1>1, <1>5 DEF RequestType, RequestPC, Answer
    <2>2. Told(req[r].class) = {"plain"}
        BY <1>1, <1>5 DEF Told, Decided
    <2>3. "plain" \in answers'[r]
        BY <1>3, <1>4, <2>1, <2>2, ToldNow DEF tables, Looking
    <2>4. LookupOK(r)' /\ PersistOK(r)'
        BY <1>4, <2>1, <2>3 DEF LookupOK, PersistOK
    <2> HIDE DEF s
    <2> QED BY <1>3, <2>1, <2>4, ReadStep
<1>6. CASE ids # {}
    <2>1. s \in RequestType /\ s.pc = "profiles" /\ s.ids = ids /\ s.id = None /\ s.todo = {}
          /\ s.class = req[r].class
        BY <1>1, <1>2, <1>6 DEF RequestType, RequestPC
    <2>2. LookupOK(r)' /\ PersistOK(r)'
        BY <1>1, <1>3, <1>4, <1>6, <2>1 DEF LookupOK, PersistOK, tables, RowsOf
    <2> HIDE DEF s
    <2> QED BY <1>3, <2>1, <2>2, ReadStep
<1> QED BY <1>5, <1>6

LEMMA FetchProfilesInv ==
    ASSUME TablesInv, Observe, NEW r \in Requests, FetchProfiles(r)
    PROVE  TablesInv'
<1> DEFINE rows == {row \in RowsOf(req[r].class) : row.id \in req[r].ids}
           s == [req[r] EXCEPT !.pc = "inlines", !.ids = {}, !.rows = rows]
<1>1. req[r] \in RequestType /\ req[r].id = None /\ req[r].todo = {} /\ req[r].class \in verified
    BY DEF TablesInv, TypeOK, FetchProfiles, LookupOK
<1>2. rows # {} /\ rows \subseteq Row
    BY DEF TablesInv, TypeOK, RowsOf, LookupOK, FetchProfiles
<1>3. Step(r, s) /\ req[r].pc = "profiles" /\ UNCHANGED tables /\ NoFault
    BY DEF FetchProfiles
<1>4. req'[r] = s
    BY <1>3 DEF Step, TablesInv, TypeOK
<1>5. s \in RequestType /\ s.pc = "inlines" /\ s.rows = rows /\ s.id = None /\ s.todo = {}
      /\ s.class = req[r].class
    BY <1>1, <1>2 DEF RequestType, RequestPC
<1>6. LookupOK(r)' /\ PersistOK(r)'
    BY <1>1, <1>2, <1>3, <1>4, <1>5 DEF LookupOK, PersistOK, tables, RowsOf
<1> HIDE DEF s
<1> QED BY <1>3, <1>5, <1>6, ReadStep

\* The rows are some of those that the class has now, and none is missing that
\* would change the answer: the verdict on an inline build is that of now.
LEMMA FetchInlinesInv ==
    ASSUME TablesInv, Observe, NEW r \in Requests, FetchInlines(r)
    PROVE  TablesInv'
<1>1. PICK answer \in Decided(req[r].rows, verified) :
          Step(r, [req[r] EXCEPT !.pc = "fetch", !.answer = answer, !.rows = {}])
    BY DEF FetchInlines
<1> DEFINE s == [req[r] EXCEPT !.pc = "fetch", !.answer = answer, !.rows = {}]
<1>2. /\ req[r] \in RequestType /\ req[r].id = None /\ req[r].todo = {}
      /\ req[r].class \in verified
      /\ req[r].rows # {} /\ req[r].rows \subseteq RowsOf(req[r].class)
    BY DEF TablesInv, TypeOK, FetchInlines, LookupOK
<1>3. answer \in Answer
    BY DecidedType DEF TablesInv, TypeOK
<1>4. Step(r, s) /\ req[r].pc = "inlines" /\ UNCHANGED tables /\ NoFault
    BY <1>1 DEF FetchInlines
<1>5. req'[r] = s
    BY <1>4 DEF Step, TablesInv, TypeOK
<1>6. s \in RequestType /\ s.pc = "fetch" /\ s.answer = answer /\ s.id = None /\ s.todo = {}
      /\ s.class = req[r].class
    BY <1>2, <1>3 DEF RequestType, RequestPC
<1>7. answer \in Told(req[r].class)
    <2>1. Inlines(req[r].rows) \subseteq Inlines(RowsOf(req[r].class))
        BY <1>2 DEF Inlines
    <2>2. answer \in Decided(RowsOf(req[r].class), verified)
        BY <1>2, <2>1 DEF Decided
    <2> QED BY <1>2, <2>2 DEF Told
<1>8. answer \in answers'[r]
    BY <1>4, <1>5, <1>6, <1>7, ToldNow DEF tables, Looking
<1>9. LookupOK(r)' /\ PersistOK(r)'
    BY <1>5, <1>6, <1>8 DEF LookupOK, PersistOK
<1> HIDE DEF s
<1> QED BY <1>4, <1>6, <1>9, ReadStep

LEMMA FetchInv ==
    ASSUME TablesInv, Observe, NEW r \in Requests, Fetch(r)
    PROVE  TablesInv'
<1>1. PICK s \in {Idle, [req[r] EXCEPT !.pc = "compile", !.answer = "absent"]} : Step(r, s)
    BY DEF Fetch
<1>2. req[r] \in RequestType /\ req[r].id = None /\ req[r].todo = {} /\ req[r].pc = "fetch"
    BY DEF TablesInv, TypeOK, Fetch
<1>3. s \in RequestType /\ s.pc \in {"idle", "compile"} /\ s.id = None /\ s.todo = {}
    <2>1. CASE s = Idle
        BY <2>1, IdleType DEF Idle
    <2>2. CASE s = [req[r] EXCEPT !.pc = "compile", !.answer = "absent"]
        BY <1>2, <2>2 DEF RequestType, RequestPC, Answer
    <2> QED BY <1>1, <2>1, <2>2
<1>4. UNCHANGED tables /\ (NoFault \/ Fault)
    BY DEF Fetch
<1>5. req'[r] = s
    BY <1>1 DEF Step, TablesInv, TypeOK
<1>6. LookupOK(r)' /\ PersistOK(r)'
    BY <1>3, <1>5 DEF LookupOK, PersistOK
<1> QED BY <1>1, <1>2, <1>3, <1>4, <1>6, ReadStep

-----------------------------------------------------------------------------
(* Compiling and persisting *)

\* A trace that ends has written all it had to.
LEMMA EndInv ==
    ASSUME TablesInv, Observe, NEW r \in Requests, Step(r, Idle), UNCHANGED tables, NoFault \/ Fault,
           req[r].pc # "persist" \/ req[r].todo = {}
    PROVE  TablesInv'
<1>1. req'[r] = Idle
    BY DEF Step, TablesInv, TypeOK
<1>2. LookupOK(r)' /\ PersistOK(r)'
    BY <1>1 DEF LookupOK, PersistOK, Idle
<1>3. Idle \in RequestType /\ Idle.pc = "idle" /\ Idle.id = None /\ Idle.todo = {}
    BY IdleType DEF Idle
<1> QED BY <1>2, <1>3, ReadStep

LEMMA PiecesType ==
    ASSUME NEW c
    PROVE  /\ Pieces(c) \subseteq Piece
           /\ c \in Built => Pieces(c) = Piece
           /\ {"inlineFile", "inlineClass", "request", "rowA"} \subseteq Pieces(c)
BY DEF Pieces, Piece

LEMMA CompileInv ==
    ASSUME TablesInv, Observe, NEW r \in Requests, Compile(r)
    PROVE  TablesInv'
<1>1. req[r] \in RequestType /\ req[r].pc = "compile" /\ UNCHANGED tables /\ NoFault
    BY DEF TablesInv, TypeOK, Compile
<1>2. CASE Step(r, Idle)
    BY <1>1, <1>2, EndInv
<1>3. ASSUME NEW id \in FreshIds,
             Step(r, [Idle EXCEPT !.pc = "persist", !.class = req[r].class, !.id = id,
                         !.todo = Pieces(req[r].class)])
      PROVE  TablesInv'
    <2> DEFINE s == [Idle EXCEPT !.pc = "persist", !.class = req[r].class, !.id = id,
                         !.todo = Pieces(req[r].class)]
    <2>1. id \in Ids /\ id # None
        BY HashesAssumption DEF FreshIds
    <2>2. s \in RequestType
        BY <1>1, <2>1, IdleType, PiecesType DEF Idle, RequestType, RequestPC
    <2>3. s.pc = "persist" /\ s.id = id /\ s.class = req[r].class /\ s.todo = Pieces(req[r].class)
        BY DEF Idle
    <2>4. req'[r] = s
        BY <1>3 DEF Step, TablesInv, TypeOK
    <2> HIDE DEF s
    <2>5. LookupOK(r)'
        BY <2>3, <2>4 DEF LookupOK
    <2>6. PersistOK(r)'
        BY <2>3, <2>4, PiecesType DEF PersistOK, Piece
    <2>7. Step(r, s)
        BY <1>3 DEF s
    <2> QED BY <1>1, <2>1, <2>2, <2>3, <2>5, <2>6, <2>7, ReadStep
<1> QED BY <1>2, <1>3 DEF Compile

\* What a write that succeeds adds to the tables, and to what a trace knows.
LEMMA WriteGrows ==
    ASSUME TablesInv, NEW c \in Classes, NEW id \in Ids, NEW piece \in Piece, Write(piece, c, id), NoFault
    PROVE  /\ Grows
           /\ files' \in SUBSET Hashes /\ verified' \in SUBSET Hashes
           /\ profiles' \in SUBSET Row /\ voyager' \in SUBSET Ids
           /\ piece = "inlineFile" => Inline[c] \in files'
           /\ piece = "inlineClass" => Inline[c] \in verified'
           /\ piece = "file" => c \in files'
           /\ piece = "class" => c \in verified'
           /\ piece = "request" => id \in voyager'
           /\ piece = "rowB" => RowB(c, id) \in profiles'
           /\ \A row \in profiles' \ profiles :
                 piece \in {"rowA", "rowB"} /\ row.inline = Inline[c] /\ row.id = id
                 /\ row.class = IF piece = "rowA" THEN Inline[c] ELSE c
           /\ \A h \in verified' \ verified :
                 h = Inline[c] \/ (piece = "class" /\ h = c)
<1>1. {c, Inline[c]} \subseteq Hashes
    BY HashesOf
<1>2. CASE piece \in {"inlineFile", "file"}
    BY <1>1, <1>2 DEF Write, Add, Grows, NoFault, TablesInv, TypeOK
<1>3. CASE piece \in {"inlineClass", "class"}
    BY <1>1, <1>3 DEF Write, Add, Grows, NoFault, TablesInv, TypeOK
<1>4. CASE piece = "request"
    BY <1>1, <1>4 DEF Write, Add, Grows, NoFault, TablesInv, TypeOK
<1>5. CASE piece \in {"rowA", "rowB"}
    BY <1>1, <1>5 DEF Write, Add, Grows, NoFault, TablesInv, TypeOK, RowB, Row
<1> QED BY <1>2, <1>3, <1>4, <1>5 DEF Piece

LEMMA PersistInv ==
    ASSUME TablesInv, Observe, NEW r \in Requests, NEW piece \in Piece, Persist(r, piece)
    PROVE  TablesInv'
<1> DEFINE c == req[r].class
           id == req[r].id
           todo == req[r].todo
<1>1. /\ req[r] \in RequestType /\ req[r].pc = "persist" /\ todo \in SUBSET Piece
      /\ c \in Classes /\ id \in Ids /\ piece \in Due(todo)
    BY HashesAssumption DEF TablesInv, TypeOK, Persist, RequestType
<1>2. /\ req' \in [Requests -> RequestType]
      /\ req'[r].pc = "persist" /\ req'[r].class = c /\ req'[r].id = id
      /\ req'[r].todo = todo \ {piece}
      /\ \A q \in Requests \ {r} : req'[q] = req[q]
    BY <1>1 DEF TablesInv, TypeOK, Persist, Step, RequestType
<1>3. /\ piece \in todo /\ todo \subseteq Pieces(c)
      /\ piece \in {"request", "rowA", "rowB"} => Stages[1] \cap todo = {}
      /\ piece \in {"rowA", "rowB"} => "request" \notin todo
      /\ piece = "rowB" => todo = {"rowB"}
    BY <1>1, DueStage DEF TablesInv, PersistOK
<1>4. piece \in {"file", "class", "rowB"} => c \in Built
    BY <1>3 DEF Pieces
<1>5. c \in Built /\ todo \ {piece} # {} => "rowB" \in todo \ {piece}
    BY <1>1, <1>3 DEF TablesInv, PersistOK
<1>6. LookupOK(r)'
    BY <1>2 DEF LookupOK
<1>7. ASSUME Grows, files' \in SUBSET Hashes, verified' \in SUBSET Hashes,
             profiles' \in SUBSET Row, voyager' \in SUBSET Ids, NoFault \/ Fault,
             PersistOK(r)', RowsPointToBuilds', ProvenanceInv'
      PROVE  TablesInv'
    <2>1. TypeOK'
        <3>1. faults' \in 0..MaxFaults
            BY <1>7, FaultsAssumption DEF TablesInv, TypeOK, NoFault, Fault
        <3>2. \A q \in Requests : /\ (req'[q].pc = "persist") = (req'[q].id # None)
                                  /\ req'[q].todo # {} => req'[q].pc = "persist"
            BY <1>1, <1>2, HashesAssumption DEF TablesInv, TypeOK
        <3> QED BY <1>2, <1>7, <3>1, <3>2, AnswersType DEF TablesInv, TypeOK
    <2>2. \A q \in Requests : LookupOK(q)' /\ PersistOK(q)'
        BY <1>2, <1>6, <1>7, Waits DEF TablesInv
    <2> QED BY <1>7, <2>1, <2>2 DEF TablesInv
<1>8. CASE UNCHANGED tables /\ Fault
    <2>1. faults' # 0 /\ Grows
        BY <1>8, FaultsAssumption DEF TablesInv, TypeOK, Fault, Grows, tables
    <2>2. PersistOK(r)'
        BY <1>2, <1>3, <1>5, <2>1 DEF PersistOK
    <2>3. RowsPointToBuilds' /\ ProvenanceInv'
        BY <2>1 DEF RowsPointToBuilds, ProvenanceInv
    <2>4. files' \in SUBSET Hashes /\ verified' \in SUBSET Hashes
          /\ profiles' \in SUBSET Row /\ voyager' \in SUBSET Ids
        BY <1>8 DEF TablesInv, TypeOK, tables
    <2> QED BY <1>7, <1>8, <2>1, <2>2, <2>3, <2>4
<1>9. CASE Write(piece, c, id) /\ NoFault
    <2>1. /\ Grows
          /\ files' \in SUBSET Hashes /\ verified' \in SUBSET Hashes
          /\ profiles' \in SUBSET Row /\ voyager' \in SUBSET Ids
          /\ piece = "inlineFile" => Inline[c] \in files'
          /\ piece = "inlineClass" => Inline[c] \in verified'
          /\ piece = "file" => c \in files'
          /\ piece = "class" => c \in verified'
          /\ piece = "request" => id \in voyager'
          /\ piece = "rowB" => RowB(c, id) \in profiles'
          /\ \A row \in profiles' \ profiles :
                piece \in {"rowA", "rowB"} /\ row.inline = Inline[c] /\ row.id = id
                /\ row.class = IF piece = "rowA" THEN Inline[c] ELSE c
          /\ \A h \in verified' \ verified : h = Inline[c] \/ (piece = "class" /\ h = c)
        BY <1>1, <1>9, WriteGrows
    <2>2. PersistOK(r)'
        BY <1>1, <1>2, <1>3, <1>5, <2>1 DEF TablesInv, PersistOK, Grows, RowB
    <2>3. RowsPointToBuilds'
        <3> SUFFICES ASSUME faults' = 0, NEW row \in profiles', row.id # WalnutId
                     PROVE  {row.class, row.inline} \subseteq (files' \cap verified')
            BY DEF RowsPointToBuilds
        <3>1. CASE row \in profiles
            BY <2>1, <3>1 DEF Grows, TablesInv, RowsPointToBuilds
        <3>2. CASE row \notin profiles
            <4>1. Stages[1] \cap todo = {} /\ faults = 0
                BY <1>3, <2>1, <3>2 DEF Grows
            <4>2. Inline[c] \in files \cap verified /\ (c \in Built => c \in files \cap verified)
                BY <1>1, <4>1 DEF TablesInv, PersistOK, Stages
            <4> QED BY <1>4, <2>1, <3>2, <4>2 DEF Grows
        <3> QED BY <3>1, <3>2
    <2>4. ProvenanceInv'
        <3> SUFFICES ASSUME faults' = 0, NEW d \in Classes \cap verified'
                     PROVE  \/ HasProvenance(d)'
                            \/ \E row \in profiles' : row.id = WalnutId
                            \/ \E q \in Requests : Gives(q, d)'
            BY DEF ProvenanceInv
        <3>1. faults = 0
            BY <2>1 DEF Grows
        <3>2. CASE d \notin verified
            <4>1. piece = "class" /\ d = c
                BY <2>1, <3>2, HashesAssumption, <1>1
            <4>2. Gives(r, d)'
                BY <1>1, <1>2, <1>3, <1>4, <4>1 DEF Gives, TablesInv, PersistOK
            <4> QED BY <4>2
        <3>3. CASE d \in verified /\ HasProvenance(d)
            BY <2>1, <3>3 DEF Grows, HasProvenance, RowsOf
        <3>4. CASE \E row \in profiles : row.id = WalnutId
            BY <2>1, <3>4 DEF Grows
        <3>5. ASSUME NEW q \in Requests, Gives(q, d)
              PROVE  HasProvenance(d)' \/ Gives(q, d)'
            <4>1. CASE q # r \/ piece # "rowB"
                BY <1>2, <3>5, <4>1 DEF Gives
            <4>2. CASE q = r /\ piece = "rowB"
                <5>1. d = c /\ id \in voyager'
                    BY <1>1, <1>3, <2>1, <3>1, <3>5, <4>2 DEF Gives, TablesInv, PersistOK, Grows
                <5>2. RowB(d, id) \in RowsOf(d)'
                    BY <2>1, <4>2, <5>1 DEF RowsOf, RowB
                <5> QED BY <5>1, <5>2 DEF HasProvenance, RowB
            <4> QED BY <4>1, <4>2
        <3> QED BY <3>1, <3>2, <3>3, <3>4, <3>5 DEF TablesInv, ProvenanceInv
    <2> QED BY <1>7, <1>9, <2>1, <2>2, <2>3, <2>4
<1> QED BY <1>8, <1>9 DEF Persist

-----------------------------------------------------------------------------
(* Walnut's sessions, and steps that only read *)

LEMMA WalnutInv ==
    ASSUME TablesInv, Observe,
           (\E c \in Classes : WalnutProfiles(c)) \/ (\E h \in Hashes : WalnutStores(h))
    PROVE  TablesInv'
<1>1. /\ Grows
      /\ files' \in SUBSET Hashes /\ verified' \in SUBSET Hashes
      /\ profiles' \in SUBSET Row /\ voyager' \in SUBSET Ids
      /\ \A row \in profiles' \ profiles : row.id = WalnutId
      /\ \E row \in profiles' : row.id = WalnutId
      /\ UNCHANGED <<voyager, req, faults>>
    <2>1. CASE \E c \in Classes : WalnutProfiles(c)
        <3>1. PICK c \in Classes : WalnutProfiles(c)
            BY <2>1
        <3> DEFINE row(h) == [class |-> h, inline |-> Walnut[c], id |-> WalnutId]
        <3>2. profiles' = profiles \cup {row(c), row(Walnut[c])}
            BY <3>1 DEF WalnutProfiles
        <3>3. row(c) \in Row /\ row(Walnut[c]) \in Row
            BY HashesOf DEF Row
        <3>4. row(c).id = WalnutId /\ row(Walnut[c]).id = WalnutId
            OBVIOUS
        <3> HIDE DEF row
        <3>5. profiles' \in SUBSET Row /\ (\A x \in profiles' \ profiles : x.id = WalnutId)
              /\ \E x \in profiles' : x.id = WalnutId
            BY <3>2, <3>3, <3>4 DEF TablesInv, TypeOK
        <3> QED BY <3>1, <3>2, <3>5 DEF WalnutProfiles, NoFault, Grows, TablesInv, TypeOK
    <2>2. CASE \E h \in Hashes : WalnutStores(h)
        BY <2>2 DEF WalnutStores, NoFault, Grows, TablesInv, TypeOK, Add
    <2> QED BY <2>1, <2>2
<1>2. TypeOK'
    BY <1>1, AnswersType DEF TablesInv, TypeOK
<1>3. \A q \in Requests : LookupOK(q)' /\ PersistOK(q)'
    BY <1>1, Waits DEF TablesInv
<1>4. RowsPointToBuilds'
    BY <1>1 DEF TablesInv, RowsPointToBuilds, Grows
<1>5. ProvenanceInv'
    BY <1>1 DEF ProvenanceInv
<1> QED BY <1>2, <1>3, <1>4, <1>5 DEF TablesInv

LEMMA ReadInv ==
    ASSUME TablesInv, Observe, UNCHANGED tables, UNCHANGED req, NoFault \/ Fault
    PROVE  TablesInv'
<1>1. Grows /\ faults' \in 0..MaxFaults
    BY FaultsAssumption DEF Grows, tables, NoFault, Fault, TablesInv, TypeOK
<1>2. TypeOK'
    BY <1>1, AnswersType DEF TablesInv, TypeOK, tables
<1>3. \A q \in Requests : LookupOK(q)' /\ PersistOK(q)'
    BY <1>1, Waits DEF TablesInv
<1>4. RowsPointToBuilds'
    BY <1>1 DEF TablesInv, RowsPointToBuilds, Grows, tables
<1>5. ProvenanceInv'
    BY <1>1 DEF TablesInv, ProvenanceInv, Grows, tables, HasProvenance, RowsOf, Gives
<1> QED BY <1>2, <1>3, <1>4, <1>5 DEF TablesInv

LEMMA TableStepInv ==
    ASSUME TablesInv, Observe, TableStep
    PROVE  TablesInv'
<1>1. ASSUME NEW r \in Requests, RequestStep(r)
      PROVE  TablesInv'
    <2>1. CASE CompileFails(r)
        BY <2>1, EndInv DEF CompileFails
    <2>2. CASE Persisted(r)
        BY <2>2, EndInv DEF Persisted
    <2>3. CASE \E piece \in Piece : Persist(r, piece)
        BY <2>3, PersistInv
    <2>4. CASE \E c \in Classes, kind \in {"simple", "debug"} : Ask(r, c, kind)
        BY <2>4, AskInv
    <2> QED BY <1>1, <2>1, <2>2, <2>3, <2>4, QueryFailsInv, FetchClassesInv, FetchIdsInv,
               FetchProfilesInv, FetchInlinesInv, FetchInv, CompileInv DEF RequestStep
<1> QED BY <1>1, WalnutInv DEF TableStep

\* The tables only grow.
LEMMA TablesGrow ==
    ASSUME TablesInv, TableStep
    PROVE  Grows
<1>1. ASSUME NEW r \in Requests, RequestStep(r), ~\E piece \in Piece : Persist(r, piece)
      PROVE  Grows
    <2>1. UNCHANGED tables /\ (NoFault \/ Fault)
        BY <1>1 DEF RequestStep, Ask, QueryFails, FetchClasses, FetchIds, FetchProfiles, FetchInlines,
                    Fetch, CompileFails, Compile, Persisted
    <2> QED BY <2>1, FaultsAssumption DEF Grows, tables, NoFault, Fault, TablesInv, TypeOK
<1>2. ASSUME NEW r \in Requests, NEW piece \in Piece, Persist(r, piece)
      PROVE  Grows
    <2>1. CASE UNCHANGED tables /\ Fault
        BY <2>1, FaultsAssumption DEF Grows, tables, Fault, TablesInv, TypeOK
    <2>2. CASE Write(piece, req[r].class, req[r].id) /\ NoFault
        <3>1. req[r].class \in Classes /\ req[r].id \in Ids
            BY <1>2, HashesAssumption DEF TablesInv, TypeOK, Persist, RequestType
        <3> QED BY <2>2, <3>1, WriteGrows
    <2> QED BY <1>2, <2>1, <2>2 DEF Persist
<1>3. ASSUME NEW c \in Classes, WalnutProfiles(c) PROVE Grows
    BY <1>3 DEF WalnutProfiles, NoFault, Grows
<1>4. ASSUME NEW h \in Hashes, WalnutStores(h) PROVE Grows
    BY <1>4 DEF WalnutStores, NoFault, Grows, Add
<1> QED BY <1>1, <1>2, <1>3, <1>4 DEF TableStep

-----------------------------------------------------------------------------
(* Pages *)

LEMMA ProvenanceStays ==
    ASSUME Grows, NEW c, HasProvenance(c)
    PROVE  HasProvenance(c)'
BY DEF Grows, HasProvenance, RowsOf

LEMMA PageWaits ==
    ASSUME NEW p \in Pages, PageOK(p), Grows, page'[p] = page[p]
    PROVE  PageOK(p)'
<1>1. page[p].settled => HasProvenance(page[p].class)'
    BY ProvenanceStays DEF PageOK
<1>2. HasProvenance(page[p].class)' <=> \E row \in profiles' : row.class = page[p].class /\ row.id \in voyager'
    BY DEF HasProvenance, RowsOf
<1> QED BY <1>1, <1>2 DEF PageOK, Grows, HasProvenance, RowsOf

\* A step of a page, which writes nothing.
LEMMA PageStepInv ==
    ASSUME PagesInv, Observe, NEW p \in Pages, NEW s \in PageType, Put(p, s), s.pc = "idle" => s = Closed,
           Reads, NoFault \/ Fault, PageOK(p)'
    PROVE  PagesInv'
<1>1. /\ page' \in [Pages -> PageType] /\ page'[p] = s
      /\ \A q \in Pages \ {p} : page'[q] = page[q]
    BY DEF Put, PagesInv, PageTypeOK
<1>2. TablesInv' /\ Grows
    BY ReadInv, FaultsAssumption
       DEF PagesInv, Reads, Grows, tables, NoFault, Fault, TablesInv, TypeOK
<1>3. PageTypeOK'
    BY <1>1, <1>2 DEF PagesInv, PageTypeOK, TablesInv
<1>4. \A q \in Pages : PageOK(q)'
    BY <1>1, <1>2, PageWaits DEF PagesInv
<1> QED BY <1>2, <1>3, <1>4 DEF PagesInv

LEMMA PutIs ==
    ASSUME PagesInv, NEW p \in Pages, NEW s, Put(p, s)
    PROVE  page'[p] = s
BY DEF Put, PagesInv, PageTypeOK

LEMMA OpenInv ==
    ASSUME PagesInv, Observe, NEW p \in Pages, NEW c \in Classes, NEW kind \in Kinds,
           NEW withCode \in BOOLEAN, Open(p, c, kind, withCode)
    PROVE  PagesInv'
<1> DEFINE s == [Closed EXCEPT !.pc = "local", !.class = c, !.kind = kind,
                    !.withCode = withCode \/ kind = "chain",
                    !.ready = c \in verified \cap files, !.settled = Settled(c)]
<1>1. Put(p, s) /\ Reads /\ NoFault
    BY DEF Open
<1>2. Settled(c) => c \in verified /\ HasProvenance(c)
    BY DEF Settled, PagesInv, TablesInv, ProvenanceInv, Gives
<1>3. Settled(c) \in BOOLEAN
    BY DEF Settled
<1>4. s \in PageType
    <2>1. \A w, x, y \in BOOLEAN :
              [Closed EXCEPT !.pc = "local", !.class = c, !.kind = kind,
                             !.withCode = w, !.ready = x, !.settled = y] \in PageType
        <3>1. TAKE w, x, y \in BOOLEAN
        <3>2. \A z \in PageType : [z EXCEPT !.pc = "local", !.class = c, !.kind = kind] \in PageType
            BY DEF PageType, PagePC
        <3>3. \A z \in PageType : [z EXCEPT !.withCode = w, !.ready = x, !.settled = y] \in PageType
            BY DEF PageType
        <3>4. [Closed EXCEPT !.pc = "local", !.class = c, !.kind = kind, !.withCode = w,
                             !.ready = x, !.settled = y]
              = [[Closed EXCEPT !.pc = "local", !.class = c, !.kind = kind]
                  EXCEPT !.withCode = w, !.ready = x, !.settled = y]
            BY DEF Closed
        <3> QED BY <3>2, <3>3, <3>4, ClosedType
    <2>2. (withCode \/ kind = "chain") \in BOOLEAN /\ (c \in verified \cap files) \in BOOLEAN
        OBVIOUS
    <2> QED BY <1>3, <2>1, <2>2
<1>5. /\ s.pc = "local" /\ s.class = c /\ s.ready = (c \in verified \cap files)
      /\ s.settled = Settled(c) /\ s.hit = FALSE /\ s.failed = FALSE
    BY DEF Closed
<1>6. page'[p] = s
    BY <1>1, PutIs
<1> HIDE DEF s
<1>7. PageOK(p)'
    BY <1>1, <1>2, <1>5, <1>6 DEF PageOK, Reads, tables, HasProvenance, RowsOf
<1> QED BY <1>1, <1>4, <1>5, <1>7, PageStepInv

\* An error: what was claimed of the page is claimed no longer.
LEMMA PageFaultInv ==
    ASSUME PagesInv, Observe, NEW p \in Pages, NEW s \in PageType, PageFault(p, s), Reads,
           s.pc # "idle", s.class = page[p].class, s.ready = page[p].ready,
           s.settled = page[p].settled
    PROVE  PagesInv'
<1> DEFINE t == [s EXCEPT !.failed = TRUE]
<1>1. t \in PageType /\ t.failed = TRUE /\ t.pc # "idle" /\ t.class = page[p].class
      /\ t.ready = page[p].ready /\ t.settled = page[p].settled
    BY DEF PageType
<1>2. Put(p, t) /\ Fault
    BY DEF PageFault
<1>3. page'[p] = t
    BY <1>2, PutIs
<1> HIDE DEF t
<1>4. PageOK(p)
    BY DEF PagesInv
<1>5. t.settled => t.class \in verified' /\ HasProvenance(t.class)'
    BY <1>1, <1>4 DEF PageOK, Reads, tables, HasProvenance, RowsOf
<1>6. PageOK(p)'
    <2>1. t.ready => t.class \in verified' \cap files'
        BY <1>1, <1>4 DEF PageOK, Reads, tables
    <2> QED BY <1>1, <1>3, <1>5, <2>1 DEF PageOK, HasProvenance, RowsOf
<1> QED BY <1>1, <1>2, <1>6, PageStepInv

\* Without an error.
LEMMA PageGoes ==
    ASSUME PagesInv, Observe, NEW p \in Pages, NEW s \in PageType, Put(p, s), Reads, NoFault,
           s.pc # "idle", s.class = page[p].class, s.ready = page[p].ready,
           s.settled = page[p].settled,
           s.ready /\ ~s.failed =>
               /\ s.pc # "voyager" /\ ~s.hit
               /\ s.withCode /\ s.pc \in {"sources", "done"} => s.code \in files,
           s.settled /\ ~s.failed =>
               /\ s.pc \in {"ids", "profile", "inline", "file", "voyager", "sources"} => s.local
               /\ s.pc = "done" /\ s.kind = "page" => s.sources = Source
    PROVE  PagesInv'
<1>1. page'[p] = s
    BY PutIs
<1>2. PageOK(p)
    BY DEF PagesInv
<1>3. s.settled => s.class \in verified' /\ HasProvenance(s.class)'
    BY <1>2 DEF PageOK, Reads, tables, HasProvenance, RowsOf
<1>4. PageOK(p)'
    <2>1. s.ready => s.class \in verified' \cap files'
        BY <1>2 DEF PageOK, Reads, tables
    <2>2. files' = files
        BY DEF Reads, tables
    <2> QED BY <1>1, <1>3, <2>1, <2>2 DEF PageOK, HasProvenance, RowsOf
<1> QED BY <1>4, PageStepInv

LEMMA LocalInv ==
    ASSUME PagesInv, Observe, NEW p \in Pages, Local(p)
    PROVE  PagesInv'
<1>1. page[p] \in PageType /\ page[p].pc = "local" /\ Reads /\ PageOK(p)
    BY DEF PagesInv, PageTypeOK, Local, At
<1>2. CASE PageFault(p, Goto(p, "voyager"))
    <2> DEFINE s == Goto(p, "voyager")
    <2>1. s \in PageType /\ s.pc # "idle" /\ s.class = page[p].class /\ s.ready = page[p].ready
          /\ s.settled = page[p].settled
        BY <1>1 DEF Goto, PageType, PagePC
    <2>2. PageFault(p, s)
        BY <1>2
    <2> HIDE DEF s
    <2> QED BY <1>1, <2>1, <2>2, PageFaultInv
<1>3. CASE page[p].class \notin verified /\ NoFault /\ Put(p, Goto(p, "voyager"))
    <2> DEFINE s == Goto(p, "voyager")
    <2>1. s \in PageType /\ s.pc = "voyager" /\ s.class = page[p].class /\ s.ready = page[p].ready
          /\ s.settled = page[p].settled
        BY <1>1 DEF Goto, PageType, PagePC
    <2>2. Put(p, s) /\ ~page[p].ready /\ ~page[p].settled
        BY <1>1, <1>3 DEF PageOK
    <2> HIDE DEF s
    <2> QED BY <1>1, <1>3, <2>1, <2>2, PageGoes
<1>4. ASSUME page[p].class \in verified, NoFault,
             NEW l \in {"file", "sources", "ids"}, l = "sources" => ~page[p].withCode,
             Put(p, [Goto(p, l) EXCEPT !.local = TRUE])
      PROVE  PagesInv'
    <2> DEFINE s == [Goto(p, l) EXCEPT !.local = TRUE]
    <2>1. s \in PageType /\ s.pc = l /\ s.class = page[p].class /\ s.ready = page[p].ready
          /\ s.settled = page[p].settled /\ s.local = TRUE /\ s.failed = page[p].failed
          /\ s.hit = page[p].hit /\ s.withCode = page[p].withCode
        BY <1>1 DEF Goto, PageType, PagePC
    <2>2. Put(p, s)
        BY <1>4
    <2>3. s.ready /\ ~s.failed => ~s.hit
        BY <1>1, <2>1 DEF PageOK
    <2> HIDE DEF s
    <2> QED BY <1>1, <1>4, <2>1, <2>2, <2>3, PageGoes
<1>5. CASE /\ page[p].class \in verified /\ NoFault
           /\ Put(p, [Goto(p, IF page[p].kind = "chain" THEN "file"
                                ELSE IF page[p].withCode THEN "ids" ELSE "sources")
                         EXCEPT !.local = TRUE])
    <2>1. CASE page[p].kind = "chain"
        BY <1>4, <1>5, <2>1
    <2>2. CASE page[p].kind # "chain" /\ ~page[p].withCode
        BY <1>4, <1>5, <2>2
    <2>3. CASE page[p].kind # "chain" /\ page[p].withCode
        BY <1>4, <1>5, <2>3
    <2> QED BY <2>1, <2>2, <2>3
<1> QED BY <1>2, <1>3, <1>5 DEF Local

LEMMA PageIdsInv ==
    ASSUME PagesInv, Observe, NEW p \in Pages, PageIds(p)
    PROVE  PagesInv'
<1> DEFINE ids == {row.id : row \in RowsOf(page[p].class)}
<1>1. page[p] \in PageType /\ page[p].pc = "ids" /\ Reads /\ PageOK(p)
    BY DEF PagesInv, PageTypeOK, PageIds, At
<1>2. CASE PageFault(p, Goto(p, "voyager"))
    <2> DEFINE s == Goto(p, "voyager")
    <2>1. s \in PageType /\ s.pc # "idle" /\ s.class = page[p].class /\ s.ready = page[p].ready
          /\ s.settled = page[p].settled
        BY <1>1 DEF Goto, PageType, PagePC
    <2>2. PageFault(p, s)
        BY <1>2
    <2> HIDE DEF s
    <2> QED BY <1>1, <2>1, <2>2, PageFaultInv
<1>3. ASSUME NoFault, NEW l \in {"file", "profile"}, Put(p, [Goto(p, l) EXCEPT !.ids = ids])
      PROVE  PagesInv'
    <2> DEFINE s == [Goto(p, l) EXCEPT !.ids = ids]
    <2>1. ids \subseteq Ids \cup {WalnutId}
        BY DEF PagesInv, TablesInv, TypeOK, RowsOf, Row
    <2>2. s \in PageType /\ s.pc = l /\ s.class = page[p].class /\ s.ready = page[p].ready
          /\ s.settled = page[p].settled /\ s.local = page[p].local /\ s.failed = page[p].failed
          /\ s.hit = page[p].hit
        BY <1>1, <2>1 DEF Goto, PageType, PagePC
    <2>3. Put(p, s)
        BY <1>3
    <2> HIDE DEF s
    <2> QED BY <1>1, <1>3, <2>2, <2>3, PageGoes DEF PageOK
<1>4. CASE NoFault /\ Put(p, [Goto(p, IF ids = {} THEN "file" ELSE "profile") EXCEPT !.ids = ids])
    BY <1>3, <1>4
<1> QED BY <1>2, <1>4 DEF PageIds

LEMMA PageProfileInv ==
    ASSUME PagesInv, Observe, NEW p \in Pages, PageProfile(p)
    PROVE  PagesInv'
<1>1. page[p] \in PageType /\ page[p].pc = "profile" /\ Reads /\ PageOK(p)
    BY DEF PagesInv, PageTypeOK, PageProfile, At
<1>2. CASE PageFault(p, [Goto(p, "voyager") EXCEPT !.ids = {}])
    <2> DEFINE s == [Goto(p, "voyager") EXCEPT !.ids = {}]
    <2>1. s \in PageType /\ s.pc # "idle" /\ s.class = page[p].class /\ s.ready = page[p].ready
          /\ s.settled = page[p].settled
        BY <1>1 DEF Goto, PageType, PagePC
    <2>2. PageFault(p, s)
        BY <1>2
    <2> HIDE DEF s
    <2> QED BY <1>1, <2>1, <2>2, PageFaultInv
<1>3. ASSUME NoFault, NEW row \in RowsOf(page[p].class),
             Put(p, [Goto(p, "inline") EXCEPT !.inline = row.inline, !.ids = {}])
      PROVE  PagesInv'
    <2> DEFINE s == [Goto(p, "inline") EXCEPT !.inline = row.inline, !.ids = {}]
    <2>1. row.inline \in Hashes
        BY DEF PagesInv, TablesInv, TypeOK, RowsOf, Row
    <2>2. s \in PageType /\ s.pc = "inline" /\ s.class = page[p].class /\ s.ready = page[p].ready
          /\ s.settled = page[p].settled /\ s.local = page[p].local /\ s.failed = page[p].failed
          /\ s.hit = page[p].hit
        BY <1>1, <2>1 DEF Goto, PageType, PagePC
    <2>3. Put(p, s)
        BY <1>3
    <2> HIDE DEF s
    <2> QED BY <1>1, <1>3, <2>2, <2>3, PageGoes DEF PageOK
<1> QED BY <1>2, <1>3 DEF PageProfile

LEMMA PageInlineInv ==
    ASSUME PagesInv, Observe, NEW p \in Pages, PageInline(p)
    PROVE  PagesInv'
<1>1. page[p] \in PageType /\ page[p].pc = "inline" /\ Reads /\ PageOK(p)
    BY DEF PagesInv, PageTypeOK, PageInline, At
<1>2. CASE PageFault(p, [Goto(p, "voyager") EXCEPT !.inline = None])
    <2> DEFINE s == [Goto(p, "voyager") EXCEPT !.inline = None]
    <2>1. s \in PageType /\ s.pc # "idle" /\ s.class = page[p].class /\ s.ready = page[p].ready
          /\ s.settled = page[p].settled
        BY <1>1 DEF Goto, PageType, PagePC
    <2>2. PageFault(p, s)
        BY <1>2
    <2> HIDE DEF s
    <2> QED BY <1>1, <2>1, <2>2, PageFaultInv
<1>3. CASE NoFault /\ Put(p, [Goto(p, "file") EXCEPT
                                 !.inline = IF page[p].inline \in verified THEN @ ELSE None])
    <2> DEFINE i == IF page[p].inline \in verified THEN page[p].inline ELSE None
               s == [Goto(p, "file") EXCEPT !.inline = i]
    <2>1. i \in Hashes \cup {None}
        BY <1>1 DEF PageType
    <2>2. s \in PageType /\ s.pc = "file" /\ s.class = page[p].class /\ s.ready = page[p].ready
          /\ s.settled = page[p].settled /\ s.local = page[p].local /\ s.failed = page[p].failed
          /\ s.hit = page[p].hit
        BY <1>1, <2>1 DEF Goto, PageType, PagePC
    <2>3. Put(p, s)
        BY <1>1, <1>3 DEF Goto, PageType
    <2> HIDE DEF s
    <2> QED BY <1>1, <1>3, <2>2, <2>3, PageGoes DEF PageOK
<1> QED BY <1>2, <1>3 DEF PageInline
LEMMA PageFileInv ==
    ASSUME PagesInv, Observe, NEW p \in Pages, PageFile(p)
    PROVE  PagesInv'
<1> DEFINE found == FilesOf(p) \cap files
           code == IF page[p].inline \in found THEN page[p].inline ELSE page[p].class
           next == IF page[p].kind = "chain" THEN "done" ELSE "sources"
           sources == IF next = "done" THEN {"walnut"} ELSE {}
           without == [Goto(p, "voyager") EXCEPT !.inline = None]
<1>1. page[p] \in PageType /\ page[p].pc = "file" /\ Reads /\ PageOK(p)
    BY DEF PagesInv, PageTypeOK, PageFile, At
<1>2. /\ without \in PageType /\ without.pc = "voyager" /\ without.class = page[p].class
      /\ without.ready = page[p].ready /\ without.settled = page[p].settled
      /\ without.local = page[p].local
    BY <1>1 DEF Goto, PageType, PagePC
<1>3. CASE PageFault(p, without)
    <2> HIDE DEF without
    <2> QED BY <1>1, <1>2, <1>3, PageFaultInv
<1>4. CASE found = {} /\ NoFault /\ Put(p, without)
    <2>1. page[p].class # None
        BY <1>1, HashesAssumption DEF PageType, Hashes
    <2>2. page[p].class \notin files
        BY <1>4, <2>1 DEF FilesOf
    <2>3. ~page[p].ready
        BY <1>1, <2>2 DEF PageOK
    <2>4. page[p].settled /\ ~page[p].failed => page[p].local
        BY <1>1 DEF PageOK
    <2>5. without.failed = page[p].failed
        BY <1>1 DEF Goto, PageType
    <2> HIDE DEF without
    <2> QED BY <1>1, <1>2, <1>4, <2>3, <2>4, <2>5, PageGoes
<1>5. CASE found # {} /\ NoFault
           /\ Put(p, [without EXCEPT !.pc = next, !.code = code, !.sources = sources])
    <2> DEFINE s == [without EXCEPT !.pc = next, !.code = code, !.sources = sources]
    <2>1. code \in files
        <3>1. found \subseteq {page[p].inline, page[p].class}
            BY DEF FilesOf
        <3> QED BY <1>5, <3>1
    <2>2. code \in Hashes /\ next \in PagePC /\ sources \in SUBSET Source
        BY <2>1 DEF PagesInv, TablesInv, TypeOK, PagePC, Source
    <2> HIDE DEF code
    <2>3. /\ s \in PageType /\ s.pc = next /\ s.class = page[p].class /\ s.code = code
          /\ s.ready = page[p].ready /\ s.settled = page[p].settled /\ s.kind = page[p].kind
          /\ s.local = page[p].local /\ s.hit = page[p].hit /\ s.failed = page[p].failed
        BY <1>1, <2>2 DEF Goto, PageType, PagePC
    <2>4. Put(p, s)
        BY <1>5
    <2>5. s.ready /\ ~s.failed => ~s.hit
        BY <1>1, <2>3 DEF PageOK
    <2>6. s.settled /\ ~s.failed => s.local
        BY <1>1, <2>3 DEF PageOK
    <2>7. s.pc \in {"done", "sources"} /\ (s.pc = "done" => s.kind = "chain")
        BY <2>3
    <2> HIDE DEF s, next, found, sources, without
    <2> QED BY <1>1, <1>5, <2>1, <2>3, <2>4, <2>5, <2>6, <2>7, PageGoes
<1> QED BY <1>3, <1>4, <1>5 DEF PageFile

LEMMA PageVoyagerInv ==
    ASSUME PagesInv, Observe, NEW p \in Pages, PageVoyager(p)
    PROVE  PagesInv'
<1>1. page[p] \in PageType /\ page[p].pc = "voyager" /\ Reads /\ NoFault /\ PageOK(p)
    BY DEF PagesInv, PageTypeOK, PageVoyager, At
<1>2. PICK hit \in BOOLEAN :
          Put(p, [Goto(p, IF page[p].kind = "chain" THEN "done" ELSE "sources") EXCEPT
                     !.hit = hit,
                     !.code = IF hit /\ page[p].withCode THEN "voyager" ELSE None,
                     !.sources = IF hit /\ page[p].kind = "chain" THEN {"voyager"} ELSE {}])
    BY DEF PageVoyager
<1> DEFINE l == IF page[p].kind = "chain" THEN "done" ELSE "sources"
           code == IF hit /\ page[p].withCode THEN "voyager" ELSE None
           sources == IF hit /\ page[p].kind = "chain" THEN {"voyager"} ELSE {}
           s == [Goto(p, l) EXCEPT !.hit = hit, !.code = code, !.sources = sources]
<1>3. l \in PagePC /\ code \in Hashes \cup {"voyager", None} /\ sources \in SUBSET Source
    BY DEF PagePC, Source
<1> HIDE DEF code, sources
<1>4. /\ s \in PageType /\ s.pc = l /\ s.class = page[p].class /\ s.ready = page[p].ready
      /\ s.settled = page[p].settled /\ s.kind = page[p].kind
      /\ s.local = page[p].local /\ s.failed = page[p].failed
    BY <1>1, <1>3 DEF Goto, PageType
<1>5. Put(p, s)
    BY <1>2 DEF code, sources
<1>6. ~(s.ready /\ ~s.failed) /\ (s.settled /\ ~s.failed => s.local)
    BY <1>1, <1>4 DEF PageOK
<1>7. s.pc \in {"done", "sources"} /\ (s.pc = "done" => s.kind = "chain")
    BY <1>4
<1> HIDE DEF s, l
<1> QED BY <1>1, <1>4, <1>5, <1>6, <1>7, PageGoes

LEMMA PageSourcesInv ==
    ASSUME PagesInv, Observe, NEW p \in Pages, PageSources(p)
    PROVE  PagesInv'
<1>1. page[p] \in PageType /\ page[p].pc = "sources" /\ Reads /\ PageOK(p)
    BY DEF PagesInv, PageTypeOK, PageSources, At
<1>2. \A known : ClassSources(p, known) \in SUBSET Source
    BY DEF ClassSources, Source
<1>3. ASSUME NEW set \in SUBSET Source
      PROVE  LET s == [Goto(p, "done") EXCEPT !.sources = set]
             IN /\ s \in PageType /\ s.pc = "done" /\ s.class = page[p].class
                /\ s.ready = page[p].ready /\ s.settled = page[p].settled /\ s.sources = set
                /\ s.hit = page[p].hit /\ s.withCode = page[p].withCode /\ s.code = page[p].code
                /\ s.failed = page[p].failed
    BY <1>1 DEF Goto, PageType, PagePC
<1>4. CASE PageFault(p, [Goto(p, "done") EXCEPT !.sources = ClassSources(p, FALSE)])
    <2> DEFINE set == ClassSources(p, FALSE)
               s == [Goto(p, "done") EXCEPT !.sources = set]
    <2>1. set \in SUBSET Source
        BY <1>2
    <2>2. PageFault(p, s)
        BY <1>4
    <2> HIDE DEF set
    <2>3. /\ s \in PageType /\ s.pc = "done" /\ s.class = page[p].class
          /\ s.ready = page[p].ready /\ s.settled = page[p].settled
        BY <1>3, <2>1
    <2> HIDE DEF s
    <2> QED BY <1>1, <2>2, <2>3, PageFaultInv
<1>5. CASE NoFault /\ Put(p, [Goto(p, "done") EXCEPT
                                 !.sources = ClassSources(p, HasProvenance(page[p].class))])
    <2> DEFINE set == ClassSources(p, HasProvenance(page[p].class))
               s == [Goto(p, "done") EXCEPT !.sources = set]
    <2>1. set \in SUBSET Source
        BY <1>2
    <2>2. page[p].settled /\ ~page[p].failed => set = Source
        BY <1>1 DEF PageOK, ClassSources, Source
    <2>3. Put(p, s)
        BY <1>5
    <2> HIDE DEF set
    <2>4. /\ s \in PageType /\ s.pc = "done" /\ s.class = page[p].class
          /\ s.ready = page[p].ready /\ s.settled = page[p].settled /\ s.sources = set
          /\ s.hit = page[p].hit /\ s.withCode = page[p].withCode /\ s.code = page[p].code
          /\ s.failed = page[p].failed
        BY <1>3, <2>1
    <2>5. s.ready /\ ~s.failed => ~s.hit /\ (s.withCode => s.code \in files)
        BY <1>1, <2>4 DEF PageOK
    <2> HIDE DEF s
    <2> QED BY <1>1, <1>5, <2>2, <2>3, <2>4, <2>5, PageGoes
<1> QED BY <1>4, <1>5 DEF PageSources

LEMMA CloseInv ==
    ASSUME PagesInv, Observe, NEW p \in Pages, Close(p)
    PROVE  PagesInv'
<1>1. Put(p, Closed) /\ Reads /\ NoFault
    BY DEF Close
<1>2. page'[p] = Closed
    BY <1>1, PutIs
<1>3. PageOK(p)'
    BY <1>2 DEF PageOK, Closed
<1> QED BY <1>1, <1>3, ClosedType, PageStepInv

-----------------------------------------------------------------------------
(* The invariant *)

LEMMA PagesInit ==
    ASSUME PageInit
    PROVE  PagesInv
<1>1. PageTypeOK
    <2>1. TypeOK
        <3>1. req \in [Requests -> RequestType] /\ answers \in [Requests -> SUBSET Answer]
              /\ \A r \in Requests : req[r].pc = "idle" /\ req[r].id = None /\ req[r].todo = {}
            BY IdleType DEF PageInit, Init, Idle
        <3>2. faults \in 0..MaxFaults
            BY FaultsAssumption DEF PageInit, Init
        <3> QED BY <3>1, <3>2 DEF PageInit, Init, TypeOK
    <2> QED BY <2>1, ClosedType DEF PageTypeOK, PageInit
<1>2. \A r \in Requests : LookupOK(r) /\ PersistOK(r)
    BY DEF PageInit, Init, Idle, LookupOK, PersistOK
<1>3. RowsPointToBuilds /\ ProvenanceInv
    BY DEF PageInit, Init, RowsPointToBuilds, ProvenanceInv
<1>4. \A p \in Pages : PageOK(p)
    BY DEF PageInit, Closed, PageOK
<1> QED BY <1>1, <1>2, <1>3, <1>4 DEF PagesInv, TablesInv, PageTypeOK

LEMMA PagesStep ==
    ASSUME PagesInv, [PageNext]_PageVars
    PROVE  PagesInv'
<1>1. CASE TableStep /\ UNCHANGED page /\ Observe
    <2>1. TablesInv' /\ Grows
        BY <1>1, TableStepInv, TablesGrow DEF PagesInv
    <2>2. \A p \in Pages : PageOK(p)'
        BY <1>1, <2>1, PageWaits DEF PagesInv
    <2>3. PageTypeOK'
        BY <1>1, <2>1 DEF PagesInv, PageTypeOK, TablesInv
    <2> QED BY <2>1, <2>2, <2>3 DEF PagesInv
<1>2. ASSUME NEW p \in Pages, PageStep(p), Observe
      PROVE  PagesInv'
    BY <1>2, OpenInv, LocalInv, PageIdsInv, PageProfileInv, PageInlineInv, PageFileInv,
       PageVoyagerInv, PageSourcesInv, CloseInv DEF PageStep
<1>3. CASE UNCHANGED PageVars
    BY <1>3 DEF PageVars, vars, tables, PagesInv, PageTypeOK, TablesInv, TypeOK, LookupOK, PersistOK,
        RowsPointToBuilds, ProvenanceInv, PageOK, HasProvenance, RowsOf, RowB, Gives
<1> QED BY <1>1, <1>2, <1>3 DEF PageNext

LEMMA PageSafety ==
    PageSpec => PageInit /\ [][PageNext]_PageVars
BY PTL DEF PageSpec

\* The invariant holds, for any constants.
THEOREM PagesInvCorrect == PageSpec => []PagesInv
BY PagesInit, PagesStep, PageSafety, PTL

\* The tables, the traces and the pages keep their types, and a page that is
\* closed keeps nothing of what it looked up (classes.rs, db.rs).
THEOREM PageTypeCorrect == PageSpec => []PageTypeOK
<1>1. PagesInv => PageTypeOK
    BY DEF PagesInv
<1> QED BY <1>1, PagesInvCorrect, PTL

\* What a lookup tells a trace by four queries is what one query would have
\* told at some moment of it (db.rs, fetch_verified_classes).
THEOREM LookupIsAtomicCorrect == PageSpec => []LookupIsAtomic
<1>1. PagesInv => LookupIsAtomic
    BY DEF PagesInv, TablesInv, LookupOK, LookupIsAtomic
<1> QED BY <1>1, PagesInvCorrect, PTL

\* As long as nothing failed, the builds that a Voyager row points to are
\* verified and stored (voyager_persistence.rs).
THEOREM RowsPointToBuildsCorrect == PageSpec => []RowsPointToBuilds
<1>1. PagesInv => RowsPointToBuilds
    BY DEF PagesInv, TablesInv
<1> QED BY <1>1, PagesInvCorrect, PTL

\* A page of a stored class shows the own source code and does not ask
\* Voyager, whatever is written meanwhile (s3.rs, classes.rs).
THEOREM StoredCodeIsShownCorrect == PageSpec => []StoredCodeIsShown
<1>1. PagesInv => StoredCodeIsShown
    BY DEF PagesInv, PageOK, StoredCodeIsShown, At
<1> QED BY <1>1, PagesInvCorrect, PTL

\* A page of a class that was persisted from Voyager, with nothing lost, says
\* so (db.rs, class_has_voyager_provenance).
THEOREM ProvenanceIsToldCorrect == PageSpec => []ProvenanceIsTold
<1>1. PagesInv => ProvenanceIsTold
    BY DEF PagesInv, PageOK, ProvenanceIsTold, At
<1> QED BY <1>1, PagesInvCorrect, PTL
=============================================================================
