------------------------ MODULE SimulationTraceProofs ------------------------
(***************************************************************************)
(* What is shown of an executed transaction, for any contracts, classes    *)
(* and bounds: the calls are numbered as a tree with the flame chart of    *)
(* the visible ones, the failure that is reported is the first one, no     *)
(* call is left out, and the debugger goes through the calls in order.     *)
(*                                                                         *)
(* WalkInv says where the walk through the executor's trace is, and which  *)
(* of the failed calls it has kept; BuildInv which of the panics the       *)
(* function calls have left, in whatever order they were built.  OrdersInv *)
(* says how the numbers of calls follow the paths to the root.  MergeInv   *)
(* says that the trace and the work left to merge stand, together, for all *)
(* steps of all calls at any time, and StepsInv at which of the steps the  *)
(* calls and functions are shown meanwhile.                                *)
(***************************************************************************)
EXTENDS SimulationTrace, SequenceTheorems, FiniteSetTheorems, WellFoundedInduction, TLAPS

LEMMA Least ==
    ASSUME NEW T, T \subseteq Nat, T # {}
    PROVE  \E x \in T : \A y \in T : x <= y
<1> DEFINE R == {ss \in Nat \X Nat : ss[1] < ss[2]}
<1>1. IsWellFoundedOn(R, Nat)
    BY NatLessThanWellFounded DEF OpToRel
<1> HIDE DEF R
<1>2. PICK x \in T : \A y \in T : ~(<<y, x>> \in R)
    BY <1>1, WFMin
<1>3. \A y \in T : ~(y < x)
    BY <1>2 DEF R
<1> QED BY <1>3

-----------------------------------------------------------------------------
(* The way from a call up to the root *)

\* Calls are numbered before those they have made.
Numbered(cs) ==
    /\ DOMAIN cs \subseteq Nat \ {0}
    /\ \A c \in DOMAIN cs : 1..c \subseteq DOMAIN cs
    /\ \A c \in DOMAIN cs : cs[c].parent \in Nat /\ cs[c].parent < c

\* What the recursion of Path defines: the paths up to a number are made from
\* those up to the number before.
LEMMA PathIs ==
    ASSUME NEW cs, Numbered(cs), NEW N \in Nat, DOMAIN cs = 1..N
    PROVE  /\ PathIn(cs)[0] = {}
           /\ \A c \in DOMAIN cs : PathIn(cs)[c] = {c} \cup PathIn(cs)[cs[c].parent]
<1> DEFINE P(c) == cs[c].parent
           Good(n, f) == /\ \A c \in 1..n : f[c] = {c} \cup f[P(c)]
                         /\ \A c \in Nat \ (1..n) : f[c] = {}
           Upto(n) == \E f \in [Nat -> SUBSET Nat] : Good(n, f)
           T == {n \in 0..N : ~Upto(n)}
<1>1. \A c \in 1..N : P(c) \in Nat /\ P(c) < c
    BY DEF Numbered
<1> HIDE DEF P
<1>2. Upto(N)
    <2> SUFFICES ASSUME T # {} PROVE FALSE
        <3> HIDE DEF Upto
        <3> QED OBVIOUS
    <2>1. PICK n \in T : \A m \in T : n <= m
        <3>1. T \subseteq Nat
            OBVIOUS
        <3> HIDE DEF T
        <3> QED BY <3>1, Least
    <2>2. n \in 0..N /\ ~Upto(n)
        OBVIOUS
    <2>3. Upto(0)
        <3> DEFINE f == [c \in Nat |-> {}]
        <3>1. f \in [Nat -> SUBSET Nat] /\ Good(0, f)
            OBVIOUS
        <3> QED BY <3>1
    <2>4. n \in 1..N
        <3>1. n # 0
            BY <2>2, <2>3
        <3> QED BY <2>2, <3>1
    <2>5. Upto(n - 1)
        <3>1. n - 1 \in 0..N /\ ~(n <= n - 1)
            BY <2>4
        <3>2. n - 1 \notin T
            BY <2>1, <3>1
        <3> QED BY <3>1, <3>2
    <2>6. PICK f \in [Nat -> SUBSET Nat] : Good(n - 1, f)
        BY <2>5
    <2> DEFINE g == [c \in Nat |-> IF c = n THEN {n} \cup f[P(n)] ELSE f[c]]
    <2>7. g \in [Nat -> SUBSET Nat]
        <3>1. f[P(n)] \in SUBSET Nat /\ {n} \in SUBSET Nat
            BY <1>1, <2>4
        <3>2. {n} \cup f[P(n)] \in SUBSET Nat
            BY <3>1
        <3> HIDE DEF Good, Upto, T
        <3> QED BY <3>2
    <2>8. Good(n, g)
        <3>1. ASSUME NEW c \in 1..n PROVE g[c] = {c} \cup g[P(c)]
            <4>1. c \in 1..N /\ c \in Nat
                BY <2>4
            <4>2. P(c) \in Nat /\ P(c) # n
                BY <1>1, <2>4, <4>1
            <4>3. g[P(c)] = f[P(c)]
                BY <4>2
            <4>4. CASE c = n
                BY <4>1, <4>3, <4>4
            <4>5. CASE c # n
                <5>1. c \in 1..n - 1
                    BY <2>4, <4>5
                <5>2. f[c] = {c} \cup f[P(c)]
                    BY <2>6, <5>1
                <5> QED BY <4>1, <4>3, <4>5, <5>2
            <4> QED BY <4>4, <4>5
        <3>2. ASSUME NEW c \in Nat \ (1..n) PROVE g[c] = {}
            <4>1. c # n /\ c \in Nat \ (1..n - 1)
                BY <2>4
            <4> QED BY <2>6, <4>1
        <3> QED BY <3>1, <3>2
    <2> HIDE DEF g, Good
    <2> QED BY <2>2, <2>7, <2>8
<1>3. PICK f \in [Nat -> SUBSET Nat] : Good(N, f)
    BY <1>2
<1> DEFINE path == CHOOSE g : g = [c \in Nat |-> IF c \notin DOMAIN cs THEN {}
                                                 ELSE {c} \cup g[cs[c].parent]]
<1>4. f = [c \in Nat |-> IF c \notin DOMAIN cs THEN {} ELSE {c} \cup f[cs[c].parent]]
    BY <1>3 DEF P
<1>5. path = [c \in Nat |-> IF c \notin DOMAIN cs THEN {} ELSE {c} \cup path[cs[c].parent]]
    BY <1>4
<1>6. PathIn(cs) = path
    BY DEF PathIn
<1> HIDE DEF path
<1>7. path[0] = {}
    BY <1>5
<1>8. ASSUME NEW c \in DOMAIN cs PROVE path[c] = {c} \cup path[cs[c].parent]
    <2> DEFINE Solves(p, x) == IF x \notin DOMAIN cs THEN {} ELSE {x} \cup p[cs[x].parent]
    <2>1. path = [x \in Nat |-> Solves(path, x)]
        BY <1>5
    <2>2. c \in Nat
        OBVIOUS
    <2> HIDE DEF Solves
    <2>3. path[c] = Solves(path, c)
        BY <2>1, <2>2
    <2> QED BY <2>3 DEF Solves
<1> QED BY <1>6, <1>7, <1>8

\* A path leads up, to calls with lower numbers and levels.
LEMMA PathLeadsUp ==
    ASSUME NEW cs, Numbered(cs), NEW N \in Nat, DOMAIN cs = 1..N,
           \A c \in DOMAIN cs : cs[c].level \in Nat,
           \A c \in DOMAIN cs \ {1} : cs[c].level = cs[cs[c].parent].level + 1
    PROVE  \A c \in DOMAIN cs : \A d \in PathIn(cs)[c] :
               /\ d \in DOMAIN cs /\ d <= c
               /\ d # c => cs[d].level < cs[c].level
<1> DEFINE Up(c) == \A d \in PathIn(cs)[c] : /\ d \in DOMAIN cs /\ d <= c
                                             /\ d # c => cs[d].level < cs[c].level
           T == {c \in 1..N : ~Up(c)}
<1> SUFFICES ASSUME T # {} PROVE FALSE
    OBVIOUS
<1>1. PICK c \in T : \A m \in T : c <= m
    <2>1. T \subseteq Nat
        OBVIOUS
    <2> HIDE DEF T
    <2> QED BY <2>1, Least
<1>2. c \in 1..N /\ ~Up(c)
    OBVIOUS
<1>3. cs[c].parent \in Nat /\ cs[c].parent < c
    BY <1>2 DEF Numbered
<1>4. PathIn(cs)[c] = {c} \cup PathIn(cs)[cs[c].parent]
    BY <1>2, PathIs
<1>5. CASE cs[c].parent = 0
    <2>1. PathIn(cs)[0] = {}
        BY PathIs
    <2> QED BY <1>2, <1>4, <1>5, <2>1
<1>6. CASE cs[c].parent # 0
    <2>1. cs[c].parent \in 1..N /\ c # 1 /\ ~(c <= cs[c].parent)
        BY <1>2, <1>3, <1>6
    <2>2. Up(cs[c].parent)
        BY <1>1, <2>1
    <2>3. cs[c].level = cs[cs[c].parent].level + 1
        BY <1>2, <2>1
    <2> QED BY <1>2, <1>3, <1>4, <2>1, <2>2, <2>3
<1> QED BY <1>5, <1>6

\* The paths of calls stay as they are when others are added.
LEMMA PathsStay ==
    ASSUME NEW cs, Numbered(cs), NEW N \in Nat, DOMAIN cs = 1..N,
           NEW ds, Numbered(ds), NEW M \in Nat, DOMAIN ds = 1..M, N <= M,
           \A c \in DOMAIN cs : ds[c].parent = cs[c].parent
    PROVE  \A c \in DOMAIN cs : PathIn(ds)[c] = PathIn(cs)[c]
<1> DEFINE T == {c \in 1..N : PathIn(ds)[c] # PathIn(cs)[c]}
<1> SUFFICES ASSUME T # {} PROVE FALSE
    OBVIOUS
<1>1. PICK c \in T : \A m \in T : c <= m
    <2>1. T \subseteq Nat
        OBVIOUS
    <2> HIDE DEF T
    <2> QED BY <2>1, Least
<1>2. c \in 1..N /\ c \in 1..M /\ PathIn(ds)[c] # PathIn(cs)[c]
    OBVIOUS
<1>3. PICK p : p = cs[c].parent /\ p = ds[c].parent /\ p \in Nat /\ p < c
    BY <1>2 DEF Numbered
<1>4. PathIn(cs)[c] = {c} \cup PathIn(cs)[p] /\ PathIn(ds)[c] = {c} \cup PathIn(ds)[p]
    BY <1>2, <1>3, PathIs
<1>5. PathIn(cs)[p] = PathIn(ds)[p]
    <2>1. CASE p = 0
        BY <2>1, PathIs
    <2>2. CASE p # 0
        <3>1. p \in 1..N /\ ~(c <= p)
            BY <1>2, <1>3, <2>2
        <3> QED BY <1>1, <3>1
    <2> QED BY <2>1, <2>2
<1> QED BY <1>2, <1>4, <1>5

-----------------------------------------------------------------------------
(* The walk through the executor's trace *)

OpenType == [call: CallIds, list: CallIds \cup {Top}]
EventType == [call: CallIds, name: {"known", "unknown", "none"}]

\* The visible call that is nearest to a call, itself included.
Lowest(above) == IF above = {} THEN Top ELSE CHOOSE a \in above : \A b \in above : b <= a
Nearest(c) == Lowest(Path[c] \cap DOMAIN flame)

RootIs ==
    /\ calls[Root].parent = 0 /\ calls[Root].level = 0
    /\ ~calls[Root].failed /\ calls[Root].hidden

\* The open calls lie on one path; the calls that one of them makes are put
\* under the visible call nearest to it.
OpenInv ==
    /\ open[1].call = Root
    /\ \A k \in DOMAIN open : /\ calls[open[k].call].level = k - 1
                              /\ open[k].list = Nearest(open[k].call)

\* The first of the failed calls gives the level; behind the failed call that
\* is kept there is none that is deeper.
FailInv ==
    /\ deepest = None => Failed = {}
    /\ deepest # None =>
          /\ deepest \in Failed
          /\ \E m \in Failed : calls[m].level = deepestLevel /\ \A c \in Failed : m <= c
          /\ \A c \in Failed : c <= deepest \/ calls[c].level <= deepestLevel

WalkInv ==
    /\ WalkTypeOK /\ Len(calls) > 0 /\ RootIs /\ OpenInv /\ FlameIsVisibleTree /\ FailInv

LEMMA CallsAre ==
    ASSUME WalkInv
    PROVE  /\ Len(calls) \in Nat \ {0} /\ CallIds = 1..Len(calls) /\ Root \in CallIds
           /\ \A c \in CallIds : calls[c] \in Call
           /\ Numbered(calls)
           /\ Len(open) \in Nat \ {0} /\ DOMAIN open = 1..Len(open)
           /\ \A k \in DOMAIN open : open[k] \in OpenType
           /\ Here \in OpenType
<1>1. calls \in Seq(Call) /\ open \in Seq(OpenType) /\ Len(open) > 0 /\ Len(calls) > 0
    BY DEF WalkInv, WalkTypeOK, OpenType
<1>2. Len(calls) \in Nat \ {0} /\ CallIds = 1..Len(calls) /\ \A c \in CallIds : calls[c] \in Call
    BY <1>1, LenProperties, ElementOfSeq DEF CallIds
<1>3. Len(open) \in Nat \ {0} /\ DOMAIN open = 1..Len(open) /\ \A k \in DOMAIN open : open[k] \in OpenType
    BY <1>1, LenProperties, ElementOfSeq
<1>4. \A c \in CallIds : calls[c].parent \in Nat /\ calls[c].parent < c
    <2>1. \A c \in CallIds : calls[c].parent \in Nat
        BY <1>2 DEF Call
    <2>2. calls[Root].parent = 0 /\ \A c \in CallIds : c # Root => calls[c].parent \in 1..c - 1
        BY DEF WalkInv, WalkTypeOK, RootIs
    <2> QED BY <1>2, <2>1, <2>2 DEF Root
<1>5. Numbered(calls)
    BY <1>2, <1>4 DEF Numbered, CallIds
<1> QED BY <1>2, <1>3, <1>5 DEF Here, Root

\* What a call that is entered leaves of the others.
LEMMA EnterCalls ==
    ASSUME WalkInv, NEW contract \in Contracts, NEW entry \in {"validate", "execute", "other"},
           NEW failed \in BOOLEAN, EnterCall(contract, entry, failed),
           NEW id, id = Len(calls) + 1
    PROVE  /\ calls' \in Seq(Call) /\ Len(calls') = id /\ CallIds' = 1..id
           /\ \A c \in CallIds :
                 /\ calls'[c].parent = calls[c].parent /\ calls'[c].level = calls[c].level
                 /\ calls'[c].failed = calls[c].failed /\ calls'[c].hidden = calls[c].hidden
                 /\ calls'[c].entry = calls[c].entry
                 /\ calls'[c].kids = IF c = Here.call THEN Append(calls[c].kids, id)
                                     ELSE calls[c].kids
           /\ calls'[id].parent = Here.call /\ calls'[id].level = Len(open)
           /\ calls'[id].failed = failed /\ calls'[id].hidden = (contract = Strk)
           /\ calls'[id].kids = <<>> /\ calls'[id].entry = entry
<1>1. Len(calls) \in Nat \ {0} /\ CallIds = 1..Len(calls) /\ calls \in Seq(Call)
      /\ Here.call \in CallIds /\ Len(open) \in Nat
    BY CallsAre DEF WalkInv, WalkTypeOK, OpenType
<1>2. PICK h : h = Here.call /\ h \in CallIds /\ h \in 1..Len(calls) /\ h \in Nat
    BY <1>1
<1>3. PICK k : k = Append(calls[h].kids, id)
    OBVIOUS
<1>4. calls[h] \in Call /\ calls[h].kids \in Seq(Nat) /\ id \in Nat
    <2>1. calls[h] \in Call
        BY <1>2, CallsAre
    <2> QED BY <1>1, <2>1 DEF Call
<1>5. k \in Seq(Nat)
    BY <1>3, <1>4, AppendProperties
<1>6. PICK e : e = [calls[h] EXCEPT !.kids = k]
    OBVIOUS
<1>7. /\ e \in Call /\ e.parent = calls[h].parent /\ e.level = calls[h].level
      /\ e.failed = calls[h].failed /\ e.hidden = calls[h].hidden /\ e.kids = k
      /\ e.entry = calls[h].entry
    BY <1>4, <1>5, <1>6 DEF Call
<1>8. PICK cs : cs = [calls EXCEPT ![h] = e]
    OBVIOUS
<1>9. cs \in Seq(Call) /\ Len(cs) = Len(calls)
      /\ \A c \in CallIds : cs[c] = IF c = h THEN e ELSE calls[c]
    <2> HIDE DEF Call
    <2> QED BY <1>1, <1>2, <1>7, <1>8, ExceptSeq
<1>10. PICK new : new = NewCall(contract, entry, h, Len(open), failed, contract = Strk)
    OBVIOUS
<1>11. new \in Call
    BY <1>1, <1>2, <1>10, EmptySeq DEF NewCall, Call
<1>12. calls' = Append(cs, new)
    BY <1>2, <1>3, <1>6, <1>8, <1>10 DEF EnterCall
<1>13. calls' \in Seq(Call) /\ Len(calls') = id /\ calls'[id] = new
       /\ \A c \in CallIds : calls'[c] = cs[c]
    <2> HIDE DEF Call
    <2> QED BY <1>1, <1>9, <1>11, <1>12, AppendProperties
<1>14. CallIds' = 1..id
    <2> HIDE DEF Call
    <2> QED BY <1>13, LenProperties DEF CallIds
<1>15. /\ new.parent = h /\ new.level = Len(open) /\ new.failed = failed
       /\ new.hidden = (contract = Strk) /\ new.kids = <<>> /\ new.entry = entry
    BY <1>10 DEF NewCall
<1>16. ASSUME NEW c \in CallIds
       PROVE  /\ calls'[c].parent = calls[c].parent /\ calls'[c].level = calls[c].level
              /\ calls'[c].failed = calls[c].failed /\ calls'[c].hidden = calls[c].hidden
              /\ calls'[c].entry = calls[c].entry
              /\ calls'[c].kids = IF c = h THEN Append(calls[c].kids, id) ELSE calls[c].kids
    <2>1. calls'[c] = IF c = h THEN e ELSE calls[c]
        BY <1>9, <1>13
    <2>2. CASE c = h
        BY <1>3, <1>7, <2>1, <2>2
    <2>3. CASE c # h
        BY <2>1, <2>3
    <2> QED BY <2>2, <2>3
<1> QED BY <1>2, <1>13, <1>14, <1>15, <1>16

\* The children of a call are those that have it as their parent.
Children(cs) ==
    \A c \in DOMAIN cs :
        LET kids == cs[c].kids
        IN /\ \A i, j \in DOMAIN kids : i < j => kids[i] < kids[j]
           /\ {kids[i] : i \in DOMAIN kids} = {d \in DOMAIN cs : cs[d].parent = c}

LEMMA EnterKids ==
    ASSUME WalkInv, NEW contract \in Contracts, NEW entry \in {"validate", "execute", "other"},
           NEW failed \in BOOLEAN, EnterCall(contract, entry, failed)
    PROVE  Children(calls')
<1>1. PICK id : id = Len(calls) + 1
    OBVIOUS
<1>2. /\ Len(calls) \in Nat \ {0} /\ CallIds = 1..Len(calls) /\ Here.call \in CallIds
      /\ \A c \in CallIds : calls[c].kids \in Seq(Nat) /\ calls[c].parent \in 0..Len(calls)
    BY CallsAre DEF Call, OpenType, Numbered, CallIds
<1>3. Children(calls)
    BY DEF WalkInv, WalkTypeOK, Children, CallIds
<1>4. /\ CallIds' = 1..id /\ DOMAIN calls' = CallIds'
      /\ calls'[id].parent = Here.call /\ calls'[id].kids = <<>>
      /\ \A c \in CallIds :
            /\ calls'[c].parent = calls[c].parent
            /\ calls'[c].kids = IF c = Here.call THEN Append(calls[c].kids, id)
                                ELSE calls[c].kids
    BY <1>1, EnterCalls DEF CallIds
<1>5. ASSUME NEW c \in CallIds', NEW kids, kids = calls'[c].kids
      PROVE  /\ \A i, j \in DOMAIN kids : i < j => kids[i] < kids[j]
             /\ {kids[i] : i \in DOMAIN kids} = {d \in CallIds' : calls'[d].parent = c}
    <2>1. CASE c = id
        <3>1. DOMAIN kids = {} /\ \A d \in CallIds' : calls'[d].parent # c
            BY <1>1, <1>2, <1>4, <1>5, <2>1
        <3> QED BY <3>1
    <2>2. CASE c \in CallIds /\ c # Here.call
        <3>1. kids = calls[c].kids
            BY <1>4, <1>5, <2>2
        <3>2. {d \in CallIds' : calls'[d].parent = c} = {d \in CallIds : calls[d].parent = c}
            BY <1>1, <1>2, <1>4, <2>2
        <3> QED BY <1>3, <2>2, <3>1, <3>2 DEF Children, CallIds
    <2>3. CASE c = Here.call
        <3>1. c \in CallIds
            BY <1>2, <2>3
        <3>2. PICK old : old = calls[c].kids /\ old \in Seq(Nat) /\ kids = Append(old, id)
            BY <1>2, <1>4, <1>5, <2>3, <3>1
        <3>3. /\ \A i, j \in DOMAIN old : i < j => old[i] < old[j]
              /\ {old[i] : i \in DOMAIN old} = {d \in CallIds : calls[d].parent = c}
            BY <1>3, <3>1, <3>2 DEF Children, CallIds
        <3>4. id \in Nat
            BY <1>1, <1>2
        <3>5. /\ Len(old) \in Nat /\ DOMAIN old = 1..Len(old)
              /\ kids \in Seq(Nat) /\ Len(kids) = Len(old) + 1
              /\ \A i \in 1..Len(old) : kids[i] = old[i]
              /\ kids[Len(old) + 1] = id
            BY <3>2, <3>4, AppendProperties, LenProperties
        <3>6. DOMAIN kids = 1..Len(old) + 1
            BY <3>5, LenProperties
        <3>7. \A i \in 1..Len(old) : old[i] \in CallIds /\ old[i] < id
            <4> TAKE i \in 1..Len(old)
            <4>1. old[i] \in CallIds
                BY <3>3, <3>5
            <4> QED BY <1>1, <1>2, <4>1
        <3>8. \A i, j \in DOMAIN kids : i < j => kids[i] < kids[j]
            BY <3>3, <3>5, <3>6, <3>7
        <3>9. {kids[i] : i \in DOMAIN kids} = {old[i] : i \in DOMAIN old} \cup {id}
            BY <3>5, <3>6
        <3>10. {d \in CallIds' : calls'[d].parent = c} = {d \in CallIds : calls[d].parent = c} \cup {id}
            BY <1>1, <1>2, <1>4, <2>3
        <3> QED BY <3>3, <3>8, <3>9, <3>10
    <2> QED BY <1>1, <1>2, <1>4, <2>1, <2>2, <2>3
<1>6. ASSUME NEW c \in CallIds'
      PROVE  LET kids == calls'[c].kids
             IN /\ \A i, j \in DOMAIN kids : i < j => kids[i] < kids[j]
                /\ {kids[i] : i \in DOMAIN kids} = {d \in CallIds' : calls'[d].parent = c}
    <2>1. PICK kids : kids = calls'[c].kids
        OBVIOUS
    <2> QED BY <1>5, <2>1
<1> QED BY <1>4, <1>6 DEF Children

LEMMA CallPaths ==
    ASSUME WalkInv
    PROVE  /\ Path[0] = {}
           /\ \A c \in CallIds : Path[c] = {c} \cup Path[calls[c].parent]
           /\ \A c \in CallIds : \A d \in Path[c] :
                 d \in CallIds /\ d <= c /\ (d # c => calls[d].level < calls[c].level)
<1>1. PICK N \in Nat : DOMAIN calls = 1..N
    BY CallsAre DEF CallIds
<1>2. Numbered(calls)
    BY CallsAre
<1>3. \A c \in DOMAIN calls : calls[c].level \in Nat
    BY CallsAre DEF Call, CallIds
<1>4. \A c \in DOMAIN calls \ {1} : calls[c].level = calls[calls[c].parent].level + 1
    BY DEF WalkInv, WalkTypeOK, CallIds, Root
<1>5. /\ PathIn(calls)[0] = {}
      /\ \A c \in DOMAIN calls : PathIn(calls)[c] = {c} \cup PathIn(calls)[calls[c].parent]
    BY <1>1, <1>2, PathIs
<1>6. \A c \in DOMAIN calls : \A d \in PathIn(calls)[c] :
          d \in DOMAIN calls /\ d <= c /\ (d # c => calls[d].level < calls[c].level)
    BY <1>1, <1>2, <1>3, <1>4, PathLeadsUp
<1> QED BY <1>5, <1>6 DEF Path, CallIds

LEMMA EnterPaths ==
    ASSUME WalkInv, NEW contract \in Contracts, NEW entry \in {"validate", "execute", "other"},
           NEW failed \in BOOLEAN, EnterCall(contract, entry, failed),
           NEW id, id = Len(calls) + 1
    PROVE  /\ \A c \in CallIds : Path'[c] = Path[c]
           /\ Path'[id] = {id} \cup Path[Here.call]
<1>1. PICK cs, ds, N : cs = calls /\ ds = calls' /\ N = Len(calls)
    OBVIOUS
<1>2. N \in Nat /\ DOMAIN cs = 1..N /\ Numbered(cs) /\ Here.call \in DOMAIN cs
    BY <1>1, CallsAre DEF CallIds, OpenType
<1>3. DOMAIN ds = 1..N + 1 /\ N + 1 \in Nat /\ N <= N + 1 /\ id = N + 1
      /\ \A c \in DOMAIN cs : ds[c].parent = cs[c].parent
      /\ ds[N + 1].parent = Here.call
    BY <1>1, <1>2, EnterCalls DEF CallIds
<1>4. Numbered(ds)
    BY <1>2, <1>3 DEF Numbered
<1>5. \A c \in DOMAIN cs : PathIn(ds)[c] = PathIn(cs)[c]
    BY <1>2, <1>3, <1>4, PathsStay
<1>6. PathIn(ds)[N + 1] = {N + 1} \cup PathIn(ds)[Here.call]
    <2>1. \A c \in DOMAIN ds : PathIn(ds)[c] = {c} \cup PathIn(ds)[ds[c].parent]
        BY <1>2, <1>3, <1>4, PathIs
    <2>2. PICK m, h : m = N + 1 /\ h = Here.call /\ m \in DOMAIN ds /\ ds[m].parent = h
        BY <1>2, <1>3
    <2>3. PathIn(ds)[m] = {m} \cup PathIn(ds)[h]
        BY <2>1, <2>2
    <2> QED BY <2>2, <2>3
<1> QED BY <1>1, <1>2, <1>3, <1>5, <1>6 DEF Path, CallIds

\* The visible call that is nearest to one of the calls is the same when
\* another call has been entered; that nearest to the other is itself or the
\* one nearest to its caller.
LEMMA EnterNearest ==
    ASSUME WalkInv, NEW contract \in Contracts, NEW entry \in {"validate", "execute", "other"},
           NEW failed \in BOOLEAN, EnterCall(contract, entry, failed),
           NEW id, id = Len(calls) + 1
    PROVE  /\ \A c \in CallIds : Nearest(c)' = Nearest(c)
           /\ Nearest(id)' = IF contract = Strk THEN Nearest(Here.call) ELSE id
           /\ DOMAIN flame \subseteq CallIds
           /\ DOMAIN flame' = IF contract = Strk THEN DOMAIN flame ELSE DOMAIN flame \cup {id}
           /\ \A c \in DOMAIN flame : flame'[c] = flame[c]
           /\ contract # Strk => flame'[id] = Nearest(Here.call)
<1>1. Len(calls) \in Nat /\ CallIds = 1..Len(calls) /\ Here.call \in CallIds
      /\ Here.list = Nearest(Here.call) /\ id \notin CallIds /\ CallIds \subseteq Nat /\ id \in Nat
    <2>1. Len(open) \in DOMAIN open
        BY CallsAre
    <2> QED BY <2>1, CallsAre DEF WalkInv, OpenInv, OpenType, Here
<1>2. DOMAIN flame \subseteq CallIds
    BY DEF WalkInv, WalkTypeOK
<1>3. /\ DOMAIN flame' = IF contract = Strk THEN DOMAIN flame ELSE DOMAIN flame \cup {id}
      /\ \A c \in DOMAIN flame : flame'[c] = flame[c]
      /\ contract # Strk => flame'[id] = Nearest(Here.call)
    <2>1. flame' = IF contract = Strk THEN flame
                   ELSE [i \in DOMAIN flame \cup {id} |-> IF i = id THEN Here.list ELSE flame[i]]
        BY DEF EnterCall
    <2>2. CASE contract = Strk
        BY <2>1, <2>2
    <2>3. CASE contract # Strk
        BY <1>1, <1>2, <2>1, <2>3
    <2> QED BY <2>2, <2>3
<1>4. /\ \A c \in CallIds : Path'[c] = Path[c] /\ Path[c] \subseteq CallIds
                            /\ \A d \in Path[c] : d <= c
      /\ Path'[id] = {id} \cup Path[Here.call]
    BY EnterPaths, CallPaths
<1>5. \A c \in CallIds : Path'[c] \cap DOMAIN flame' = Path[c] \cap DOMAIN flame
    BY <1>1, <1>3, <1>4
<1>6. \A c \in CallIds : Nearest(c)' = Nearest(c)
    BY <1>5 DEF Nearest
<1>7. CASE contract = Strk
    <2>1. Path'[id] \cap DOMAIN flame' = Path[Here.call] \cap DOMAIN flame
        BY <1>1, <1>2, <1>3, <1>4, <1>7
    <2>2. Nearest(id)' = Nearest(Here.call)
        BY <2>1 DEF Nearest
    <2> QED BY <1>2, <1>3, <1>6, <1>7, <2>2
<1>8. CASE contract # Strk
    <2>1. PICK above : above = Path'[id] \cap DOMAIN flame'
        OBVIOUS
    <2>2. id \in above /\ \A b \in above : b <= id /\ b \in Nat
        BY <1>1, <1>3, <1>4, <1>8, <2>1
    <2>3. \A a \in above : (\A b \in above : b <= a) => a = id
        BY <1>1, <2>2
    <2>4. (CHOOSE a \in above : \A b \in above : b <= a) = id
        BY <2>2, <2>3
    <2>5. Nearest(id)' = id
        BY <2>1, <2>2, <2>4 DEF Nearest, Lowest
    <2> QED BY <1>2, <1>3, <1>6, <1>8, <2>5
<1> QED BY <1>7, <1>8

LEMMA EnterOpen ==
    ASSUME WalkInv, NEW contract \in Contracts, NEW entry \in {"validate", "execute", "other"},
           NEW failed \in BOOLEAN, EnterCall(contract, entry, failed)
    PROVE  open' \in Seq(OpenType') /\ Len(open') > 0 /\ OpenInv'
<1>1. PICK id : id = Len(calls) + 1
    OBVIOUS
<1>2. PICK new : new = [call |-> id, list |-> ListOf(id, contract = Strk)]
    OBVIOUS
<1>3. open' = Append(open, new)
    BY <1>1, <1>2 DEF EnterCall
<1>4. /\ Len(calls) \in Nat /\ CallIds = 1..Len(calls) /\ Here \in OpenType
      /\ open \in Seq(OpenType) /\ Len(open) \in Nat \ {0} /\ DOMAIN open = 1..Len(open)
      /\ Here.list = Nearest(Here.call)
      /\ \A k \in DOMAIN open : open[k] \in OpenType
    <2>1. Len(open) \in DOMAIN open
        BY CallsAre
    <2> QED BY <2>1, CallsAre DEF WalkInv, WalkTypeOK, OpenInv, OpenType, Here
<1>5. CallIds' = 1..id /\ CallIds \subseteq CallIds' /\ id \in CallIds'
    BY <1>1, <1>4, EnterCalls
<1>6. OpenType \subseteq OpenType'
    BY <1>5 DEF OpenType
<1>7. new \in OpenType'
    BY <1>2, <1>4, <1>5 DEF OpenType, ListOf
<1>8. /\ open' \in Seq(OpenType') /\ Len(open') = Len(open) + 1
      /\ \A k \in 1..Len(open) : open'[k] = open[k]
      /\ open'[Len(open) + 1] = new
    <2>1. open \in Seq(OpenType')
        BY <1>4, <1>6, SeqMonotonic
    <2> HIDE DEF OpenType
    <2> QED BY <1>3, <1>7, <2>1, AppendProperties
<1>9. DOMAIN open' = 1..Len(open) + 1
    <2> HIDE DEF OpenType
    <2> QED BY <1>8, LenProperties
<1>10. /\ new.call = id /\ new.list = Nearest(id)' /\ calls'[id].level = Len(open)
    <2>1. Nearest(id)' = IF contract = Strk THEN Nearest(Here.call) ELSE id
        BY <1>1, EnterNearest
    <2> QED BY <1>1, <1>2, <1>4, <2>1, EnterCalls DEF ListOf
<1>11. ASSUME NEW k \in DOMAIN open, NEW c, c = open[k].call
       PROVE  calls'[c].level = k - 1 /\ open[k].list = Nearest(c)'
    <2>1. c \in CallIds /\ calls[c].level = k - 1 /\ open[k].list = Nearest(c)
        BY <1>4, <1>11 DEF WalkInv, OpenInv, OpenType
    <2>2. calls'[c].level = calls[c].level /\ Nearest(c)' = Nearest(c)
        <3>1. calls'[c].level = calls[c].level
            BY <1>1, <2>1, EnterCalls
        <3> QED BY <1>1, <2>1, <3>1, EnterNearest
    <2> QED BY <2>1, <2>2
<1>12. OpenInv'
    <2>1. open'[1].call = Root
        BY <1>4, <1>8 DEF WalkInv, OpenInv
    <2>2. ASSUME NEW k \in DOMAIN open', NEW c, c = open'[k].call
          PROVE  calls'[c].level = k - 1 /\ open'[k].list = Nearest(c)'
        <3>1. CASE k = Len(open) + 1
            BY <1>8, <1>10, <2>2, <3>1
        <3>2. CASE k # Len(open) + 1
            <4>1. k \in DOMAIN open /\ open'[k] = open[k]
                BY <1>4, <1>8, <1>9, <3>2
            <4> QED BY <1>11, <2>2, <4>1
        <3> QED BY <3>1, <3>2
    <2>3. ASSUME NEW k \in DOMAIN open'
          PROVE  (calls[open[k].call].level = k - 1 /\ open[k].list = Nearest(open[k].call))'
        <3>1. PICK c : c = open'[k].call
            OBVIOUS
        <3>2. calls'[c].level = k - 1 /\ open'[k].list = Nearest(c)'
            BY <2>2, <3>1
        <3> QED BY <3>1, <3>2
    <2> QED BY <2>1, <2>3 DEF OpenInv
<1> QED BY <1>4, <1>8, <1>12

LEMMA FlameIs ==
    FlameIsVisibleTree <=>
        /\ DOMAIN flame = {c \in CallIds : ~calls[c].hidden}
        /\ \A c \in DOMAIN flame : flame[c] = Nearest(calls[c].parent)
BY DEF FlameIsVisibleTree, Nearest, Lowest

LEMMA EnterFlame ==
    ASSUME WalkInv, NEW contract \in Contracts, NEW entry \in {"validate", "execute", "other"},
           NEW failed \in BOOLEAN, EnterCall(contract, entry, failed)
    PROVE  FlameIsVisibleTree'
<1>1. PICK id, h : id = Len(calls) + 1 /\ h = Here.call
    OBVIOUS
<1>2. /\ Len(calls) \in Nat \ {0} /\ CallIds = 1..Len(calls) /\ h \in CallIds
      /\ id \notin CallIds
    BY <1>1, CallsAre DEF OpenType
<1>3. /\ DOMAIN flame = {c \in CallIds : ~calls[c].hidden}
      /\ \A c \in DOMAIN flame : flame[c] = Nearest(calls[c].parent)
    BY FlameIs DEF WalkInv
<1>4. /\ \A c \in CallIds : Nearest(c)' = Nearest(c)
      /\ DOMAIN flame' = IF contract = Strk THEN DOMAIN flame ELSE DOMAIN flame \cup {id}
      /\ \A c \in DOMAIN flame : flame'[c] = flame[c]
      /\ contract # Strk => flame'[id] = Nearest(h)
    BY <1>1, EnterNearest
<1>5. /\ CallIds' = CallIds \cup {id}
      /\ \A c \in CallIds : calls'[c].parent = calls[c].parent /\ calls'[c].hidden = calls[c].hidden
      /\ calls'[id].parent = h /\ calls'[id].hidden = (contract = Strk)
    <2>1. CallIds' = 1..id
        BY <1>1, EnterCalls
    <2> QED BY <1>1, <1>2, <2>1, EnterCalls
<1>6. DOMAIN flame' = {c \in CallIds' : ~calls'[c].hidden}
    BY <1>2, <1>3, <1>4, <1>5
<1>7. ASSUME NEW c \in DOMAIN flame', NEW p, p = calls'[c].parent
      PROVE  flame'[c] = Nearest(p)'
    <2>1. CASE c = id
        BY <1>2, <1>3, <1>4, <1>5, <1>7, <2>1
    <2>2. CASE c # id
        <3>1. c \in DOMAIN flame /\ c \in CallIds /\ c # Root /\ p = calls[c].parent
            BY <1>3, <1>4, <1>5, <1>7, <2>2 DEF WalkInv, RootIs
        <3>2. p \in CallIds
            <4>1. p \in 1..c - 1
                BY <3>1 DEF WalkInv, WalkTypeOK
            <4> QED BY <1>2, <3>1, <4>1
        <3> QED BY <1>3, <1>4, <3>1, <3>2
    <2> QED BY <2>1, <2>2
<1>8. ASSUME NEW c \in DOMAIN flame' PROVE (flame[c] = Nearest(calls[c].parent))'
    <2>1. PICK p : p = calls'[c].parent
        OBVIOUS
    <2>2. flame'[c] = Nearest(p)'
        BY <1>7, <2>1
    <2> QED BY <2>1, <2>2
<1>9. FlameIsVisibleTree' <=>
          /\ DOMAIN flame' = {c \in CallIds' : ~calls'[c].hidden}
          /\ \A c \in DOMAIN flame' : (flame[c] = Nearest(calls[c].parent))'
    BY DEF FlameIsVisibleTree, Nearest, Lowest
<1> QED BY <1>6, <1>8, <1>9

LEMMA EnterFail ==
    ASSUME WalkInv, NEW contract \in Contracts, NEW entry \in {"validate", "execute", "other"},
           NEW failed \in BOOLEAN, EnterCall(contract, entry, failed)
    PROVE  deepest' \in CallIds' \cup {None} /\ deepestLevel' \in Nat /\ FailInv'
<1>1. PICK id : id = Len(calls) + 1
    OBVIOUS
<1>2. /\ Len(calls) \in Nat \ {0} /\ CallIds = 1..Len(calls) /\ id \notin CallIds /\ id \in Nat
      /\ Len(open) \in Nat /\ deepest \in CallIds \cup {None} /\ deepestLevel \in Nat
      /\ \A c \in CallIds : calls[c].level \in Nat
    <2>1. deepest \in CallIds \cup {None} /\ deepestLevel \in Nat
        BY DEF WalkInv, WalkTypeOK
    <2>2. \A c \in CallIds : calls[c].level \in Nat
        BY CallsAre DEF Call
    <2> QED BY <1>1, <2>1, <2>2, CallsAre
<1>3. /\ CallIds' = CallIds \cup {id}
      /\ \A c \in CallIds : calls'[c].failed = calls[c].failed /\ calls'[c].level = calls[c].level
      /\ calls'[id].failed = failed /\ calls'[id].level = Len(open)
    <2>1. CallIds' = 1..id
        BY <1>1, EnterCalls
    <2> QED BY <1>1, <1>2, <2>1, EnterCalls
<1>4. /\ deepest' = IF failed /\ Deeper(Len(open)) THEN id ELSE deepest
      /\ deepestLevel' = IF failed /\ deepest = None THEN Len(open) ELSE deepestLevel
    BY <1>1 DEF EnterCall
<1>5. Failed' = IF failed THEN Failed \cup {id} ELSE Failed
    BY <1>2, <1>3 DEF Failed
<1>6. Failed \subseteq CallIds /\ \A c \in Failed : c \in Nat /\ c < id
    BY <1>1, <1>2 DEF Failed
<1>7. None \notin CallIds'
    BY <1>2, <1>3, NoneAssumption
<1>8. FailInv
    BY DEF WalkInv
<1>9. CASE ~failed
    <2>1. Failed' = Failed /\ deepest' = deepest /\ deepestLevel' = deepestLevel
        BY <1>4, <1>5, <1>9
    <2>2. \A c \in Failed : calls'[c].level = calls[c].level
        BY <1>3, <1>6
    <2> QED BY <1>2, <1>3, <1>8, <2>1, <2>2 DEF FailInv
<1>10. CASE failed /\ deepest = None
    <2>1. Failed' = {id} /\ deepest' = id /\ deepestLevel' = Len(open)
        BY <1>4, <1>5, <1>8, <1>10 DEF FailInv, Deeper
    <2> QED BY <1>2, <1>3, <1>7, <2>1 DEF FailInv
<1>11. CASE failed /\ deepest # None
    <2>1. PICK m \in Failed : calls[m].level = deepestLevel /\ \A c \in Failed : m <= c
        BY <1>8, <1>11 DEF FailInv
    <2>2. deepestLevel' = deepestLevel /\ Failed' = Failed \cup {id}
        BY <1>4, <1>5, <1>11
    <2>3. m \in Failed' /\ calls'[m].level = deepestLevel' /\ \A c \in Failed' : m <= c
        BY <1>2, <1>3, <1>6, <2>1, <2>2
    <2>4. deepest \in Failed /\ \A c \in Failed : c <= deepest \/ calls[c].level <= deepestLevel
        BY <1>8, <1>11 DEF FailInv
    <2>5. /\ deepest' \in Failed'
          /\ \A c \in Failed' : c <= deepest' \/ calls'[c].level <= deepestLevel'
        <3>1. CASE Len(open) > deepestLevel
            <4>1. deepest' = id
                BY <1>4, <1>11, <3>1 DEF Deeper
            <4> QED BY <1>2, <1>6, <2>2, <4>1
        <3>2. CASE ~(Len(open) > deepestLevel)
            <4>1. deepest' = deepest
                BY <1>4, <1>11, <3>2 DEF Deeper
            <4>2. \A c \in Failed : calls'[c].level = calls[c].level
                BY <1>3, <1>6
            <4>3. calls'[id].level <= deepestLevel
                BY <1>2, <1>3, <3>2
            <4> QED BY <2>2, <2>4, <4>1, <4>2, <4>3
        <3> QED BY <3>1, <3>2
    <2>6. deepest' # None /\ deepest' \in CallIds'
        BY <1>2, <1>3, <1>4, <1>7, <1>11
    <2> QED BY <1>2, <2>2, <2>3, <2>5, <2>6 DEF FailInv
<1> QED BY <1>9, <1>10, <1>11

LEMMA EnterWalk ==
    ASSUME WalkInv, NEW contract \in Contracts, NEW entry \in {"validate", "execute", "other"},
           NEW failed \in BOOLEAN, EnterCall(contract, entry, failed)
    PROVE  WalkInv'
<1>1. PICK id, h : id = Len(calls) + 1 /\ h = Here.call
    OBVIOUS
<1>2. /\ Len(calls) \in Nat \ {0} /\ CallIds = 1..Len(calls) /\ Root \in CallIds
      /\ h \in CallIds /\ id \in Nat /\ id \notin CallIds
      /\ \A c \in CallIds : calls[c] \in Call
    BY <1>1, CallsAre DEF OpenType
<1>3. /\ calls' \in Seq(Call) /\ Len(calls') = id /\ CallIds' = 1..id
      /\ \A c \in CallIds :
            /\ calls'[c].parent = calls[c].parent /\ calls'[c].level = calls[c].level
            /\ calls'[c].failed = calls[c].failed /\ calls'[c].hidden = calls[c].hidden
      /\ calls'[id].parent = h /\ calls'[id].level = Len(open)
    BY <1>1, EnterCalls
<1>4. CallIds' = CallIds \cup {id}
    BY <1>1, <1>2, <1>3
<1>5. RootIs'
    BY <1>2, <1>3 DEF WalkInv, RootIs
<1>6. calls[h].level = Len(open) - 1 /\ Len(open) \in Nat
    <2>1. Len(open) \in DOMAIN open /\ Len(open) \in Nat
        BY CallsAre
    <2> QED BY <1>1, <2>1 DEF WalkInv, OpenInv, Here
<1>7. ASSUME NEW c \in CallIds', c # Root, NEW p, p = calls'[c].parent
      PROVE  p \in 1..c - 1 /\ calls'[c].level = calls'[p].level + 1
    <2>1. CASE c = id
        BY <1>1, <1>2, <1>3, <1>6, <1>7, <2>1
    <2>2. CASE c # id
        <3>1. c \in CallIds /\ p = calls[c].parent
            BY <1>3, <1>4, <1>7, <2>2
        <3>2. p \in 1..c - 1 /\ calls[c].level = calls[p].level + 1
            BY <1>7, <3>1 DEF WalkInv, WalkTypeOK
        <3>3. p \in CallIds
            BY <1>2, <3>1, <3>2
        <3> QED BY <1>3, <3>1, <3>2, <3>3
    <2> QED BY <2>1, <2>2
<1>8. ASSUME NEW c \in CallIds', c # Root
      PROVE  calls'[c].parent \in 1..c - 1 /\ calls'[c].level = calls'[calls'[c].parent].level + 1
    <2>1. PICK p : p = calls'[c].parent
        OBVIOUS
    <2> QED BY <1>7, <1>8, <2>1
<1>9. open' \in Seq(OpenType') /\ Len(open') > 0 /\ OpenInv'
    BY EnterOpen
<1>10. deepest' \in CallIds' \cup {None} /\ deepestLevel' \in Nat /\ FailInv'
    BY EnterFail
<1>11. emitted' \in Seq(EventType')
    <2>1. EventType \subseteq EventType'
        BY <1>4 DEF EventType
    <2>2. emitted \in Seq(EventType) /\ emitted' = emitted
        BY DEF WalkInv, WalkTypeOK, EventType, EnterCall
    <2> HIDE DEF EventType
    <2> QED BY <2>1, <2>2, SeqMonotonic
<1>12. FlameIsVisibleTree' /\ DOMAIN flame' \subseteq CallIds'
    BY EnterFlame DEF FlameIsVisibleTree
<1>13. Children(calls') /\ CallIds' = DOMAIN calls'
    BY EnterKids DEF CallIds
<1>14. WalkTypeOK'
    BY <1>3, <1>8, <1>9, <1>10, <1>11, <1>12, <1>13
    DEF WalkTypeOK, OpenType, EventType, Children
<1> QED BY <1>2, <1>1, <1>3, <1>5, <1>9, <1>10, <1>12, <1>14 DEF WalkInv

LEMMA InitWalk == WalkInit => WalkInv
<1> SUFFICES ASSUME WalkInit PROVE WalkInv
    OBVIOUS
<1>1. PICK root : root = NewCall(None, "root", 0, 0, FALSE, TRUE)
    OBVIOUS
<1>2. /\ root \in Call /\ root.parent = 0 /\ root.level = 0 /\ ~root.failed /\ root.hidden
      /\ root.kids = <<>>
    BY <1>1, EmptySeq DEF NewCall, Call
<1>3. calls = <<root>> /\ calls[1] = root /\ CallIds = {1}
    BY <1>1 DEF WalkInit, CallIds
<1>4. calls \in Seq(Call) /\ Len(calls) = 1
    BY <1>2, <1>3 DEF Call
<1>5. Children(calls) /\ CallIds = DOMAIN calls
    <2>1. DOMAIN root.kids = {}
        BY <1>2
    <2>2. {d \in {1} : calls[d].parent = 1} = {}
        BY <1>2, <1>3
    <2> QED BY <1>3, <2>1, <2>2 DEF Children, CallIds
<1>6. PICK o : o = [call |-> Root, list |-> Top]
    OBVIOUS
<1>7. o \in OpenType /\ o.call = Root /\ o.list = Top
    BY <1>3, <1>6 DEF OpenType, Root
<1>8. open = <<o>> /\ open \in Seq(OpenType) /\ Len(open) = 1 /\ DOMAIN open = {1} /\ open[1] = o
    BY <1>6, <1>7 DEF WalkInit
<1>9. DOMAIN flame = {}
    BY DEF WalkInit
<1>10. Nearest(Root) = Top
    BY <1>9 DEF Nearest, Lowest
<1>11. OpenInv
    BY <1>2, <1>3, <1>7, <1>8, <1>10 DEF OpenInv, Root
<1>12. RootIs /\ FlameIsVisibleTree
    BY <1>2, <1>3, <1>9 DEF RootIs, FlameIsVisibleTree, Root
<1>13. Failed = {}
    BY <1>2, <1>3 DEF Failed
<1>14. FailInv /\ deepest = None /\ deepestLevel = 0
    BY <1>13 DEF FailInv, WalkInit
<1>15. emitted \in Seq(EventType)
    BY EmptySeq DEF WalkInit
<1>16. WalkTypeOK
    BY <1>3, <1>4, <1>5, <1>8, <1>9, <1>14, <1>15
    DEF WalkTypeOK, OpenType, EventType, Children, Root
<1> QED BY <1>4, <1>11, <1>12, <1>14, <1>16 DEF WalkInv

LEMMA SameCalls ==
    ASSUME WalkInv, UNCHANGED <<calls, flame, deepest, deepestLevel>>
    PROVE  /\ RootIs' /\ FlameIsVisibleTree' /\ FailInv'
           /\ CallIds' = CallIds /\ \A c : Nearest(c)' = Nearest(c)
<1>1. RootIs'
    BY DEF WalkInv, RootIs
<1>2. FlameIsVisibleTree'
    BY DEF WalkInv, FlameIsVisibleTree, Path, CallIds
<1>3. FailInv'
    BY DEF WalkInv, FailInv, Failed, CallIds
<1>4. CallIds' = CallIds /\ \A c : Nearest(c)' = Nearest(c)
    BY DEF CallIds, Nearest, Path
<1> QED BY <1>1, <1>2, <1>3, <1>4

\* What the walk has found does not change when it is not walking.
LEMMA SameWalk ==
    ASSUME WalkInv, UNCHANGED walk
    PROVE  WalkInv'
<1>1. UNCHANGED <<calls, open, flame, deepest, deepestLevel, emitted>>
    BY DEF walk
<1>2. WalkTypeOK' /\ RootIs'
    BY <1>1 DEF WalkInv, WalkTypeOK, RootIs, CallIds
<1>3. FlameIsVisibleTree' /\ FailInv'
    BY <1>1, SameCalls
<1>4. OpenInv'
    BY <1>1 DEF WalkInv, OpenInv, Nearest, Path
<1> QED BY <1>1, <1>2, <1>3, <1>4 DEF WalkInv

LEMMA EmitWalk ==
    ASSUME WalkInv, NEW name \in {"known", "unknown", "none"}, EmitEvent(name)
    PROVE  WalkInv'
<1>1. UNCHANGED <<calls, open, flame, deepest, deepestLevel>>
    BY DEF EmitEvent
<1>2. RootIs' /\ FlameIsVisibleTree' /\ FailInv'
    BY <1>1, SameCalls
<1>3. OpenInv'
    BY <1>1 DEF WalkInv, OpenInv, Nearest, Path
<1>4. emitted' \in Seq(EventType)
    <2>1. PICK e : e = [call |-> Here.call, name |-> name]
        OBVIOUS
    <2>2. e \in EventType
        BY <2>1, CallsAre DEF EventType, OpenType
    <2>3. emitted \in Seq(EventType) /\ emitted' = Append(emitted, e)
        BY <2>1 DEF WalkInv, WalkTypeOK, EventType, EmitEvent
    <2> HIDE DEF EventType
    <2> QED BY <2>2, <2>3, AppendProperties
<1>5. EventType' = EventType /\ OpenType' = OpenType
    BY <1>1 DEF EventType, OpenType, CallIds
<1>6. WalkTypeOK'
    BY <1>1, <1>4, <1>5 DEF WalkInv, WalkTypeOK, EventType, CallIds
<1> QED BY <1>1, <1>2, <1>3, <1>6 DEF WalkInv

LEMMA LeaveWalk ==
    ASSUME WalkInv, LeaveCall
    PROVE  WalkInv'
<1>1. UNCHANGED <<calls, flame, deepest, deepestLevel, emitted>>
    BY DEF LeaveCall
<1>2. CASE UNCHANGED open
    BY <1>1, <1>2, SameWalk DEF walk
<1>3. CASE Len(open) > 1 /\ open' = SubSeq(open, 1, Len(open) - 1)
    <2>1. /\ Len(open) \in Nat /\ DOMAIN open = 1..Len(open)
          /\ \A k \in 1..Len(open) - 1 : open[k] \in OpenType
        BY CallsAre
    <2>2. /\ open' \in Seq(OpenType) /\ Len(open') = Len(open) - 1
          /\ \A k \in 1..Len(open) - 1 : open'[k] = open[k]
        <3> HIDE DEF OpenType
        <3> QED BY <1>3, <2>1, SubSeqProperties
    <2>3. DOMAIN open' = 1..Len(open) - 1
        <3> HIDE DEF OpenType
        <3> QED BY <2>2, LenProperties
    <2>4. OpenType' = OpenType /\ \A c : Nearest(c)' = Nearest(c)
        BY <1>1 DEF OpenType, CallIds, Nearest, Path
    <2>5. open'[1].call = Root
        BY <1>3, <2>1, <2>2 DEF WalkInv, OpenInv
    <2>6. ASSUME NEW k \in DOMAIN open'
          PROVE  (calls[open[k].call].level = k - 1 /\ open[k].list = Nearest(open[k].call))'
        <3>1. PICK c : c = open[k].call /\ c = open'[k].call /\ open'[k] = open[k] /\ k \in DOMAIN open
            BY <2>1, <2>2, <2>3
        <3>2. calls[c].level = k - 1 /\ open[k].list = Nearest(c)
            BY <3>1 DEF WalkInv, OpenInv
        <3>3. Nearest(c)' = Nearest(c) /\ calls' = calls
            BY <1>1, <2>4
        <3>4. calls'[c].level = k - 1 /\ open'[k].list = Nearest(c)'
            BY <3>1, <3>2, <3>3
        <3> QED BY <3>1, <3>4
    <2>7. OpenInv'
        BY <2>5, <2>6 DEF OpenInv
    <2>8. RootIs' /\ FlameIsVisibleTree' /\ FailInv'
        BY <1>1, SameCalls
    <2>9. open' \in Seq(OpenType') /\ Len(open') > 0
        BY <1>3, <2>1, <2>2, <2>4
    <2>10. WalkTypeOK'
        BY <1>1, <2>9 DEF WalkInv, WalkTypeOK, OpenType, CallIds
    <2> QED BY <1>1, <2>7, <2>8, <2>10 DEF WalkInv
<1> QED BY <1>2, <1>3 DEF LeaveCall

LEMMA StepWalk ==
    ASSUME WalkInv, [Next]_vars
    PROVE  WalkInv'
<1>1. CASE Walk
    BY <1>1, EnterWalk, EmitWalk, LeaveWalk DEF Walk
<1>2. CASE UNCHANGED walk
    BY <1>2, SameWalk
<1>3. Walk \/ UNCHANGED walk
    BY DEF Next, vars, Build, Begin, MapCall, MapBroken, Crash, Report, Merge, MergeLocation,
           MergeCall, MergeNoTrace, Kept, Inherit, Point
<1> QED BY <1>1, <1>2, <1>3

\* The calls are numbered as a tree, and the failed ones are known.
THEOREM WalkInvCorrect == Spec => []WalkInv
<1>1. Init => WalkInv
    BY InitWalk DEF Init
<1>2. WalkInv /\ [Next]_vars => WalkInv'
    BY StepWalk
<1> QED BY <1>1, <1>2, PTL DEF Spec

-----------------------------------------------------------------------------
(* The function calls *)

\* The call with the deepest panic is kept, and only panics of failed calls.
PanicInv ==
    /\ \A c \in DOMAIN functions : functions[c].panics => calls[c].failed
    /\ panicCall = None => \A c \in DOMAIN functions : ~functions[c].panics
    /\ panicCall # None =>
          /\ panicCall \in DOMAIN functions /\ functions[panicCall].panics
          /\ panicLevel = calls[panicCall].level
          /\ \A c \in DOMAIN functions : functions[c].panics => calls[c].level <= panicLevel

BuildInv ==
    /\ BuildTypeOK /\ PanicInv
    /\ pc \in {"walk", "ready", "build", "merge", "point", "done"}
    /\ pc \in {"walk", "ready"} => left = {} /\ DOMAIN functions = {}
    /\ pc # "done" => linked = DOMAIN functions

LEMMA InitBuilt == Init => BuildInv
<1> SUFFICES ASSUME Init PROVE BuildInv
    OBVIOUS
<1>1. DOMAIN functions = {} /\ pc = "walk" /\ linked = {} /\ left = {} /\ panicCall = None
    BY DEF Init, BuildInit, WalkInit, NoFunctions
<1>2. events \in Seq(CallIds)
    BY EmptySeq DEF Init, BuildInit
<1>3. BuildTypeOK
    BY <1>1, <1>2 DEF BuildTypeOK, Init, BuildInit
<1>4. PanicInv
    BY <1>1 DEF PanicInv
<1> QED BY <1>1, <1>3, <1>4 DEF BuildInv

\* Calls are only entered before there are functions.
LEMMA WalkBuilt ==
    ASSUME WalkInv, BuildInv, Walk, UNCHANGED <<mode, shows, built, report>>
    PROVE  BuildInv'
<1>1. pc = "walk" /\ pc' \in {"walk", "ready"}
    BY DEF Walk, EnterCall, EmitEvent, LeaveCall
<1>2. DOMAIN functions = {} /\ left = {} /\ linked = {}
    BY <1>1 DEF BuildInv
<1>3. UNCHANGED <<mode, shows, left, functions, stored, panicCall, panicLevel, available, linked,
                  events, result, blamed, flagged>>
    BY DEF built, report
<1>4. CallIds \subseteq CallIds'
    <2>1. CASE \E contract \in Contracts, entry \in {"validate", "execute", "other"}, failed \in BOOLEAN :
                   EnterCall(contract, entry, failed)
        <3>1. PICK id : id = Len(calls) + 1
            OBVIOUS
        <3>2. CallIds' = 1..id /\ CallIds = 1..Len(calls) /\ Len(calls) \in Nat
            BY <2>1, <3>1, EnterCalls, CallsAre
        <3> QED BY <3>1, <3>2
    <2>2. CASE UNCHANGED calls
        BY <2>2 DEF CallIds
    <2> QED BY <2>1, <2>2 DEF Walk, EmitEvent, LeaveCall
<1>5. events' \in Seq(CallIds')
    BY <1>3, <1>4, SeqMonotonic DEF BuildInv, BuildTypeOK
<1>6. panicCall = None
    BY <1>2 DEF BuildInv, BuildTypeOK
<1>7. BuildTypeOK'
    BY <1>2, <1>3, <1>4, <1>5 DEF BuildInv, BuildTypeOK
<1>8. PanicInv'
    BY <1>2, <1>3, <1>6 DEF PanicInv
<1> QED BY <1>1, <1>2, <1>3, <1>7, <1>8 DEF BuildInv

LEMMA BeginBuilt ==
    ASSUME WalkInv, BuildInv, Begin
    PROVE  BuildInv'
<1>1. /\ UNCHANGED <<calls, mode, shows, functions, stored, panicCall, panicLevel, available, linked,
                     events, result, blamed, flagged>>
      /\ pc = "ready" /\ pc' = "build" /\ left' \subseteq CallIds /\ DOMAIN functions = {}
    BY DEF Begin, walk, report, BuildInv
<1>2. BuildTypeOK'
    BY <1>1 DEF BuildInv, BuildTypeOK, CallIds
<1>3. PanicInv'
    BY <1>1 DEF BuildInv, PanicInv
<1> QED BY <1>1, <1>2, <1>3 DEF BuildInv

LEMMA MapBuilt ==
    ASSUME WalkInv, BuildInv, NEW c \in CallIds, NEW n \in 0..Len(calls[c].kids),
           NEW panics \in BOOLEAN, MapCall(c, n, panics)
    PROVE  BuildInv'
<1>1. /\ UNCHANGED <<calls, mode, shows, events, result, blamed, flagged, pc>>
      /\ pc = "build" /\ c \in left /\ left' = left \ {c}
      /\ stored' \subseteq stored \cup {c}
    BY DEF MapCall, walk, report
<1>2. BuildTypeOK /\ PanicInv /\ linked = DOMAIN functions /\ c \notin DOMAIN functions
      /\ CallIds' = CallIds
    <2>1. BuildTypeOK /\ PanicInv /\ linked = DOMAIN functions
        BY <1>1 DEF BuildInv
    <2>2. c \notin DOMAIN functions
        BY <1>1, <2>1 DEF BuildTypeOK
    <2> QED BY <1>1, <2>1, <2>2 DEF CallIds
<1>3. \A d \in CallIds : calls[d].level \in Nat
    BY CallsAre DEF Call
<1>4. panics => calls[c].failed
    BY DEF MapCall
<1>5. CASE ~HasData(c)
    <2>1. UNCHANGED <<functions, linked, available, panicCall, panicLevel>>
        BY <1>5 DEF MapCall
    <2>2. BuildTypeOK'
        <3>1. /\ left' \subseteq CallIds /\ DOMAIN functions \subseteq CallIds \ left'
              /\ stored' \subseteq CallIds
            BY <1>1, <1>2 DEF BuildTypeOK
        <3> QED BY <1>1, <1>2, <2>1, <3>1 DEF BuildTypeOK
    <2>3. PanicInv'
        BY <1>1, <1>2, <2>1 DEF PanicInv
    <2> QED BY <1>1, <1>2, <2>1, <2>2, <2>3 DEF BuildInv
<1>6. CASE HasData(c)
    <2>1. PICK f : f = [linked |-> n, panics |-> panics]
        OBVIOUS
    <2>2. /\ f \in [linked: 0..Len(calls[c].kids), panics: BOOLEAN]
          /\ f.panics = panics
        BY <2>1
    <2>3. /\ functions' = [i \in DOMAIN functions \cup {c} |-> IF i = c THEN f ELSE functions[i]]
          /\ linked' = linked \cup {c}
          /\ available' \subseteq available \cup {c}
          /\ panicCall' = IF panics /\ IsDeeper(c) THEN c ELSE panicCall
          /\ panicLevel' = IF panics /\ IsDeeper(c) THEN calls[c].level ELSE panicLevel
        BY <1>6, <2>1 DEF MapCall
    <2>4. /\ DOMAIN functions' = DOMAIN functions \cup {c}
          /\ functions'[c] = f
          /\ \A i \in DOMAIN functions : functions'[i] = functions[i]
        BY <1>2, <2>3
    <2>5. ASSUME NEW i \in DOMAIN functions'
          PROVE  functions'[i].panics <=> IF i = c THEN panics ELSE functions[i].panics
        <3>1. CASE i = c
            BY <2>2, <2>4, <3>1
        <3>2. CASE i # c
            BY <2>4, <3>2
        <3> QED BY <3>1, <3>2
    <2>6. BuildTypeOK'
        <3>1. \A i \in DOMAIN functions' :
                  functions'[i] \in [linked: 0..Len(calls'[i].kids), panics: BOOLEAN]
            <4> TAKE i \in DOMAIN functions'
            <4>1. CASE i = c
                BY <1>1, <2>2, <2>4, <4>1
            <4>2. CASE i # c
                <5>1. i \in DOMAIN functions
                    BY <2>4, <4>2
                <5> QED BY <1>1, <1>2, <2>4, <5>1 DEF BuildTypeOK
            <4> QED BY <4>1, <4>2
        <3>2. panicCall' \in DOMAIN functions' \cup {None} /\ panicLevel' \in Nat
            BY <1>2, <1>3, <2>3, <2>4 DEF BuildTypeOK
        <3>3. /\ left' \subseteq CallIds /\ DOMAIN functions' \subseteq CallIds \ left'
              /\ stored' \subseteq CallIds /\ available' \subseteq CallIds
              /\ linked' \subseteq DOMAIN functions'
            <4>1. left \subseteq CallIds /\ DOMAIN functions \subseteq CallIds \ left
                  /\ stored \subseteq CallIds /\ available \subseteq CallIds
                BY <1>2 DEF BuildTypeOK
            <4> QED BY <1>1, <1>2, <2>3, <2>4, <4>1
        <3> QED BY <1>1, <1>2, <3>1, <3>2, <3>3 DEF BuildTypeOK
    <2>7. PanicInv'
        <3>1. None \notin CallIds /\ DOMAIN functions \subseteq CallIds
              /\ panicCall \in DOMAIN functions \cup {None} /\ panicLevel \in Nat
            <4>1. DOMAIN functions \subseteq CallIds \ left
                  /\ panicCall \in DOMAIN functions \cup {None} /\ panicLevel \in Nat
                BY <1>2 DEF BuildTypeOK
            <4>2. CallIds \subseteq Nat
                BY CallsAre
            <4> QED BY <4>1, <4>2, NoneAssumption
        <3>2. /\ \A i \in DOMAIN functions : functions[i].panics => calls[i].failed
              /\ panicCall = None => \A i \in DOMAIN functions : ~functions[i].panics
              /\ panicCall # None =>
                    /\ panicCall \in DOMAIN functions /\ functions[panicCall].panics
                    /\ panicLevel = calls[panicCall].level
                    /\ \A i \in DOMAIN functions : functions[i].panics => calls[i].level <= panicLevel
            BY <1>2 DEF PanicInv
        <3>3. \A i \in DOMAIN functions' : functions'[i].panics => calls'[i].failed
            BY <1>1, <1>4, <2>4, <2>5, <3>2
        <3>4. CASE panics /\ IsDeeper(c)
            <4>1. panicCall' = c /\ panicLevel' = calls[c].level /\ c # None
                BY <2>3, <3>1, <3>4
            <4>2. \A i \in DOMAIN functions : functions[i].panics => calls[i].level <= calls[c].level
                <5>1. CASE panicCall = None
                    BY <3>2, <5>1
                <5>2. CASE panicCall # None
                    <6>1. calls[c].level > panicLevel
                        BY <3>4, <5>2 DEF IsDeeper
                    <6>2. ASSUME NEW i \in DOMAIN functions, functions[i].panics
                          PROVE  calls[i].level <= calls[c].level
                        <7>1. calls[i].level <= panicLevel /\ calls[i].level \in Nat
                            BY <1>3, <3>1, <3>2, <5>2, <6>2
                        <7> QED BY <1>3, <3>1, <6>1, <7>1
                    <6> QED BY <6>2
                <5> QED BY <5>1, <5>2
            <4>3. \A i \in DOMAIN functions' :
                      functions'[i].panics => calls'[i].level <= panicLevel'
                BY <1>1, <1>3, <2>4, <2>5, <4>1, <4>2
            <4>4. /\ panicCall' \in DOMAIN functions' /\ functions'[panicCall'].panics
                  /\ panicLevel' = calls'[panicCall'].level
                BY <1>1, <2>2, <2>4, <3>4, <4>1
            <4> QED BY <3>3, <4>1, <4>3, <4>4 DEF PanicInv
        <3>5. CASE panics /\ ~IsDeeper(c)
            <4>1. /\ panicCall' = panicCall /\ panicLevel' = panicLevel /\ panicCall # None
                  /\ ~(calls[c].level > panicLevel)
                BY <2>3, <3>5 DEF IsDeeper
            <4>2. calls[c].level <= panicLevel
                BY <1>3, <3>1, <4>1
            <4>3. /\ panicCall' \in DOMAIN functions' /\ functions'[panicCall'].panics
                  /\ panicLevel' = calls'[panicCall'].level
                BY <1>1, <2>4, <3>2, <4>1
            <4>4. \A i \in DOMAIN functions' :
                      functions'[i].panics => calls'[i].level <= panicLevel'
                BY <1>1, <2>4, <2>5, <3>2, <4>1, <4>2
            <4> QED BY <3>3, <4>1, <4>3, <4>4 DEF PanicInv
        <3>6. CASE ~panics
            <4>1. panicCall' = panicCall /\ panicLevel' = panicLevel
                BY <2>3, <3>6
            <4>2. \A i \in DOMAIN functions' : functions'[i].panics =>
                      i \in DOMAIN functions /\ functions[i].panics
                BY <2>4, <2>5, <3>6
            <4>3. panicCall # None => panicCall \in DOMAIN functions' /\ functions'[panicCall].panics
                BY <2>4, <3>2
            <4> QED BY <1>1, <3>2, <3>3, <4>1, <4>2, <4>3 DEF PanicInv
        <3> QED BY <3>4, <3>5, <3>6
    <2> QED BY <1>1, <1>2, <2>3, <2>4, <2>6, <2>7 DEF BuildInv
<1> QED BY <1>5, <1>6

-----------------------------------------------------------------------------
(* What is reported *)

\* What the recursion of Shown defines is a list of events.
LEMMA KnownIsList ==
    ASSUME NEW E, NEW es \in Seq(E)
    PROVE  KnownOf(es) \in Seq(E)
<1> DEFINE N == Len(es)
           Makes(n, s) == IF es[n].name = "known" THEN Append(s, es[n]) ELSE s
           Good(n, f) == f[0] = <<>> /\ \A j \in 1..n : f[j] = Makes(j, f[j - 1])
           Upto(n) == \E f \in [0..n -> Seq(E)] : Good(n, f)
           T == {n \in 0..N : ~Upto(n)}
<1>1. N \in Nat /\ \A n \in 1..N : es[n] \in E
    BY LenProperties, ElementOfSeq
<1>2. \A n \in 1..N : \A s \in Seq(E) : Makes(n, s) \in Seq(E)
    BY <1>1, AppendProperties
<1> HIDE DEF N, Makes
<1>3. Upto(N)
    <2> SUFFICES ASSUME T # {} PROVE FALSE
        <3> HIDE DEF Upto
        <3> QED BY <1>1
    <2>1. PICK n \in T : \A m \in T : n <= m
        <3>1. T \subseteq Nat
            OBVIOUS
        <3> HIDE DEF T
        <3> QED BY <3>1, Least
    <2>2. n \in 0..N /\ ~Upto(n)
        OBVIOUS
    <2>3. Upto(0)
        <3> DEFINE f == [j \in 0..0 |-> <<>>]
        <3>1. f \in [0..0 -> Seq(E)] /\ Good(0, f)
            BY EmptySeq
        <3> QED BY <3>1
    <2>4. n \in 1..N
        <3>1. n # 0
            BY <2>2, <2>3
        <3> QED BY <1>1, <2>2, <3>1
    <2>5. Upto(n - 1)
        <3>1. n - 1 \in 0..N /\ ~(n <= n - 1)
            BY <1>1, <2>4
        <3>2. n - 1 \notin T
            BY <2>1, <3>1
        <3> QED BY <3>1, <3>2
    <2>6. PICK f \in [0..n - 1 -> Seq(E)] : Good(n - 1, f)
        BY <2>5
    <2>7. PICK s \in Seq(E) : s = Makes(n, f[n - 1])
        <3>1. f[n - 1] \in Seq(E)
            BY <1>1, <2>4
        <3> QED BY <1>2, <2>4, <3>1
    <2> DEFINE g == [j \in 0..n |-> IF j = n THEN s ELSE f[j]]
    <2>8. g \in [0..n -> Seq(E)]
        <3> HIDE DEF Good, Upto, T
        <3> QED BY <1>1, <2>4
    <2>9. Good(n, g)
        <3>1. g[0] = <<>>
            BY <1>1, <2>4, <2>6
        <3>2. ASSUME NEW j \in 1..n PROVE g[j] = Makes(j, g[j - 1])
            <4>1. j \in 0..n /\ j - 1 \in 0..n /\ j - 1 # n
                BY <1>1, <2>4
            <4>2. g[j - 1] = f[j - 1]
                BY <4>1
            <4>3. CASE j = n
                BY <2>7, <4>1, <4>2, <4>3
            <4>4. CASE j # n
                <5>1. j \in 1..n - 1
                    BY <1>1, <2>4, <4>4
                <5> QED BY <2>6, <4>1, <4>2, <4>4, <5>1
            <4> QED BY <4>3, <4>4
        <3> QED BY <3>1, <3>2
    <2> HIDE DEF g, Good
    <2> QED BY <2>2, <2>8, <2>9
<1>4. PICK f \in [0..N -> Seq(E)] : Good(N, f)
    BY <1>3
<1> DEFINE Solves(h, n) == IF n = 0 THEN <<>> ELSE Makes(n, h[n - 1])
           upto == CHOOSE h : h = [n \in 0..N |-> Solves(h, n)]
<1>5. f = [n \in 0..N |-> Solves(f, n)]
    <2>1. \A n \in 0..N : f[n] = Solves(f, n)
        BY <1>1, <1>4
    <2> HIDE DEF Solves
    <2> QED BY <2>1
<1>6. upto = [n \in 0..N |-> Solves(upto, n)]
    <2> HIDE DEF Solves
    <2> QED BY <1>5
<1>7. KnownOf(es) = upto[N]
    BY DEF KnownOf, N, Makes
<1> HIDE DEF upto
<1>8. upto[0] = <<>> /\ \A n \in 1..N : upto[n] = Makes(n, upto[n - 1])
    <2>1. \A n \in 0..N : upto[n] = Solves(upto, n)
        <3> HIDE DEF Solves
        <3> QED BY <1>6
    <2> QED BY <1>1, <2>1
<1>9. \A n \in 0..N : upto[n] \in Seq(E)
    <2> DEFINE U == {n \in 0..N : upto[n] \notin Seq(E)}
    <2> SUFFICES ASSUME U # {} PROVE FALSE
        OBVIOUS
    <2>1. PICK n \in U : \A m \in U : n <= m
        <3>1. U \subseteq Nat
            BY <1>1
        <3> HIDE DEF U
        <3> QED BY <3>1, Least
    <2>2. n \in 1..N
        <3>1. upto[0] \in Seq(E)
            BY <1>8, EmptySeq
        <3>2. n \in 0..N /\ upto[n] \notin Seq(E)
            OBVIOUS
        <3> QED BY <1>1, <3>1, <3>2
    <2>3. n - 1 \in 0..N /\ n - 1 \notin U
        BY <1>1, <2>1, <2>2
    <2> QED BY <1>2, <1>8, <2>2, <2>3
<1> QED BY <1>1, <1>7, <1>9

LEMMA ShownAre ==
    ASSUME WalkInv
    PROVE  /\ Len(Shown) \in Nat /\ DOMAIN Shown = 1..Len(Shown)
           /\ \A i \in DOMAIN Shown : Shown[i].call \in CallIds
<1>1. emitted \in Seq(EventType)
    BY DEF WalkInv, WalkTypeOK, EventType
<1>2. PICK s : s = Shown
    OBVIOUS
<1>3. s \in Seq(EventType)
    BY <1>1, <1>2, KnownIsList DEF Shown
<1>4. Len(s) \in Nat /\ DOMAIN s = 1..Len(s) /\ \A i \in 1..Len(s) : s[i] \in EventType
    <2> HIDE DEF EventType
    <2> QED BY <1>3, LenProperties, ElementOfSeq
<1> QED BY <1>2, <1>4 DEF EventType

\* The call that is blamed has failed and, on one chain, is the last of it.
LEMMA ReasonIs ==
    ASSUME WalkInv, BuildInv, Failed # {}
    PROVE  /\ Reason \in Failed /\ Reason # None
           /\ OneChain => \A c \in Failed : c \in Path[Reason]
<1>1. Failed \subseteq CallIds /\ CallIds \subseteq Nat /\ None \notin CallIds
      /\ \A c \in CallIds : calls[c].level \in Nat
    BY CallsAre, NoneAssumption DEF Failed, Call
<1>2. /\ deepest \in Failed
      /\ \A c \in Failed : c <= deepest \/ calls[c].level <= deepestLevel
    BY DEF WalkInv, FailInv
<1>3. PICK m \in Failed : calls[m].level = deepestLevel /\ \A c \in Failed : m <= c
    BY DEF WalkInv, FailInv
<1>4. \A c \in CallIds : \A d \in Path[c] :
          d \in CallIds /\ d <= c /\ (d # c => calls[d].level < calls[c].level)
    BY CallPaths
<1>5. \A c \in CallIds : c \in Path[c]
    BY CallPaths
<1>6. ASSUME OneChain, NEW c \in Failed PROVE c \in Path[deepest]
    <2>1. CASE c <= deepest
        <3>1. c \in Path[deepest] \/ deepest \in Path[c]
            BY <1>2, <1>6 DEF OneChain
        <3>2. ASSUME deepest \in Path[c] PROVE c = deepest
            <4>1. deepest <= c
                BY <1>1, <1>4, <1>6, <3>2
            <4>2. c \in Nat /\ deepest \in Nat
                BY <1>1, <1>2
            <4> QED BY <2>1, <4>1, <4>2
        <3> QED BY <1>1, <1>2, <1>5, <3>1, <3>2
    <2>2. CASE ~(c <= deepest)
        <3>1. m # c /\ ~(c <= m)
            BY <1>1, <1>2, <1>3, <1>6, <2>2
        <3>2. c \notin Path[m]
            BY <1>1, <1>3, <1>4, <3>1
        <3>3. m \in Path[c]
            BY <1>3, <1>6, <3>2 DEF OneChain
        <3>4. calls[m].level < calls[c].level
            BY <1>1, <1>4, <1>6, <3>1, <3>3
        <3>5. calls[c].level <= calls[m].level
            BY <1>2, <1>3, <1>6, <2>2
        <3>6. calls[c].level \in Nat /\ calls[m].level \in Nat
            BY <1>1, <1>3, <1>6
        <3> QED BY <3>4, <3>5, <3>6
    <2> QED BY <2>1, <2>2
<1>7. CASE panicCall # None /\ PanicCounts
    <2>1. Reason = panicCall
        BY <1>7 DEF Reason
    <2>2. panicCall \in Failed
        <3>1. panicCall \in DOMAIN functions /\ functions[panicCall].panics
            BY <1>7 DEF BuildInv, PanicInv
        <3>2. calls[panicCall].failed
            BY <3>1 DEF BuildInv, PanicInv
        <3>3. panicCall \in CallIds
            BY <3>1 DEF BuildInv, BuildTypeOK
        <3> QED BY <3>2, <3>3 DEF Failed
    <2>3. ASSUME OneChain PROVE panicCall = deepest
        <3>1. panicCall \in Path[deepest]
            BY <1>6, <2>2, <2>3
        <3>2. calls[panicCall].level >= calls[deepest].level
            BY <1>1, <1>2, <1>7 DEF PanicCounts
        <3>3. panicCall # deepest => calls[panicCall].level < calls[deepest].level
            BY <1>1, <1>2, <1>4, <3>1
        <3>4. calls[panicCall].level \in Nat /\ calls[deepest].level \in Nat
            BY <1>1, <1>2, <2>2
        <3> QED BY <3>2, <3>3, <3>4
    <2> QED BY <1>1, <1>6, <2>1, <2>2, <2>3
<1>8. CASE ~(panicCall # None /\ PanicCounts)
    <2>1. Reason = deepest
        BY <1>8 DEF Reason
    <2> QED BY <1>1, <1>2, <1>6, <2>1
<1> QED BY <1>7, <1>8

LEMMA ReportExplains ==
    ASSUME WalkInv, BuildInv, NEW receipt \in BOOLEAN, Report(receipt)
    PROVE  FailureExplained'
<1>1. UNCHANGED <<calls, functions>> /\ pc = "build" /\ flagged' = Flagged
    BY DEF Report, walk
<1>2. Failed' = Failed /\ Path' = Path /\ (OneChain' <=> OneChain)
    BY <1>1 DEF Failed, Path, OneChain, CallIds
<1>3. CASE Failed # {}
    <2>1. /\ Reason \in Failed /\ Reason # None
          /\ OneChain => \A c \in Failed : c \in Path[Reason]
        BY <1>3, ReasonIs
    <2>2. IsReverted(Reason, receipt)
        BY <2>1 DEF IsReverted, Failed
    <2>3. result' = "reverted" /\ blamed' = Reason
        BY <2>1, <2>2 DEF Report
    <2>4. ASSUME flagged' # None
          PROVE  /\ flagged' = blamed' /\ functions'[flagged'].panics
                 /\ \A c \in DOMAIN functions' :
                       functions'[c].panics => calls'[c].level <= calls'[flagged'].level
        <3>1. flagged' = panicCall /\ panicCall # None /\ PanicCounts
            BY <1>1, <2>4 DEF Flagged
        <3>2. Reason = panicCall
            BY <3>1 DEF Reason
        <3>3. /\ functions[panicCall].panics /\ panicLevel = calls[panicCall].level
              /\ \A c \in DOMAIN functions : functions[c].panics => calls[c].level <= panicLevel
            BY <3>1 DEF BuildInv, PanicInv
        <3> QED BY <1>1, <2>3, <3>1, <3>2, <3>3
    <2> QED BY <1>2, <2>1, <2>3, <2>4 DEF FailureExplained
<1>4. CASE Failed = {}
    <2>1. deepest = None
        BY <1>4 DEF WalkInv, FailInv
    <2>2. flagged' = None
        BY <1>1, <2>1 DEF Flagged
    <2> QED BY <1>2, <1>4, <2>2 DEF FailureExplained
<1> QED BY <1>3, <1>4

LEMMA ReportShows ==
    ASSUME WalkInv, BuildInv, NEW receipt \in BOOLEAN, Report(receipt)
    PROVE  CallsShown' /\ events' \in Seq(CallIds)
<1>1. UNCHANGED <<calls, functions, shows, emitted>> /\ pc = "build"
      /\ available' = Offered /\ linked' = linked \ Unlinked
    BY DEF Report, walk
<1>2. Shown' = Shown /\ CallIds' = CallIds
    BY <1>1 DEF Shown, CallIds
<1>3. linked = DOMAIN functions /\ BuildTypeOK
    BY <1>1 DEF BuildInv
<1>4. ASSUME NEW c \in DOMAIN functions, ~calls[c].hidden
      PROVE  c \in linked' <=> functions[c].linked = Len(calls[c].kids)
    <2>1. c \in CallIds /\ functions[c] \in [linked: 0..Len(calls[c].kids), panics: BOOLEAN]
        BY <1>3 DEF BuildTypeOK
    <2>2. PICK n, kids : n = functions[c].linked /\ kids = calls[c].kids /\ n \in 0..Len(kids)
        BY <2>1
    <2>3. Len(kids) \in Nat /\ DOMAIN kids = 1..Len(kids)
        <3>1. kids \in Seq(Nat)
            BY <2>1, <2>2, CallsAre DEF Call
        <3> QED BY <3>1, LenProperties
    <2>4. c \in linked' <=> \A i \in DOMAIN kids : i <= n
        BY <1>1, <1>3, <1>4, <2>2 DEF Unlinked, IsLinked
    <2>5. (\A i \in DOMAIN kids : i <= n) <=> n = Len(kids)
        <3>1. CASE Len(kids) = 0
            BY <2>2, <2>3, <3>1
        <3>2. CASE Len(kids) # 0
            <4>1. Len(kids) \in DOMAIN kids
                BY <2>3, <3>2
            <4> QED BY <2>2, <2>3, <4>1
        <3> QED BY <3>1, <3>2
    <2> QED BY <2>2, <2>4, <2>5
<1>5. \A c \in CallIds : calls[c].contract \in shows.voyager => c \in available'
    BY <1>1 DEF Offered
<1>6. PICK at \in [DOMAIN Shown -> CallIds] :
          /\ \A i \in DOMAIN Shown : at[i] \in CallsAt(Shown[i])
          /\ events' = [i \in DOMAIN Shown |-> at[Len(Shown) + 1 - i]]
    BY DEF Report
<1>7. /\ Len(Shown) \in Nat /\ DOMAIN Shown = 1..Len(Shown)
      /\ \A i \in DOMAIN Shown : Shown[i].call \in CallIds
    BY ShownAre
<1>8. /\ DOMAIN events' = 1..Len(Shown)
      /\ \A i \in 1..Len(Shown) : /\ Len(Shown) + 1 - i \in DOMAIN Shown
                                  /\ events'[i] = at[Len(Shown) + 1 - i]
    BY <1>6, <1>7
<1>9. events' \in Seq(CallIds) /\ Len(events') = Len(Shown)
    <2>1. \A i \in 1..Len(Shown) : events'[i] \in CallIds
        BY <1>6, <1>8
    <2>2. events' \in [1..Len(Shown) -> CallIds]
        BY <1>6, <1>7, <2>1
    <2>3. events' \in Seq(CallIds)
        BY <1>7, <2>2
    <2> QED BY <1>7, <1>8, <2>3, LenProperties
<1>10. ASSUME NEW i \in DOMAIN events', NEW e, e = Shown[Len(events') + 1 - i],
              NEW there, there = {c \in CallIds : calls[c].contract = calls[e.call].contract}
       PROVE  events'[i] \in there /\ (Cardinality(there) = 1 => events'[i] = e.call)
    <2>1. PICK k \in DOMAIN Shown : k = Len(Shown) + 1 - i /\ e = Shown[k] /\ events'[i] = at[k]
        BY <1>8, <1>9, <1>10
    <2>2. events'[i] \in there /\ e.call \in there
        BY <1>6, <1>7, <1>10, <2>1 DEF CallsAt
    <2>3. IsFiniteSet(there)
        <3>1. there \subseteq 1..Len(calls) /\ Len(calls) \in Nat
            BY <1>10, CallsAre
        <3>2. IsFiniteSet(1..Len(calls))
            BY <3>1, FS_Interval
        <3> QED BY <3>1, <3>2, FS_Subset
    <2>4. Cardinality(there) = 1 => \E x : there = {x}
        BY <2>3, FS_Singleton
    <2> QED BY <2>2, <2>4
<1>11. ASSUME NEW i \in DOMAIN events'
       PROVE  LET e == Shown[Len(events') + 1 - i]
                  there == {c \in CallIds : calls[c].contract = calls[e.call].contract}
              IN events'[i] \in there /\ (Cardinality(there) = 1 => events'[i] = e.call)
    <2>1. PICK e : e = Shown[Len(events') + 1 - i]
        OBVIOUS
    <2>2. PICK there : there = {c \in CallIds : calls[c].contract = calls[e.call].contract}
        OBVIOUS
    <2> QED BY <1>10, <2>1, <2>2
<1> QED BY <1>1, <1>2, <1>4, <1>5, <1>9, <1>11 DEF CallsShown

\* A trace that is finished stays as it is.
LEMMA StepReported ==
    ASSUME WalkInv, BuildInv, FailureExplained, CallsShown, [Next]_vars
    PROVE  FailureExplained' /\ CallsShown'
<1>1. CASE \E receipt \in BOOLEAN : Report(receipt)
    BY <1>1, ReportExplains, ReportShows
<1>2. CASE UNCHANGED <<walk, mode, shows, built, report, pc>>
    <2>1. UNCHANGED <<calls, emitted, mode, shows, left, functions, stored, panicCall, panicLevel,
                      available, linked, events, result, blamed, flagged, pc>>
        BY <1>2 DEF walk, built, report
    <2>2. FailureExplained'
        BY <2>1 DEF FailureExplained, Reported, Failed, OneChain, Path, CallIds
    <2>3. CallsShown'
        BY <2>1 DEF CallsShown, Reported, Shown, CallIds
    <2> QED BY <2>2, <2>3
<1>3. CASE ~Reported'
    BY <1>3 DEF FailureExplained, CallsShown
<1>4. CASE Walk /\ UNCHANGED <<mode, shows, built, report>>
    <2>1. pc' \in {"walk", "ready"}
        BY <1>4 DEF Walk, EnterCall, EmitEvent, LeaveCall
    <2> QED BY <1>3, <2>1 DEF Reported
<1>5. CASE Build \/ Crash
    <2>1. pc' # "done" \/ result' \in {"error", "crash"}
        BY <1>5 DEF Build, Begin, MapCall, MapBroken, Crash
    <2> QED BY <1>3, <2>1 DEF Reported
<1>6. CASE Merge \/ Inherit \/ Point
    <2>1. pc' # "done" \/ result' = "debugged"
        BY <1>6 DEF Merge, Inherit, Point
    <2> QED BY <1>3, <2>1 DEF Reported
<1>7. CASE MergeLocation \/ MergeCall \/ MergeNoTrace \/ UNCHANGED vars
    <2>1. UNCHANGED <<walk, mode, shows, built, report, pc>>
        BY <1>7 DEF MergeLocation, MergeCall, MergeNoTrace, Kept, vars
    <2> QED BY <1>2, <2>1
<1> QED BY <1>1, <1>4, <1>5, <1>6, <1>7 DEF Next

LEMMA BrokenBuilt ==
    ASSUME WalkInv, BuildInv, NEW c \in CallIds, MapBroken(c) \/ Crash
    PROVE  BuildInv'
<1>1. /\ UNCHANGED <<calls, mode, shows, left, functions, stored, panicCall, panicLevel, available,
                     linked, events, blamed, flagged>>
      /\ pc' = "done" /\ result' \in {"error", "crash"}
    BY DEF MapBroken, Crash, walk, built
<1>2. BuildTypeOK /\ PanicInv
    BY DEF BuildInv
<1>3. BuildTypeOK'
    BY <1>1, <1>2 DEF BuildTypeOK, CallIds
<1>4. PanicInv'
    BY <1>1, <1>2 DEF PanicInv
<1> QED BY <1>1, <1>3, <1>4 DEF BuildInv

LEMMA ReportBuilt ==
    ASSUME WalkInv, BuildInv, NEW receipt \in BOOLEAN, Report(receipt)
    PROVE  BuildInv'
<1>1. /\ UNCHANGED <<calls, mode, shows, left, functions, stored, panicCall, panicLevel>>
      /\ pc = "build" /\ pc' = "done" /\ linked' \subseteq linked /\ available' = Offered
      /\ flagged' = Flagged
    BY DEF Report, walk
<1>2. BuildTypeOK /\ PanicInv /\ CallIds' = CallIds
    BY <1>1 DEF BuildInv, CallIds
<1>3. events' \in Seq(CallIds)
    BY ReportShows
<1>4. /\ DOMAIN functions \subseteq CallIds /\ available \subseteq CallIds
      /\ panicCall \in CallIds \cup {None}
    BY <1>2 DEF BuildTypeOK
<1>5. deepest \in CallIds \cup {None} /\ Root \in CallIds
    BY CallsAre DEF WalkInv, WalkTypeOK
<1>6. flagged' \in CallIds \cup {None}
    BY <1>1, <1>4 DEF Flagged
<1>7. Reason \in CallIds \cup {None}
    BY <1>4, <1>5 DEF Reason
<1>8. result' \in {"reverted", "succeeded"} /\ blamed' \in CallIds \cup {None}
    <2>1. CASE IsReverted(Reason, receipt)
        BY <1>5, <1>7, <2>1 DEF Report
    <2>2. CASE ~IsReverted(Reason, receipt)
        BY <2>2 DEF Report
    <2> QED BY <2>1, <2>2
<1>9. available' \subseteq CallIds
    BY <1>1, <1>4 DEF Offered
<1>10. BuildTypeOK'
    BY <1>1, <1>2, <1>3, <1>6, <1>8, <1>9 DEF BuildTypeOK
<1>11. PanicInv'
    BY <1>1, <1>2 DEF PanicInv
<1> QED BY <1>1, <1>10, <1>11 DEF BuildInv

LEMMA DebugBuilt ==
    ASSUME WalkInv, BuildInv,
           Merge \/ MergeLocation \/ MergeCall \/ MergeNoTrace \/ Inherit \/ Point \/ UNCHANGED vars
    PROVE  BuildInv'
<1>1. /\ UNCHANGED <<calls, mode, shows, left, functions, stored, panicCall, panicLevel, available,
                     linked, events, blamed, flagged>>
      /\ result' \in {result, "debugged"}
      /\ pc' \in {pc, "merge", "point", "done"} /\ (pc' # "done" => pc # "done")
    BY DEF Merge, MergeLocation, MergeCall, MergeNoTrace, Kept, Inherit, Point, vars, walk, built,
           report, Merging
<1>2. BuildTypeOK /\ PanicInv
    BY DEF BuildInv
<1>3. BuildTypeOK'
    BY <1>1, <1>2 DEF BuildTypeOK, CallIds
<1>4. PanicInv'
    BY <1>1, <1>2 DEF PanicInv
<1> QED BY <1>1, <1>3, <1>4 DEF BuildInv

LEMMA StepBuilt ==
    ASSUME WalkInv, BuildInv, [Next]_vars
    PROVE  BuildInv'
<1>1. CASE Walk /\ UNCHANGED <<mode, shows, built, report>>
    BY <1>1, WalkBuilt
<1>2. CASE Build
    BY <1>2, BeginBuilt, MapBuilt, BrokenBuilt DEF Build
<1>3. CASE Crash
    <2>1. Root \in CallIds
        BY CallsAre
    <2> QED BY <1>3, <2>1, BrokenBuilt
<1>4. CASE \E receipt \in BOOLEAN : Report(receipt)
    BY <1>4, ReportBuilt
<1>5. CASE Merge \/ MergeLocation \/ MergeCall \/ MergeNoTrace \/ Inherit \/ Point \/ UNCHANGED vars
    BY <1>5, DebugBuilt
<1> QED BY <1>1, <1>2, <1>3, <1>4, <1>5 DEF Next

\* The functions of a simulation, and the panic that is kept of them.
THEOREM BuildInvCorrect == Spec => []BuildInv
<1>1. WalkInv /\ BuildInv /\ [Next]_vars => BuildInv'
    BY StepBuilt
<1> QED BY InitBuilt, WalkInvCorrect, <1>1, PTL DEF Spec

LEMMA InitReported == Init => FailureExplained /\ CallsShown
<1>1. Init => ~Reported
    BY DEF Init, WalkInit, Reported
<1> QED BY <1>1 DEF FailureExplained, CallsShown

\* The failed call that is shown is the one that failed first if the failed
\* calls lie on one chain, whatever order the calls' functions are built in
\* (contract_calls_map.rs, function_calls.rs, simulate.rs), for call trees of
\* any size and classes known in any way.
THEOREM FailureExplainedCorrect == Spec => []FailureExplained
<1>1. WalkInv /\ BuildInv /\ FailureExplained /\ CallsShown /\ [Next]_vars
          => FailureExplained' /\ CallsShown'
    BY StepReported
<1> QED BY InitReported, WalkInvCorrect, BuildInvCorrect, <1>1, PTL DEF Spec

\* No inner call, verified class or event of a known name is left out of what
\* is shown (simulate.rs, events.rs).
THEOREM CallsShownCorrect == Spec => []CallsShown
<1>1. WalkInv /\ BuildInv /\ FailureExplained /\ CallsShown /\ [Next]_vars
          => FailureExplained' /\ CallsShown'
    BY StepReported
<1> QED BY InitReported, WalkInvCorrect, BuildInvCorrect, <1>1, PTL DEF Spec

-----------------------------------------------------------------------------
(* The debugger's trace *)

DebugInv ==
    /\ pc \in {"walk", "ready", "build", "merge", "point", "done"}
    /\ work \in Seq(Step) /\ trace \in Seq(Step)
    /\ DOMAIN callStep \subseteq CallIds /\ DOMAIN functionStep \subseteq CallIds \X Parts
    /\ pc \in {"walk", "ready", "build"} => work = <<>> /\ trace = <<>>
    /\ pc \in {"merge", "point"} => shape \in [DOMAIN functions -> Shapes]

LEMMA StepIs ==
    \A s \in Step : s.call \in CallIds /\ s.part \in Parts /\ s.kind \in {"location", "call"}
BY DEF Step

\* The inner calls of a call, as steps into them.
LEMMA KidsAre ==
    ASSUME WalkInv, NEW c \in CallIds
    PROVE  /\ Kids(c) \in Seq(Step) /\ Len(Kids(c)) = Len(calls[c].kids)
           /\ DOMAIN Kids(c) = 1..Len(Kids(c)) /\ Len(Kids(c)) \in Nat
           /\ \A i \in DOMAIN Kids(c) : Kids(c)[i] = Inner(calls[c].kids[i])
           /\ \A i \in DOMAIN Kids(c) : calls[c].kids[i] \in CallIds
<1>1. PICK kids : kids = calls[c].kids
    OBVIOUS
<1>2. kids \in Seq(Nat) /\ {kids[i] : i \in DOMAIN kids} = {d \in CallIds : calls[d].parent = c}
    <2>1. kids \in Seq(Nat)
        BY <1>1, CallsAre DEF Call
    <2>2. {kids[i] : i \in DOMAIN kids} = {d \in CallIds : calls[d].parent = c}
        BY <1>1 DEF WalkInv, WalkTypeOK
    <2> QED BY <2>1, <2>2
<1>3. Len(kids) \in Nat /\ DOMAIN kids = 1..Len(kids)
    BY <1>2, LenProperties
<1>4. \A i \in 1..Len(kids) : kids[i] \in CallIds
    BY <1>2, <1>3
<1>5. \A i \in 1..Len(kids) : Inner(kids[i]) \in Step
    BY <1>4 DEF Inner, Step, Parts
<1>6. PICK ks : ks = [i \in 1..Len(kids) |-> Inner(kids[i])]
    OBVIOUS
<1>7. ks \in [1..Len(kids) -> Step]
    BY <1>5, <1>6
<1>8. ks \in Seq(Step) /\ DOMAIN ks = 1..Len(kids)
    BY <1>3, <1>6, <1>7
<1>9. Len(ks) = Len(kids)
    BY <1>3, <1>8, LenProperties
<1>10. Kids(c) = ks
    BY <1>1, <1>3, <1>6 DEF Kids
<1> QED BY <1>1, <1>3, <1>4, <1>6, <1>8, <1>9, <1>10

LEMMA InSum ==
    ASSUME NEW l \in Nat, NEW n \in Nat, NEW b \in Nat
    PROVE  /\ \A i \in 1..l : i \in 1..l + n /\ i \in 1..l + n + b /\ i <= l + n
           /\ \A i \in 1..n : /\ l + i \in 1..l + n /\ l + i \in 1..l + n + b
                               /\ ~(l + i <= l) /\ (l + i) - l = i
OBVIOUS

\* A trace is made of the locations before the inner calls, the inner calls
\* that are linked, and a location after them.
LEMMA TraceIs ==
    ASSUME WalkInv, NEW c \in CallIds, shape[c] \in Shapes,
           functions[c].linked \in 0..Len(calls[c].kids)
    PROVE  LET s == shape[c]
               n == functions[c].linked
               t == TraceOf(c)
               l == Len(s.lead)
           IN /\ t \in Seq(Step) /\ l \in Nat /\ Len(t) \in Nat /\ DOMAIN t = 1..Len(t)
              /\ s.back => Len(t) = l + n + 1
              /\ ~s.back => Len(t) = l + n
              /\ \A i \in 1..l : t[i] = Location(c, s.lead[i], i)
              /\ \A i \in 1..n : t[l + i] = Inner(calls[c].kids[i])
              /\ s.back => t[l + n + 1] = Location(c, "body", l + 1)
              /\ s.lead \in Seq(Parts) /\ DOMAIN s.lead = 1..l
<1>0. PICK s, n, t, l : /\ s = shape[c] /\ n = functions[c].linked
                        /\ t = TraceOf(c) /\ l = Len(s.lead)
    OBVIOUS
<1>17. s \in Shapes /\ n \in 0..Len(calls[c].kids)
    BY <1>0
<1>1. PICK lead : lead = s.lead
    OBVIOUS
<1>2. lead \in Seq(Parts)
    <2>1. s.lead \in Seq(IF s.body THEN Parts ELSE {"wrapper"})
        BY <1>17, ShapesAssumption
    <2>2. (IF s.body THEN Parts ELSE {"wrapper"}) \subseteq Parts
        BY DEF Parts
    <2> QED BY <1>1, <2>1, <2>2, SeqMonotonic
<1>3. l \in Nat /\ DOMAIN lead = 1..l /\ \A i \in 1..l : lead[i] \in Parts
    BY <1>0, <1>1, <1>2, LenProperties, ElementOfSeq
<1>4. PICK first : first = [i \in 1..l |-> Location(c, lead[i], i)]
    OBVIOUS
<1>5. first \in Seq(Step) /\ Len(first) = l /\ \A i \in 1..l : first[i] = Location(c, lead[i], i)
    <2>1. \A i \in 1..l : Location(c, lead[i], i) \in Step
        BY <1>3 DEF Location, Step
    <2>2. first \in [1..l -> Step]
        BY <1>4, <2>1
    <2>3. first \in Seq(Step) /\ DOMAIN first = 1..l
        BY <1>3, <1>4, <2>2
    <2> QED BY <1>3, <1>4, <2>3, LenProperties
<1>6. PICK kids : kids = Kids(c)
    OBVIOUS
<1>7. /\ kids \in Seq(Step) /\ Len(kids) \in Nat /\ n \in 0..Len(kids)
      /\ DOMAIN kids = 1..Len(kids)
      /\ \A i \in 1..Len(kids) : kids[i] = Inner(calls[c].kids[i]) /\ kids[i] \in Step
    BY <1>6, <1>17, KidsAre, ElementOfSeq
<1>8. PICK mid : mid = SubSeq(kids, 1, n)
    OBVIOUS
<1>9. mid \in Seq(Step) /\ Len(mid) = n /\ \A i \in 1..n : mid[i] = Inner(calls[c].kids[i])
    <2>1. n \in Nat /\ \A i \in 1..n : kids[i] \in Step
        BY <1>7
    <2>2. /\ mid \in Seq(Step) /\ Len(mid) = IF 1 <= n THEN n - 1 + 1 ELSE 0
          /\ \A i \in 1..n - 1 + 1 : mid[i] = kids[1 + i - 1]
        <3> HIDE DEF Step
        <3> QED BY <1>8, <2>1, SubSeqProperties
    <2>3. Len(mid) = n
        BY <2>1, <2>2
    <2>4. \A i \in 1..n : mid[i] = kids[i]
        <3> TAKE i \in 1..n
        <3>1. i \in 1..n - 1 + 1 /\ 1 + i - 1 = i
            BY <2>1
        <3> QED BY <2>2, <3>1
    <2>5. \A i \in 1..n : i \in 1..Len(kids)
        BY <1>7
    <2> QED BY <1>7, <2>2, <2>3, <2>4, <2>5
<1>10. PICK o : o = Location(c, "body", l + 1)
    OBVIOUS
<1>11. PICK last : last = IF s.back THEN <<o>> ELSE <<>>
    OBVIOUS
<1>12. last \in Seq(Step)
    <2>1. o \in Step
        BY <1>3, <1>10 DEF Location, Step, Parts
    <2> QED BY <1>11, <2>1, EmptySeq
<1>18. PICK b : b = Len(last) /\ b \in Nat /\ n \in Nat
    <2>1. n \in Nat
        BY <1>7
    <2> QED BY <1>12, <2>1, LenProperties
<1>13. t = (first \o mid) \o last
    BY <1>0, <1>1, <1>3, <1>4, <1>6, <1>8, <1>10, <1>11 DEF TraceOf
<1>14. PICK fm : fm = first \o mid
    OBVIOUS
<1>15. /\ fm \in Seq(Step) /\ Len(fm) = l + n
       /\ \A i \in 1..l + n : fm[i] = IF i <= l THEN first[i] ELSE mid[i - l]
    <2>1. /\ first \o mid \in Seq(Step) /\ Len(first \o mid) = Len(first) + Len(mid)
          /\ \A i \in 1..Len(first) + Len(mid) :
                (first \o mid)[i] = IF i <= Len(first) THEN first[i] ELSE mid[i - Len(first)]
        BY <1>5, <1>9, ConcatProperties
    <2> QED BY <1>5, <1>9, <1>14, <2>1
<1>16. /\ t \in Seq(Step) /\ Len(t) = l + n + b
       /\ \A i \in 1..l + n + b : t[i] = IF i <= l + n THEN fm[i] ELSE last[i - (l + n)]
    <2>1. /\ fm \o last \in Seq(Step) /\ Len(fm \o last) = Len(fm) + Len(last)
          /\ \A i \in 1..Len(fm) + Len(last) :
                (fm \o last)[i] = IF i <= Len(fm) THEN fm[i] ELSE last[i - Len(fm)]
        BY <1>12, <1>15, ConcatProperties
    <2> QED BY <1>13, <1>14, <1>15, <1>18, <2>1
<1>19. \A i \in 1..l : t[i] = Location(c, lead[i], i)
    <2> TAKE i \in 1..l
    <2>1. i \in 1..l + n /\ i \in 1..l + n + b /\ i <= l /\ i <= l + n
        <3>1. i <= l
            BY <1>3
        <3> QED BY <1>3, <1>18, <3>1, InSum
    <2>2. t[i] = first[i]
        BY <1>15, <1>16, <2>1
    <2> QED BY <1>5, <2>2
<1>20. \A i \in 1..n : t[l + i] = Inner(calls[c].kids[i])
    <2> TAKE i \in 1..n
    <2>1. PICK j : j = l + i
        OBVIOUS
    <2>2. j \in 1..l + n /\ j \in 1..l + n + b /\ ~(j <= l) /\ j - l = i
        <3>1. \A k \in 1..n : /\ l + k \in 1..l + n /\ l + k \in 1..l + n + b
                              /\ ~(l + k <= l) /\ (l + k) - l = k
            BY <1>3, <1>18, InSum
        <3> QED BY <2>1, <3>1
    <2>3. t[j] = mid[i]
        BY <1>15, <1>16, <2>2
    <2> QED BY <1>9, <2>1, <2>3
<1>21. s.back => t[l + n + 1] = o
    <2> SUFFICES ASSUME s.back PROVE t[l + n + 1] = o
        OBVIOUS
    <2>1. PICK j : j = l + n + 1
        OBVIOUS
    <2>2. j \in 1..l + n + b /\ ~(j <= l + n) /\ j - (l + n) = 1
        <3>1. b = 1
            BY <1>11, <1>18
        <3> QED BY <1>3, <1>18, <2>1, <3>1
    <2>3. last[1] = o
        BY <1>11
    <2> QED BY <1>16, <2>1, <2>2, <2>3
<1>22. (s.back => b = 1) /\ (~s.back => b = 0)
    BY <1>11, <1>18
<1>23. (s.back => Len(t) = l + n + 1) /\ (~s.back => Len(t) = l + n)
    <2>3. ASSUME b = 1 PROVE Len(t) = l + n + 1
        BY <1>16, <2>3
    <2>4. ASSUME b = 0 PROVE Len(t) = l + n
        <3>1. l + n + 0 = l + n
            BY <1>3, <1>18
        <3> QED BY <1>16, <2>4, <3>1
    <2>1. CASE s.back
        BY <1>22, <2>1, <2>3
    <2>2. CASE ~s.back
        BY <1>22, <2>2, <2>4
    <2> QED BY <2>1, <2>2
<1>24. Len(t) \in Nat /\ DOMAIN t = 1..Len(t)
    BY <1>16, LenProperties
<1> QED BY <1>0, <1>1, <1>2, <1>3, <1>10, <1>16, <1>19, <1>20, <1>21, <1>23, <1>24

-----------------------------------------------------------------------------
(* The order of the calls *)

\* The open calls are the path to the last of them; what has been numbered
\* since one of them is below it.
PathInv ==
    /\ \A k \in DOMAIN open : Path[open[k].call] = {open[j].call : j \in 1..k}
    /\ \A k \in DOMAIN open : \A e \in CallIds : open[k].call <= e => open[k].call \in Path[e]

\* The calls below a call have the numbers that follow it.
OrderInv ==
    \A c \in CallIds : \A d \in Path[c] : \A e \in CallIds : d <= e /\ e <= c => d \in Path[e]

\* The account's validation is the first call of the root, its execution the
\* second.
EntryInv ==
    LET kids == calls[Root].kids
    IN \A c \in CallIds :
          /\ calls[c].entry = "validate" => 1 \in DOMAIN kids /\ kids[1] = c
          /\ calls[c].entry = "execute" => 2 \in DOMAIN kids /\ kids[2] = c

LEMMA InitOrder == WalkInit => PathInv /\ OrderInv /\ EntryInv
<1> SUFFICES ASSUME WalkInit PROVE PathInv /\ OrderInv /\ EntryInv
    OBVIOUS
<1>1. WalkInv
    BY InitWalk
<1>2. PICK root : root = NewCall(None, "root", 0, 0, FALSE, TRUE)
    OBVIOUS
<1>3. root.parent = 0 /\ root.entry = "root"
    BY <1>2 DEF NewCall
<1>4. CallIds = {1} /\ calls[1] = root
    BY <1>2 DEF WalkInit, CallIds
<1>5. PICK o : o = [call |-> Root, list |-> Top]
    OBVIOUS
<1>6. DOMAIN open = {1} /\ open[1] = o /\ o.call = 1
    BY <1>5 DEF WalkInit, Root
<1>7. Path[1] = {1}
    BY <1>1, <1>3, <1>4, CallPaths
<1>8. {open[j].call : j \in 1..1} = {1}
    BY <1>6
<1>9. PathInv
    BY <1>4, <1>6, <1>7, <1>8 DEF PathInv
<1>10. OrderInv
    BY <1>4, <1>7 DEF OrderInv
<1>11. EntryInv
    BY <1>3, <1>4 DEF EntryInv
<1> QED BY <1>9, <1>10, <1>11

LEMMA EnterOrder ==
    ASSUME WalkInv, PathInv, OrderInv,
           NEW contract \in Contracts, NEW entry \in {"validate", "execute", "other"},
           NEW failed \in BOOLEAN, EnterCall(contract, entry, failed)
    PROVE  PathInv' /\ OrderInv'
<1>1. PICK id, h, n : id = Len(calls) + 1 /\ h = Here.call /\ n = Len(open)
    OBVIOUS
<1>2. /\ CallIds = 1..Len(calls) /\ Len(calls) \in Nat /\ id \in Nat /\ id \notin CallIds
      /\ n \in Nat \ {0} /\ DOMAIN open = 1..n /\ open[n].call = h
      /\ \A k \in DOMAIN open : open[k].call \in CallIds
    BY <1>1, CallsAre DEF OpenType, Here
<1>3. CallIds' = CallIds \cup {id}
    <2>1. CallIds' = 1..id
        BY <1>1, EnterCalls
    <2> QED BY <1>1, <1>2, <2>1
<1>4. /\ \A c \in CallIds : Path'[c] = Path[c]
      /\ Path'[id] = {id} \cup Path[h]
    BY <1>1, EnterPaths
<1>5. PICK new : new = [call |-> id, list |-> ListOf(id, contract = Strk)]
    OBVIOUS
<1>6. open' = Append(open, new) /\ new.call = id
    BY <1>1, <1>5 DEF EnterCall
<1>7. DOMAIN open' = 1..n + 1 /\ open'[n + 1].call = id /\ \A k \in 1..n : open'[k] = open[k]
    <2>1. PICK S : open \in Seq(S) /\ new \in S
        <3>1. open \in Seq(OpenType)
            BY DEF WalkInv, WalkTypeOK, OpenType
        <3>2. open \in Seq(OpenType \cup {new})
            BY <3>1, SeqMonotonic
        <3> QED BY <3>2
    <2>2. /\ Append(open, new) \in Seq(S) /\ Len(Append(open, new)) = n + 1
          /\ \A k \in 1..n : Append(open, new)[k] = open[k]
          /\ Append(open, new)[n + 1] = new
        BY <1>1, <2>1, AppendProperties
    <2> QED BY <1>6, <2>2, LenProperties
<1>8. /\ \A k \in 1..n : Path[open[k].call] = {open[j].call : j \in 1..k}
      /\ \A k \in 1..n : \A e \in CallIds : open[k].call <= e => open[k].call \in Path[e]
    BY <1>2 DEF PathInv
<1>9. Path[h] = {open[j].call : j \in 1..n}
    <2>1. n \in 1..n
        BY <1>2
    <2>2. Path[open[n].call] = {open[j].call : j \in 1..n}
        BY <1>8, <2>1
    <2> QED BY <1>2, <2>2
<1>10. ASSUME NEW k \in 1..n + 1
       PROVE  Path'[open'[k].call] = {open'[j].call : j \in 1..k}
    <2>1. CASE k = n + 1
        <3>1. {open'[j].call : j \in 1..n + 1} = {open[j].call : j \in 1..n} \cup {id}
            BY <1>2, <1>7
        <3> QED BY <1>4, <1>7, <1>9, <2>1, <3>1
    <2>2. CASE k # n + 1
        <3>1. k \in 1..n
            BY <1>2, <2>2
        <3>2. {open'[j].call : j \in 1..k} = {open[j].call : j \in 1..k}
            BY <1>2, <1>7, <3>1
        <3>3. PICK c \in CallIds : c = open[k].call
            BY <1>2, <3>1
        <3> QED BY <1>4, <1>7, <1>8, <3>1, <3>2, <3>3
    <2> QED BY <2>1, <2>2
<1>11. ASSUME NEW k \in 1..n + 1, NEW e \in CallIds', open'[k].call <= e
       PROVE  open'[k].call \in Path'[e]
    <2>1. CASE k = n + 1
        BY <1>1, <1>2, <1>3, <1>4, <1>7, <1>11, <2>1
    <2>2. CASE k # n + 1
        <3>1. k \in 1..n /\ open'[k] = open[k]
            BY <1>2, <1>7, <2>2
        <3>2. CASE e = id
            <4>1. open[k].call \in Path[h]
                BY <1>9, <3>1
            <4> QED BY <1>4, <3>1, <3>2, <4>1
        <3>3. CASE e # id
            BY <1>3, <1>4, <1>8, <1>11, <3>1, <3>3
        <3> QED BY <3>2, <3>3
    <2> QED BY <2>1, <2>2
<1>12. PathInv'
    BY <1>7, <1>10, <1>11 DEF PathInv
<1>13. ASSUME NEW c \in CallIds', NEW d \in Path'[c], NEW e \in CallIds', d <= e, e <= c
       PROVE  d \in Path'[e]
    <2>1. CASE c # id
        <3>1. c \in CallIds /\ d \in Path[c]
            BY <1>3, <1>4, <2>1
        <3>2. e \in CallIds
            BY <1>1, <1>2, <1>3, <1>13, <3>1
        <3>3. d \in Path[e]
            BY <1>13, <3>1, <3>2 DEF OrderInv
        <3> QED BY <1>4, <3>2, <3>3
    <2>2. CASE c = id /\ e = id
        BY <2>2
    <2>3. CASE c = id /\ e # id
        <3>1. e \in CallIds /\ d # id
            BY <1>1, <1>2, <1>3, <1>13, <2>3
        <3>2. d \in Path[h]
            BY <1>4, <2>3, <3>1
        <3>3. PICK j \in 1..n : d = open[j].call
            BY <1>9, <3>2
        <3>4. d \in Path[e]
            BY <1>8, <1>13, <3>1, <3>3
        <3> QED BY <1>4, <3>1, <3>4
    <2> QED BY <2>1, <2>2, <2>3
<1>14. OrderInv'
    BY <1>13 DEF OrderInv
<1> QED BY <1>12, <1>14

LEMMA EnterEntries ==
    ASSUME WalkInv, EntryInv,
           NEW contract \in Contracts, NEW entry \in {"validate", "execute", "other"},
           NEW failed \in BOOLEAN, EnterCall(contract, entry, failed)
    PROVE  EntryInv'
<1>1. PICK id, h, kids : id = Len(calls) + 1 /\ h = Here.call /\ kids = calls[Root].kids
    OBVIOUS
<1>2. CallIds = 1..Len(calls) /\ Len(calls) \in Nat /\ Root \in CallIds /\ calls[Root] \in Call
    BY CallsAre
<1>3. /\ CallIds' = CallIds \cup {id} /\ id \notin CallIds
      /\ \A c \in CallIds : calls'[c].entry = calls[c].entry
      /\ calls'[id].entry = entry
      /\ calls'[Root].kids = IF Root = h THEN Append(kids, id) ELSE kids
    <2>1. CallIds' = 1..id
        BY <1>1, EnterCalls
    <2>2. CallIds' = CallIds \cup {id} /\ id \notin CallIds
        BY <1>1, <1>2, <2>1
    <2> QED BY <1>1, <1>2, <2>2, EnterCalls
<1>4. kids \in Seq(Nat) /\ id \in Nat
    BY <1>1, <1>2 DEF Call
<1>5. /\ Len(kids) \in Nat /\ DOMAIN kids = 1..Len(kids)
      /\ DOMAIN Append(kids, id) = 1..Len(kids) + 1
      /\ \A i \in DOMAIN kids : Append(kids, id)[i] = kids[i]
      /\ Append(kids, id)[Len(kids) + 1] = id
    BY <1>4, LenProperties, AppendProperties
<1>6. PICK ks : ks = calls'[Root].kids
    OBVIOUS
<1>7. DOMAIN kids \subseteq DOMAIN ks /\ \A i \in DOMAIN kids : ks[i] = kids[i]
    BY <1>3, <1>5, <1>6
<1>8. \/ h = Root /\ Len(kids) + 1 <= 3 /\ entry = Entry(Len(kids) + 1)
      \/ h # Root /\ entry = "other"
    BY <1>1 DEF EnterCall, Calls
<1>9. /\ entry = "validate" => 1 \in DOMAIN ks /\ ks[1] = id
      /\ entry = "execute" => 2 \in DOMAIN ks /\ ks[2] = id
    <2>1. CASE h # Root
        BY <1>8, <2>1
    <2>2. CASE h = Root
        <3>1. PICK n \in 1..3 : n = Len(kids) + 1
            BY <1>5, <1>8, <2>2
        <3>2. entry = Entry(n) /\ n \in DOMAIN ks /\ ks[n] = id
            BY <1>3, <1>5, <1>6, <1>8, <2>2, <3>1
        <3>3. CASE n = 1
            BY <3>2, <3>3 DEF Entry
        <3>4. CASE n = 2
            BY <3>2, <3>4 DEF Entry
        <3>5. CASE n = 3
            BY <3>2, <3>5 DEF Entry
        <3> QED BY <3>1, <3>3, <3>4, <3>5
    <2> QED BY <2>1, <2>2
<1>10. ASSUME NEW c \in CallIds'
       PROVE  /\ calls'[c].entry = "validate" => 1 \in DOMAIN ks /\ ks[1] = c
              /\ calls'[c].entry = "execute" => 2 \in DOMAIN ks /\ ks[2] = c
    <2>1. CASE c = id
        BY <1>3, <1>9, <2>1
    <2>2. CASE c # id
        <3>1. c \in CallIds /\ calls'[c].entry = calls[c].entry
            BY <1>3, <2>2
        <3>2. /\ calls[c].entry = "validate" => 1 \in DOMAIN kids /\ kids[1] = c
              /\ calls[c].entry = "execute" => 2 \in DOMAIN kids /\ kids[2] = c
            BY <1>1, <3>1 DEF EntryInv
        <3> QED BY <1>7, <3>1, <3>2
    <2> QED BY <2>1, <2>2
<1> QED BY <1>6, <1>10 DEF EntryInv, Root

LEMMA SameOrder ==
    ASSUME PathInv, OrderInv, EntryInv, UNCHANGED <<calls, open>>
    PROVE  PathInv' /\ OrderInv' /\ EntryInv'
<1>1. PathInv'
    BY DEF PathInv, Path, CallIds
<1>2. OrderInv'
    BY DEF OrderInv, Path, CallIds
<1>3. EntryInv'
    BY DEF EntryInv, CallIds
<1> QED BY <1>1, <1>2, <1>3

LEMMA LeaveOrder ==
    ASSUME WalkInv, PathInv, OrderInv, EntryInv, LeaveCall
    PROVE  PathInv' /\ OrderInv' /\ EntryInv'
<1>1. UNCHANGED calls
    BY DEF LeaveCall
<1>2. OrderInv' /\ EntryInv'
    BY <1>1 DEF OrderInv, EntryInv, Path, CallIds
<1>3. CASE UNCHANGED open
    BY <1>1, <1>3, SameOrder
<1>4. CASE Len(open) > 1 /\ open' = SubSeq(open, 1, Len(open) - 1)
    <2>1. PICK n : n = Len(open) - 1
        OBVIOUS
    <2>2. n \in Nat /\ DOMAIN open = 1..n + 1
        BY <1>4, <2>1, CallsAre
    <2>3. \A k \in 1..n : k \in DOMAIN open
        BY <2>2
    <2>4. PICK S : open \in Seq(S)
        BY DEF WalkInv, WalkTypeOK
    <2>5. DOMAIN open' = 1..n /\ \A k \in 1..n : open'[k] = open[k]
        <3>1. \A k \in 1..n : open[k] \in S
            BY <2>3, <2>4, ElementOfSeq, LenProperties
        <3>2. /\ SubSeq(open, 1, n) \in Seq(S)
              /\ Len(SubSeq(open, 1, n)) = IF 1 <= n THEN n - 1 + 1 ELSE 0
              /\ \A k \in 1..n - 1 + 1 : SubSeq(open, 1, n)[k] = open[1 + k - 1]
            BY <2>2, <3>1, SubSeqProperties
        <3>3. Len(SubSeq(open, 1, n)) = n
            BY <2>2, <3>2
        <3>4. \A k \in 1..n : SubSeq(open, 1, n)[k] = open[k]
            <4> TAKE k \in 1..n
            <4>1. k \in 1..n - 1 + 1 /\ 1 + k - 1 = k
                BY <2>2
            <4> QED BY <3>2, <4>1
        <3> QED BY <1>4, <2>1, <3>2, <3>3, <3>4, LenProperties
    <2>6. ASSUME NEW k \in 1..n PROVE {open'[j].call : j \in 1..k} = {open[j].call : j \in 1..k}
        BY <2>2, <2>5
    <2>7. CallIds' = CallIds /\ Path' = Path
        BY <1>1 DEF CallIds, Path
    <2>8. PathInv'
        <3>1. ASSUME NEW k \in DOMAIN open'
              PROVE  /\ Path[open'[k].call] = {open'[j].call : j \in 1..k}
                     /\ \A e \in CallIds : open'[k].call <= e => open'[k].call \in Path[e]
            BY <2>3, <2>5, <2>6 DEF PathInv
        <3> QED BY <2>7, <3>1 DEF PathInv
    <2> QED BY <1>2, <2>8
<1> QED BY <1>2, <1>3, <1>4 DEF LeaveCall

OrdersInv == PathInv /\ OrderInv /\ EntryInv

LEMMA StepOrder ==
    ASSUME WalkInv, OrdersInv, [Next]_vars
    PROVE  OrdersInv'
<1>1. CASE Walk
    BY <1>1, EnterOrder, EnterEntries, LeaveOrder, SameOrder DEF Walk, EmitEvent, OrdersInv
<1>2. CASE UNCHANGED walk
    <2>1. UNCHANGED <<calls, open>>
        BY <1>2 DEF walk
    <2> QED BY <2>1, SameOrder DEF OrdersInv
<1>3. Walk \/ UNCHANGED walk
    BY DEF Next, vars, Build, Begin, MapCall, MapBroken, Crash, Report, Merge, MergeLocation,
           MergeCall, MergeNoTrace, Kept, Inherit, Point
<1> QED BY <1>1, <1>2, <1>3

\* Calls are numbered in the order in which they were made, those below a call
\* directly after it.
THEOREM OrdersInvCorrect == Spec => []OrdersInv
<1>1. Init => OrdersInv
    BY InitOrder DEF Init, OrdersInv
<1>2. WalkInv /\ OrdersInv /\ [Next]_vars => OrdersInv'
    BY StepOrder
<1> QED BY <1>1, <1>2, WalkInvCorrect, PTL DEF Spec

-----------------------------------------------------------------------------
(* Between a call and one above it *)

LEMMA ParentIs ==
    ASSUME WalkInv, NEW c \in CallIds
    PROVE  /\ c \in Path[c] /\ c \in Nat /\ Path[Root] = {Root}
           /\ c # Root => /\ calls[c].parent \in CallIds /\ calls[c].parent < c
                          /\ Path[c] = {c} \cup Path[calls[c].parent]
           /\ \A d \in Path[c] : d \in CallIds /\ d <= c
<1>1. /\ Path[0] = {}
      /\ \A e \in CallIds : Path[e] = {e} \cup Path[calls[e].parent]
      /\ \A d \in Path[c] : d \in CallIds /\ d <= c
    BY CallPaths
<1>2. CallIds = 1..Len(calls) /\ Len(calls) \in Nat /\ Root \in CallIds
    BY CallsAre
<1>3. calls[Root].parent = 0
    BY DEF WalkInv, RootIs
<1>4. c # Root => calls[c].parent \in 1..c - 1
    BY DEF WalkInv, WalkTypeOK
<1>5. c # Root => calls[c].parent \in CallIds /\ calls[c].parent < c
    BY <1>2, <1>4 DEF Root
<1> QED BY <1>1, <1>2, <1>3, <1>5

LEMMA AbovePath ==
    ASSUME WalkInv, NEW c \in CallIds
    PROVE  /\ Root \in Path[c]
           /\ \A d \in Path[c] : Path[d] \subseteq Path[c]
           /\ \A d \in Path[c] \ {c} : \E k \in Path[c] : k # Root /\ calls[k].parent = d
<1> DEFINE Leads(e) == /\ Root \in Path[e]
                       /\ \A d \in Path[e] : Path[d] \subseteq Path[e]
                       /\ \A d \in Path[e] \ {e} : \E k \in Path[e] : k # Root /\ calls[k].parent = d
           T == {e \in CallIds : ~Leads(e)}
<1> SUFFICES ASSUME T # {} PROVE FALSE
    OBVIOUS
<1>1. PICK e \in T : \A m \in T : e <= m
    <2>1. T \subseteq Nat
        BY CallsAre
    <2> HIDE DEF T
    <2> QED BY <2>1, Least
<1>2. e \in CallIds /\ ~Leads(e)
    OBVIOUS
<1>3. CASE e = Root
    BY <1>2, <1>3, ParentIs
<1>4. CASE e # Root
    <2>1. PICK p : p = calls[e].parent
        OBVIOUS
    <2>2. p \in CallIds /\ p < e /\ Path[e] = {e} \cup Path[p] /\ e \in Nat /\ p \in Nat /\ p \in Path[p]
        BY <1>2, <1>4, <2>1, ParentIs
    <2>3. Leads(p)
        BY <1>1, <2>2
    <2>4. Root \in Path[e]
        BY <2>2, <2>3
    <2>5. \A d \in Path[e] : Path[d] \subseteq Path[e]
        BY <2>2, <2>3
    <2>6. ASSUME NEW d \in Path[e] \ {e}
          PROVE  \E k \in Path[e] : k # Root /\ calls[k].parent = d
        <3>1. CASE d = p
            BY <1>4, <2>1, <2>2, <3>1
        <3>2. CASE d # p
            <4>1. d \in Path[p] \ {p}
                BY <2>2, <3>2
            <4> QED BY <2>2, <2>3, <4>1
        <3> QED BY <3>1, <3>2
    <2> QED BY <1>2, <2>4, <2>5, <2>6
<1> QED BY <1>3, <1>4

-----------------------------------------------------------------------------
(* The types of the debugger's variables *)

LEMMA InitDebug == Init => DebugInv
BY EmptySeq DEF Init, WalkInit, DebugInv

LEMMA HasTraceIs ==
    ASSUME WalkInv, BuildInv, DebugInv, pc = "merge", NEW c \in CallIds
    PROVE  /\ c \in DOMAIN functions =>
                 /\ shape[c] \in Shapes /\ functions[c].linked \in 0..Len(calls[c].kids)
           /\ c \in DOMAIN functions => TraceOf(c) \in Seq(Step)
<1> SUFFICES ASSUME c \in DOMAIN functions
             PROVE  /\ shape[c] \in Shapes /\ functions[c].linked \in 0..Len(calls[c].kids)
                    /\ TraceOf(c) \in Seq(Step)
    OBVIOUS
<1>1. shape[c] \in Shapes
    BY DEF DebugInv
<1>2. functions[c].linked \in 0..Len(calls[c].kids)
    BY DEF BuildInv, BuildTypeOK
<1>3. TraceOf(c) \in Seq(Step)
    BY <1>1, <1>2, TraceIs
<1> QED BY <1>1, <1>2, <1>3

LEMMA SameDebug ==
    ASSUME DebugInv, UNCHANGED <<calls, debug>>, pc \in {"merge", "point"} => FALSE,
           pc' \in {"ready", "build", "done"}, pc' # "done" => pc # "done"
    PROVE  DebugInv'
<1>1. Step' = Step /\ CallIds' = CallIds
    BY DEF Step, CallIds
<1> QED BY <1>1 DEF DebugInv, debug

LEMMA WalkDebug ==
    ASSUME WalkInv, DebugInv, Walk, UNCHANGED debug
    PROVE  DebugInv'
<1>1. pc = "walk" /\ pc' \in {"walk", "ready"}
    BY DEF Walk, EnterCall, EmitEvent, LeaveCall
<1>2. work = <<>> /\ trace = <<>>
    BY <1>1 DEF DebugInv
<1>3. CallIds \subseteq CallIds'
    <2>1. CASE UNCHANGED calls
        BY <2>1 DEF CallIds
    <2>2. CASE \E contract \in Contracts, entry \in {"validate", "execute", "other"}, failed \in BOOLEAN :
                  EnterCall(contract, entry, failed)
        <3>1. PICK id : id = Len(calls) + 1
            OBVIOUS
        <3>2. CallIds' = 1..id
            BY <2>2, <3>1, EnterCalls
        <3>3. CallIds = 1..Len(calls) /\ Len(calls) \in Nat
            BY CallsAre
        <3> QED BY <3>1, <3>2, <3>3
    <2> QED BY <2>1, <2>2 DEF Walk, EmitEvent, LeaveCall
<1>4. work' = <<>> /\ trace' = <<>> /\ UNCHANGED <<callStep, functionStep>>
    BY <1>2 DEF debug
<1>5. work' \in Seq(Step') /\ trace' \in Seq(Step')
    BY <1>4, EmptySeq
<1>6. DOMAIN callStep \subseteq CallIds /\ DOMAIN functionStep \subseteq CallIds \X Parts
    BY DEF DebugInv
<1>7. DOMAIN callStep' \subseteq CallIds' /\ DOMAIN functionStep' \subseteq CallIds' \X Parts
    BY <1>3, <1>4, <1>6
<1> QED BY <1>1, <1>4, <1>5, <1>7 DEF DebugInv

LEMMA FirstIs ==
    ASSUME DebugInv, Merging
    PROVE  /\ work[1] \in Step /\ Tail(work) \in Seq(Step) /\ Len(work) \in Nat \ {0}
           /\ Len(Tail(work)) = Len(work) - 1
           /\ \A i \in 1..Len(Tail(work)) : Tail(work)[i] = work[i + 1]
           /\ work \in Seq(Step) /\ trace \in Seq(Step)
<1>1. work \in Seq(Step) /\ trace \in Seq(Step) /\ work # <<>>
    BY DEF DebugInv, Merging
<1>2. Len(work) \in Nat \ {0}
    BY <1>1, EmptySeq
<1>3. work[1] \in Step
    BY <1>1, <1>2, ElementOfSeq
<1>4. /\ Tail(work) \in Seq(Step) /\ Len(Tail(work)) = Len(work) - 1
      /\ \A i \in 1..Len(Tail(work)) : Tail(work)[i] = work[i + 1]
    BY <1>1, HeadTailProperties
<1> QED BY <1>1, <1>2, <1>3, <1>4

LEMMA MergingDebug ==
    ASSUME WalkInv, BuildInv, DebugInv, MergeLocation \/ MergeCall \/ MergeNoTrace
    PROVE  DebugInv'
<1>1. Merging /\ UNCHANGED <<calls, pc, shape, functions>> /\ pc = "merge"
    BY DEF MergeLocation, MergeCall, MergeNoTrace, Kept, walk, built, Merging
<1>2. Step' = Step /\ CallIds' = CallIds
    BY <1>1 DEF Step, CallIds
<1>3. PICK s, rest : s = work[1] /\ rest = Tail(work)
    OBVIOUS
<1>4. s \in Step /\ rest \in Seq(Step) /\ work \in Seq(Step) /\ trace \in Seq(Step)
    BY <1>1, <1>3, FirstIs
<1>5. s.call \in CallIds /\ s.part \in Parts
    BY <1>4, StepIs
<1>6. Append(trace, s) \in Seq(Step)
    BY <1>4, AppendProperties
<1>7. trace' \in Seq(Step)
    BY <1>3, <1>4, <1>6 DEF MergeLocation, MergeCall, MergeNoTrace
<1>8. work' \in Seq(Step)
    <2>1. CASE MergeLocation
        BY <1>3, <1>4, <2>1 DEF MergeLocation
    <2>2. CASE MergeCall
        <3>1. TraceOf(s.call) \in Seq(Step)
            BY <1>1, <1>3, <1>5, <2>2, HasTraceIs DEF MergeCall, HasTrace
        <3>2. work' = TraceOf(s.call) \o rest
            BY <1>3, <2>2 DEF MergeCall
        <3> QED BY <1>4, <3>1, <3>2, ConcatProperties
    <2>3. CASE MergeNoTrace
        <3>1. Kids(s.call) \in Seq(Step)
            BY <1>5, KidsAre
        <3>2. work' = Kids(s.call) \o rest
            BY <1>3, <2>3 DEF MergeNoTrace, Instead
        <3> QED BY <1>4, <3>1, <3>2, ConcatProperties
    <2> QED BY <2>1, <2>2, <2>3
<1>9. DOMAIN callStep' \subseteq CallIds /\ DOMAIN functionStep' \subseteq CallIds \X Parts
    <2>1. DOMAIN callStep \subseteq CallIds /\ DOMAIN functionStep \subseteq CallIds \X Parts
        BY DEF DebugInv
    <2>2. CASE UNCHANGED <<callStep, functionStep>>
        BY <2>1, <2>2
    <2>3. CASE MergeLocation
        <3>1. /\ DOMAIN callStep' = DOMAIN callStep \cup {s.call}
              /\ DOMAIN functionStep' = DOMAIN functionStep \cup {<<s.call, s.part>>}
            BY <1>3, <2>3 DEF MergeLocation, Put
        <3> QED BY <1>5, <2>1, <3>1
    <2> QED BY <2>2, <2>3 DEF MergeCall, MergeNoTrace
<1>10. pc' = "merge" /\ shape' \in [DOMAIN functions' -> Shapes]
    BY <1>1 DEF DebugInv
<1> QED BY <1>2, <1>7, <1>8, <1>9, <1>10 DEF DebugInv

LEMMA MergeDebug ==
    ASSUME WalkInv, DebugInv, Merge
    PROVE  DebugInv'
<1>1. /\ pc = "build" /\ pc' = "merge" /\ UNCHANGED <<calls, functions, trace, callStep, functionStep>>
      /\ work' = <<Inner(Root)>> /\ shape' \in [DOMAIN functions -> Shapes]
    BY DEF Merge, walk, built
<1>2. Step' = Step /\ CallIds' = CallIds
    BY <1>1 DEF Step, CallIds
<1>3. Inner(Root) \in Step
    BY CallsAre DEF Inner, Step, Parts
<1>4. <<Inner(Root)>> \in Seq(Step)
    <2>1. PICK o : o = Inner(Root)
        OBVIOUS
    <2> HIDE DEF Step
    <2> QED BY <1>3, <2>1
<1> QED BY <1>1, <1>2, <1>4 DEF DebugInv

LEMMA LastDebug ==
    ASSUME DebugInv, Inherit \/ Point
    PROVE  DebugInv'
<1>1. UNCHANGED <<calls, functions, shape, work, trace>> /\ pc \in {"merge", "point"}
      /\ pc' \in {"point", "done"}
    BY DEF Inherit, Point, walk, built
<1>2. Step' = Step /\ CallIds' = CallIds
    BY <1>1 DEF Step, CallIds
<1>3. DOMAIN callStep \subseteq CallIds /\ DOMAIN functionStep \subseteq CallIds \X Parts
    BY DEF DebugInv
<1>4. DOMAIN callStep' \subseteq CallIds /\ DOMAIN functionStep' \subseteq CallIds \X Parts
    <2>1. CASE Inherit
        <3>1. UNCHANGED callStep /\ DOMAIN functionStep' \subseteq DOMAIN functionStep \cup ((DOMAIN callStep) \X Parts)
            BY <2>1 DEF Inherit
        <3> QED BY <1>3, <3>1
    <2>2. CASE Point
        BY <1>3, <2>2 DEF Point
    <2> QED BY <2>1, <2>2
<1>5. work' \in Seq(Step) /\ trace' \in Seq(Step) /\ shape' \in [DOMAIN functions' -> Shapes]
    BY <1>1 DEF DebugInv
<1> QED BY <1>1, <1>2, <1>4, <1>5 DEF DebugInv

LEMMA StepDebug ==
    ASSUME WalkInv, BuildInv, DebugInv, [Next]_vars
    PROVE  DebugInv'
<1>1. CASE Walk /\ UNCHANGED debug
    BY <1>1, WalkDebug
<1>2. CASE (Build \/ Crash \/ \E receipt \in BOOLEAN : Report(receipt)) /\ UNCHANGED debug
    <2>1. UNCHANGED calls /\ pc \in {"ready", "build"} /\ pc' \in {"build", "done"}
        BY <1>2 DEF Build, Begin, MapCall, MapBroken, Crash, Report, walk
    <2> QED BY <1>2, <2>1, SameDebug
<1>3. CASE Merge
    BY <1>3, MergeDebug
<1>4. CASE MergeLocation \/ MergeCall \/ MergeNoTrace
    BY <1>4, MergingDebug
<1>5. CASE Inherit \/ Point
    BY <1>5, LastDebug
<1>6. CASE UNCHANGED vars
    <2>1. Step' = Step /\ CallIds' = CallIds
        BY <1>6 DEF Step, CallIds, vars, walk
    <2> QED BY <1>6, <2>1 DEF DebugInv, vars, debug, built
<1> QED BY <1>1, <1>2, <1>3, <1>4, <1>5, <1>6 DEF Next

\* The debugger's variables have their types, whatever the shapes of traces.
THEOREM DebugInvCorrect == Spec => []DebugInv
<1>1. WalkInv /\ BuildInv /\ DebugInv /\ [Next]_vars => DebugInv'
    BY StepDebug
<1> QED BY InitDebug, WalkInvCorrect, BuildInvCorrect, <1>1, PTL DEF Spec

\* The tree of the calls, the flame chart and the trace have their types, and
\* the chart is the tree of the visible calls (contract_calls_map.rs,
\* debugger_trace.rs), for any contracts, classes and shapes of traces.
THEOREM TreeOKCorrect == Spec => []TreeOK
<1>1. WalkInv /\ BuildInv /\ DebugInv => TreeOK
    BY DEF TreeOK, WalkInv, BuildInv, DebugInv
<1> QED BY <1>1, WalkInvCorrect, BuildInvCorrect, DebugInvCorrect, PTL

-----------------------------------------------------------------------------
(* An element of a sequence is replaced by others: where they come from *)

IsNew(j, n, m) == n < j /\ j <= n + m
Was(j, n, m) == IF j <= n THEN j ELSE j - m + 1

\* Calls that have still to be merged stand behind the steps that have been.
IsOpen(s, n, i) == i > n /\ s[i].kind = "call"

LEMMA WasIs ==
    ASSUME NEW n \in Nat, NEW m \in Nat, NEW l \in Nat, n + 1 <= l, NEW q \in 0..m
    PROVE  /\ \A j \in 1..l + m - 1 :
                 ~IsNew(j, n, m) =>
                     /\ Was(j, n, m) \in 1..l /\ Was(j, n, m) # n + 1
                     /\ j > n + q <=> Was(j, n, m) > n
           /\ \A j \in 1..l + m - 1 :
                 IsNew(j, n, m) => j - n \in 1..m /\ (j > n + q <=> j - n > q)
           /\ \A i, j \in 1..l + m - 1 :
                 i < j => /\ ~IsNew(i, n, m) /\ ~IsNew(j, n, m) => Was(i, n, m) < Was(j, n, m)
                          /\ ~IsNew(i, n, m) /\ IsNew(j, n, m) => Was(i, n, m) < n + 1
                          /\ IsNew(i, n, m) /\ ~IsNew(j, n, m) => n + 1 < Was(j, n, m)
                          /\ IsNew(i, n, m) /\ IsNew(j, n, m) => i - n < j - n
           /\ \A i \in 1..l : i # n + 1 =>
                 \E j \in 1..l + m - 1 : ~IsNew(j, n, m) /\ Was(j, n, m) = i
           /\ \A i \in 1..m : \E j \in 1..l + m - 1 : IsNew(j, n, m) /\ j - n = i
<1>1. \A j \in 1..l + m - 1 : ~IsNew(j, n, m) =>
          /\ Was(j, n, m) \in 1..l /\ Was(j, n, m) # n + 1
          /\ j > n + q <=> Was(j, n, m) > n
    BY DEF IsNew, Was
<1>2. \A j \in 1..l + m - 1 : IsNew(j, n, m) => j - n \in 1..m /\ (j > n + q <=> j - n > q)
    BY DEF IsNew
<1>3. ASSUME NEW i \in 1..l + m - 1, NEW j \in 1..l + m - 1, i < j
      PROVE  /\ ~IsNew(i, n, m) /\ ~IsNew(j, n, m) => Was(i, n, m) < Was(j, n, m)
             /\ ~IsNew(i, n, m) /\ IsNew(j, n, m) => Was(i, n, m) < n + 1
             /\ IsNew(i, n, m) /\ ~IsNew(j, n, m) => n + 1 < Was(j, n, m)
             /\ IsNew(i, n, m) /\ IsNew(j, n, m) => i - n < j - n
    BY <1>3 DEF IsNew, Was
<1>4. ASSUME NEW i \in 1..l, i # n + 1
      PROVE  \E j \in 1..l + m - 1 : ~IsNew(j, n, m) /\ Was(j, n, m) = i
    <2>1. CASE i <= n
        <3>1. i \in 1..l + m - 1 /\ ~IsNew(i, n, m) /\ Was(i, n, m) = i
            BY <2>1 DEF IsNew, Was
        <3> QED BY <3>1
    <2>2. CASE ~(i <= n)
        <3>1. PICK j : j = i + m - 1
            OBVIOUS
        <3>2. j \in 1..l + m - 1 /\ ~IsNew(j, n, m) /\ Was(j, n, m) = i
            BY <1>4, <2>2, <3>1 DEF IsNew, Was
        <3> QED BY <3>2
    <2> QED BY <2>1, <2>2
<1>5. ASSUME NEW i \in 1..m PROVE \E j \in 1..l + m - 1 : IsNew(j, n, m) /\ j - n = i
    <2>1. PICK j : j = n + i
        OBVIOUS
    <2>2. j \in 1..l + m - 1 /\ IsNew(j, n, m) /\ j - n = i
        BY <2>1 DEF IsNew
    <2> QED BY <2>2
<1> QED BY <1>1, <1>2, <1>3, <1>4, <1>5

Joined(t, w) == t \o w
Replacing(t, w, x) == t \o (x \o Tail(w))

\* After t, w has followed; now x takes the place of the first of w.
LEMMA Spliced ==
    ASSUME NEW E, NEW t \in Seq(E), NEW w \in Seq(E), w # <<>>, NEW x \in Seq(E)
    PROVE  LET all == Joined(t, w)
               new == Replacing(t, w, x)
               n == Len(t)
               m == Len(x)
               l == Len(all)
           IN /\ all \in Seq(E) /\ new \in Seq(E)
              /\ n \in Nat /\ m \in Nat /\ l \in Nat /\ n + 1 <= l
              /\ DOMAIN all = 1..l /\ DOMAIN x = 1..m /\ DOMAIN new = 1..l + m - 1
              /\ all[n + 1] = w[1]
              /\ \A j \in DOMAIN new : ~IsNew(j, n, m) => new[j] = all[Was(j, n, m)]
              /\ \A j \in DOMAIN new : IsNew(j, n, m) => new[j] = x[j - n]
<1>p. PICK all, new, n, m, l : /\ all = Joined(t, w) /\ new = Replacing(t, w, x)
                               /\ n = Len(t) /\ m = Len(x) /\ l = Len(all)
    OBVIOUS
<1>0. /\ all = t \o w /\ new = t \o (x \o Tail(w))
      /\ n = Len(t) /\ m = Len(x) /\ l = Len(all)
    BY <1>p DEF Joined, Replacing
<1>1. n \in Nat /\ m \in Nat /\ DOMAIN x = 1..m
    BY <1>0, LenProperties
<1>2. PICK v, k : v = Tail(w) /\ k = Len(w)
    OBVIOUS
<1>3. k \in Nat \ {0}
    BY <1>2, EmptySeq
<1>4. v \in Seq(E) /\ Len(v) = k - 1 /\ \A i \in 1..k - 1 : v[i] = w[i + 1]
    BY <1>2, HeadTailProperties
<1>5. /\ all \in Seq(E) /\ Len(all) = n + k
      /\ \A i \in 1..n + k : all[i] = IF i <= n THEN t[i] ELSE w[i - n]
    <2>1. /\ t \o w \in Seq(E) /\ Len(t \o w) = Len(t) + Len(w)
          /\ \A i \in 1..Len(t) + Len(w) :
                (t \o w)[i] = IF i <= Len(t) THEN t[i] ELSE w[i - Len(t)]
        BY ConcatProperties
    <2> QED BY <1>0, <1>2, <2>1
<1>6. PICK xv : xv = x \o v
    OBVIOUS
<1>7. /\ xv \in Seq(E) /\ Len(xv) = m + (k - 1)
      /\ \A i \in 1..m + (k - 1) : xv[i] = IF i <= m THEN x[i] ELSE v[i - m]
    <2>1. /\ x \o v \in Seq(E) /\ Len(x \o v) = Len(x) + Len(v)
          /\ \A i \in 1..Len(x) + Len(v) :
                (x \o v)[i] = IF i <= Len(x) THEN x[i] ELSE v[i - Len(x)]
        BY <1>4, ConcatProperties
    <2> QED BY <1>0, <1>4, <1>6, <2>1
<1>8. /\ new \in Seq(E) /\ Len(new) = n + (m + (k - 1))
      /\ \A i \in 1..n + (m + (k - 1)) : new[i] = IF i <= n THEN t[i] ELSE xv[i - n]
    <2>1. /\ t \o xv \in Seq(E) /\ Len(t \o xv) = Len(t) + Len(xv)
          /\ \A i \in 1..Len(t) + Len(xv) :
                (t \o xv)[i] = IF i <= Len(t) THEN t[i] ELSE xv[i - Len(t)]
        BY <1>7, ConcatProperties
    <2>2. new = t \o xv
        BY <1>0, <1>2, <1>6
    <2> QED BY <1>0, <1>7, <2>1, <2>2
<1>9. l \in Nat /\ l = n + k /\ n + 1 <= l /\ DOMAIN all = 1..l
    BY <1>0, <1>1, <1>3, <1>5, LenProperties
<1>10. l + m - 1 = n + (m + (k - 1))
    BY <1>1, <1>3, <1>9
<1>11. DOMAIN new = 1..l + m - 1
    BY <1>8, <1>10, LenProperties
<1>12. all[n + 1] = w[1]
    <2>1. PICK i : i = n + 1
        OBVIOUS
    <2>2. i \in 1..n + k /\ ~(i <= n) /\ i - n = 1
        BY <1>1, <1>3, <2>1
    <2> QED BY <1>5, <2>1, <2>2
<1>13. ASSUME NEW j \in DOMAIN new, IsNew(j, n, m) PROVE new[j] = x[j - n]
    <2>1. PICK i : i = j - n
        OBVIOUS
    <2>2. j \in 1..n + (m + (k - 1)) /\ ~(j <= n) /\ i \in 1..m + (k - 1) /\ i <= m
        BY <1>1, <1>3, <1>10, <1>11, <1>13, <2>1 DEF IsNew
    <2> QED BY <1>7, <1>8, <2>1, <2>2
<1>14. ASSUME NEW j \in DOMAIN new, ~IsNew(j, n, m) PROVE new[j] = all[Was(j, n, m)]
    <2>0. j \in 1..n + (m + (k - 1))
        BY <1>10, <1>11
    <2>1. CASE j <= n
        <3>1. Was(j, n, m) = j /\ j \in 1..n + k
            BY <1>1, <1>3, <2>0, <2>1 DEF Was
        <3> QED BY <1>5, <1>8, <2>0, <2>1, <3>1
    <2>2. CASE ~(j <= n)
        <3>1. PICK i, h, p : i = j - n /\ h = i - m /\ p = Was(j, n, m)
            OBVIOUS
        <3>2. /\ i \in 1..m + (k - 1) /\ ~(i <= m) /\ h \in 1..k - 1
              /\ p \in 1..n + k /\ ~(p <= n) /\ p - n = h + 1
            <4>1. ~(j <= n + m) /\ p = j - m + 1 /\ j \in Nat /\ j <= n + (m + (k - 1))
                BY <1>1, <1>3, <1>14, <2>0, <2>2, <3>1 DEF IsNew, Was
            <4>2. i = j - n /\ h = j - n - m
                BY <3>1
            <4>6. n \in Nat /\ m \in Nat /\ k \in Nat /\ k # 0
                BY <1>1, <1>3
            <4>3. i \in Int /\ 1 <= i /\ i <= m + (k - 1) /\ ~(i <= m)
                BY <4>1, <4>2, <4>6
            <4>4. h \in 1..k - 1
                BY <4>1, <4>2, <4>6
            <4>5. p \in 1..n + k /\ ~(p <= n)
                BY <4>1, <4>2, <4>6
            <4>7. p - n = h + 1
                <5>1. (j - m + 1) - n = (j - n - m) + 1
                    BY <4>1, <4>6
                <5> QED BY <4>1, <4>2, <5>1
            <4> QED BY <4>3, <4>4, <4>5, <4>6, <4>7
        <3>3. new[j] = xv[i]
            BY <1>8, <2>0, <2>2, <3>1
        <3>4. xv[i] = v[h]
            BY <1>7, <3>1, <3>2
        <3>5. v[h] = w[h + 1]
            BY <1>4, <3>2
        <3>6. all[p] = w[p - n]
            BY <1>5, <3>2
        <3> QED BY <3>1, <3>2, <3>3, <3>4, <3>5, <3>6
    <2> QED BY <2>1, <2>2
<1> QED BY <1>p, <1>1, <1>5, <1>8, <1>9, <1>11, <1>12, <1>13, <1>14

-----------------------------------------------------------------------------
(* The merge *)

\* One conjunct of IsReached: the functions of the caller have linked the call.
Entered(d) ==
    HasTrace(calls[d].parent) =>
        \E i \in 1..functions[calls[d].parent].linked : calls[calls[d].parent].kids[i] = d

KidOf(k, d) == k \in CallIds /\ k # Root /\ calls[k].parent = d /\ Entered(k)

Before(r, s) ==
    \/ r.call < s.call
    \/ r.call = s.call /\ r.at < s.at
    \/ s.call \in Path[r.call] \ {r.call}

\* The steps that have been merged are steps of calls that are reached; for
\* each step that is missing there is a call that it will come from, and no
\* other call that is still to be merged, and no step, is of one below it.
Merged(all, n) ==
    /\ \A i, j \in DOMAIN all : i < j => Before(all[i], all[j])
    /\ \A i, j \in DOMAIN all :
          IsOpen(all, n, i) /\ i # j => all[i].call \notin Path[all[j].call]
    /\ \A i \in DOMAIN all :
          /\ IsReached(all[i].call)
          /\ IF IsOpen(all, n, i) THEN all[i] = Inner(all[i].call) ELSE all[i] \in Own(all[i].call)
    /\ \A c \in CallIds : \A s \in Own(c) : IsReached(c) =>
          \/ \E i \in DOMAIN all : all[i] = s /\ ~IsOpen(all, n, i)
          \/ \E i \in DOMAIN all : IsOpen(all, n, i) /\ all[i].call \in Path[c]

\* What a call is replaced by: its own steps, and the calls it has made.
InPlaceOf(d, x, q) ==
    /\ \A i, j \in DOMAIN x : i < j => Before(x[i], x[j])
    /\ \A i, j \in DOMAIN x :
          IsOpen(x, q, i) /\ IsOpen(x, q, j) /\ i # j => x[i].call # x[j].call
    /\ \A i \in DOMAIN x : IF IsOpen(x, q, i) THEN KidOf(x[i].call, d) /\ x[i] = Inner(x[i].call)
                           ELSE x[i].call = d /\ x[i] \in Own(d)
    /\ \A s \in Own(d) : \E i \in DOMAIN x : x[i] = s /\ ~IsOpen(x, q, i)
    /\ \A k \in CallIds : KidOf(k, d) => \E i \in DOMAIN x : x[i].call = k /\ IsOpen(x, q, i)

LEMMA KidIs ==
    ASSUME WalkInv, OrdersInv, NEW d \in CallIds, NEW k \in CallIds, KidOf(k, d)
    PROVE  /\ d \in Nat /\ k \in Nat /\ d < k
           /\ Path[k] = {k} \cup Path[d] /\ d \in Path[d] /\ k \notin Path[d] /\ d \in Path[k] \ {k}
           /\ IsReached(d) => IsReached(k)
           /\ \A z \in CallIds : d < z /\ d \notin Path[z] => k < z
           /\ \A z \in CallIds : k \in Path[z] => d \in Path[z]
<1>1. k # Root /\ calls[k].parent = d /\ Entered(k)
    BY DEF KidOf
<1>2. d \in Nat /\ k \in Nat /\ d < k /\ Path[k] = {k} \cup Path[d] /\ d \in Path[d]
    BY <1>1, ParentIs
<1>3. k \notin Path[d]
    BY <1>2, ParentIs
<1>4. IsReached(d) => IsReached(k)
    <2> SUFFICES ASSUME IsReached(d), NEW e \in Path[k] \ {Root} PROVE Entered(e)
        BY DEF IsReached, Entered
    <2> QED BY <1>1, <1>2 DEF IsReached, Entered
<1>5. ASSUME NEW z \in CallIds, d < z, d \notin Path[z] PROVE k < z
    <2>1. z \in Nat
        BY ParentIs
    <2>2. d \in Path[k]
        BY <1>2
    <2>3. d <= z /\ z <= k => d \in Path[z]
        BY <2>2 DEF OrdersInv, OrderInv
    <2> QED BY <1>2, <1>5, <2>1, <2>3
<1>6. ASSUME NEW z \in CallIds, k \in Path[z] PROVE d \in Path[z]
    BY <1>2, <1>6, AbovePath
<1> QED BY <1>2, <1>3, <1>4, <1>5, <1>6

LEMMA Replaced ==
    ASSUME WalkInv, OrdersInv, NEW t \in Seq(Step), NEW w \in Seq(Step), w # <<>>,
           w[1].kind = "call", NEW d, d = w[1].call,
           NEW x \in Seq(Step), NEW q \in 0..Len(x), InPlaceOf(d, x, q),
           Merged(t \o w, Len(t))
    PROVE  Merged(t \o (x \o Tail(w)), Len(t) + q)
<1> DEFINE all == Joined(t, w)
           new == Replacing(t, w, x)
           n == Len(t)
           m == Len(x)
           l == Len(all)
           b == n + q
<1>1. /\ Merged(all, n)
      /\ Merged(new, b) => Merged(t \o (x \o Tail(w)), Len(t) + q)
      /\ q \in 0..m /\ b = n + q
    BY DEF Joined, Replacing
<1>2. /\ all \in Seq(Step) /\ new \in Seq(Step)
      /\ n \in Nat /\ m \in Nat /\ l \in Nat /\ n + 1 <= l
      /\ DOMAIN all = 1..l /\ DOMAIN x = 1..m /\ DOMAIN new = 1..l + m - 1
      /\ all[n + 1] = w[1]
      /\ \A j \in DOMAIN new : ~IsNew(j, n, m) => new[j] = all[Was(j, n, m)]
      /\ \A j \in DOMAIN new : IsNew(j, n, m) => new[j] = x[j - n]
    <2> HIDE DEF Step
    <2>1. /\ all \in Seq(Step) /\ new \in Seq(Step)
          /\ n \in Nat /\ m \in Nat /\ l \in Nat /\ n + 1 <= l
        BY Spliced
    <2>2. DOMAIN all = 1..l /\ DOMAIN x = 1..m /\ DOMAIN new = 1..l + m - 1
        BY Spliced
    <2>3. all[n + 1] = w[1]
        BY Spliced
    <2>4. \A j \in DOMAIN new : ~IsNew(j, n, m) => new[j] = all[Was(j, n, m)]
        BY Spliced
    <2>5. \A j \in DOMAIN new : IsNew(j, n, m) => new[j] = x[j - n]
        BY Spliced
    <2> HIDE DEF all, new, n, m, l
    <2> QED BY <2>1, <2>2, <2>3, <2>4, <2>5
<1> HIDE DEF all, new, n, m, l, b
<1> DEFINE N(j) == IsNew(j, n, m)
           W(j) == Was(j, n, m)
           O(i) == IsOpen(all, n, i)
           X(j) == j - n
<1>3. /\ \A j \in DOMAIN new : ~N(j) => W(j) \in DOMAIN all /\ W(j) # n + 1 /\ (j > b <=> W(j) > n)
      /\ \A j \in DOMAIN new : N(j) => X(j) \in DOMAIN x /\ (j > b <=> X(j) > q)
      /\ \A i, j \in DOMAIN new :
            i < j => /\ ~N(i) /\ ~N(j) => W(i) < W(j)
                     /\ ~N(i) /\ N(j) => W(i) < n + 1
                     /\ N(i) /\ ~N(j) => n + 1 < W(j)
                     /\ N(i) /\ N(j) => X(i) < X(j)
      /\ \A i \in DOMAIN all : i # n + 1 => \E j \in DOMAIN new : ~N(j) /\ W(j) = i
      /\ \A i \in DOMAIN x : \E j \in DOMAIN new : N(j) /\ X(j) = i
    <2>1. q \in 0..m
        BY <1>1
    <2>2. /\ \A j \in 1..l + m - 1 :
                 ~IsNew(j, n, m) =>
                     /\ Was(j, n, m) \in 1..l /\ Was(j, n, m) # n + 1
                     /\ j > n + q <=> Was(j, n, m) > n
          /\ \A j \in 1..l + m - 1 :
                 IsNew(j, n, m) => j - n \in 1..m /\ (j > n + q <=> j - n > q)
          /\ \A i, j \in 1..l + m - 1 :
                 i < j => /\ ~IsNew(i, n, m) /\ ~IsNew(j, n, m) => Was(i, n, m) < Was(j, n, m)
                          /\ ~IsNew(i, n, m) /\ IsNew(j, n, m) => Was(i, n, m) < n + 1
                          /\ IsNew(i, n, m) /\ ~IsNew(j, n, m) => n + 1 < Was(j, n, m)
                          /\ IsNew(i, n, m) /\ IsNew(j, n, m) => i - n < j - n
          /\ \A i \in 1..l : i # n + 1 =>
                 \E j \in 1..l + m - 1 : ~IsNew(j, n, m) /\ Was(j, n, m) = i
          /\ \A i \in 1..m : \E j \in 1..l + m - 1 : IsNew(j, n, m) /\ j - n = i
        BY <1>2, <2>1, WasIs
    <2>3. n + q = b /\ 1..l = DOMAIN all /\ 1..m = DOMAIN x /\ 1..l + m - 1 = DOMAIN new
        BY <1>1, <1>2
    <2> QED BY <2>2, <2>3
<1>4. n + 1 \in DOMAIN all /\ n + 1 > n /\ DOMAIN new \subseteq Nat
    BY <1>2
<1>5. ASSUME NEW j \in DOMAIN new, ~N(j)
      PROVE  /\ W(j) \in DOMAIN all /\ W(j) # n + 1 /\ new[j] = all[W(j)]
             /\ IsOpen(new, b, j) <=> O(W(j))
    BY <1>2, <1>3, <1>5 DEF IsOpen
<1>6. ASSUME NEW j \in DOMAIN new, N(j)
      PROVE  /\ X(j) \in DOMAIN x /\ new[j] = x[X(j)]
             /\ IsOpen(new, b, j) <=> IsOpen(x, q, X(j))
    BY <1>2, <1>3, <1>6 DEF IsOpen
<1> HIDE DEF N, W, X
<1>7. O(n + 1) /\ all[n + 1].call = d
    BY <1>2, <1>4 DEF IsOpen
<1>8. /\ \A i \in DOMAIN all : all[i].call \in CallIds /\ all[i].at \in Nat
      /\ \A i \in DOMAIN x : x[i].call \in CallIds
    <2>1. /\ \A i \in DOMAIN all : all[i] \in Step
          /\ \A i \in DOMAIN x : x[i] \in Step
        <3> HIDE DEF Step
        <3> QED BY <1>1, <1>2, ElementOfSeq
    <2> QED BY <2>1 DEF Step
<1>9. Merged(all, n)
    BY <1>1
<1>10. d \in CallIds /\ IsReached(d) /\ all[n + 1] = Inner(d) /\ all[n + 1].at = 0
    BY <1>4, <1>7, <1>8, <1>9 DEF Merged, Inner
<1>11. CallIds \subseteq Nat /\ d \in Path[d]
    BY <1>10, ParentIs
<1>12. \A i \in DOMAIN all : i # n + 1 => d \notin Path[all[i].call]
    BY <1>4, <1>7, <1>9 DEF Merged
<1>13. \A i \in DOMAIN all : O(i) /\ i # n + 1 => all[i].call \notin Path[d]
    BY <1>4, <1>7, <1>9 DEF Merged
<1>14. ASSUME NEW i \in DOMAIN all, i < n + 1 PROVE all[i].call < d
    <2>1. Before(all[i], all[n + 1]) /\ i # n + 1
        <3>1. i # n + 1
            BY <1>2, <1>14
        <3> QED BY <1>4, <1>9, <1>14, <3>1 DEF Merged
    <2>2. d \notin Path[all[i].call] /\ all[i].call # d
        BY <1>11, <1>12, <2>1
    <2> QED BY <1>7, <2>1, <2>2 DEF Before
<1>15. ASSUME NEW i \in DOMAIN all, n + 1 < i
       PROVE  d < all[i].call \/ all[i].call \in Path[d] \ {d}
    <2>1. Before(all[n + 1], all[i]) /\ i # n + 1
        <3>1. i # n + 1
            BY <1>2, <1>15
        <3> QED BY <1>4, <1>9, <1>15, <3>1 DEF Merged
    <2>2. all[i].call # d
        BY <1>8, <1>11, <1>12, <2>1
    <2> QED BY <1>7, <2>1, <2>2 DEF Before
<1>16. ASSUME NEW i \in DOMAIN x
       PROVE  /\ IsOpen(x, q, i) => KidOf(x[i].call, d) /\ x[i] = Inner(x[i].call)
              /\ ~IsOpen(x, q, i) => x[i].call = d /\ x[i] \in Own(d)
    BY DEF InPlaceOf
<1>17. ASSUME NEW k \in CallIds, KidOf(k, d)
       PROVE  /\ k \in Nat /\ d < k /\ d \in Nat
              /\ Path[k] = {k} \cup Path[d] /\ k \notin Path[d] /\ d \in Path[k] \ {k}
              /\ IsReached(k)
              /\ \A z \in CallIds : d < z /\ d \notin Path[z] => k < z
              /\ \A z \in CallIds : k \in Path[z] => d \in Path[z]
    BY <1>10, <1>17, KidIs
<1>18. ASSUME NEW i \in DOMAIN new, NEW j \in DOMAIN new, i < j
       PROVE  Before(new[i], new[j])
    <2>1. CASE ~N(i) /\ ~N(j)
        BY <1>3, <1>5, <1>9, <1>18, <2>1 DEF Merged
    <2>2. CASE N(i) /\ N(j)
        BY <1>3, <1>6, <1>18, <2>2 DEF InPlaceOf
    <2>3. CASE ~N(i) /\ N(j)
        <3>1. PICK a \in DOMAIN all, y \in DOMAIN x : a = W(i) /\ y = X(j) /\ a < n + 1
            BY <1>3, <1>5, <1>6, <1>18, <2>3
        <3>2. new[i] = all[a] /\ new[j] = x[y]
            BY <1>5, <1>6, <2>3, <3>1
        <3>3. all[a].call < d /\ all[a].call \in Nat /\ d \in Nat
            BY <1>8, <1>10, <1>11, <1>14, <3>1
        <3>4. x[y].call = d \/ (d < x[y].call /\ x[y].call \in Nat)
            BY <1>8, <1>16, <1>17
        <3>5. all[a].call < x[y].call
            BY <3>3, <3>4
        <3> QED BY <3>2, <3>5 DEF Before
    <2>4. CASE N(i) /\ ~N(j)
        <3>1. PICK y \in DOMAIN x, a \in DOMAIN all : y = X(i) /\ a = W(j) /\ n + 1 < a /\ a # n + 1
            BY <1>3, <1>5, <1>6, <1>18, <2>4
        <3>2. new[i] = x[y] /\ new[j] = all[a]
            BY <1>5, <1>6, <2>4, <3>1
        <3>3. d < all[a].call \/ all[a].call \in Path[d] \ {d}
            BY <1>15, <3>1
        <3>4. CASE ~IsOpen(x, q, y)
            BY <1>16, <3>2, <3>3, <3>4 DEF Before
        <3>5. CASE IsOpen(x, q, y)
            <4>1. PICK k \in CallIds : k = x[y].call /\ KidOf(k, d)
                BY <1>8, <1>16, <3>5
            <4>2. CASE d < all[a].call
                <5>1. k < all[a].call
                    BY <1>8, <1>12, <1>17, <3>1, <4>1, <4>2
                <5> QED BY <3>2, <4>1, <5>1 DEF Before
            <4>3. CASE all[a].call \in Path[d] \ {d}
                <5>1. all[a].call \in Path[k] \ {k}
                    BY <1>17, <4>1, <4>3
                <5> QED BY <3>2, <4>1, <5>1 DEF Before
            <4> QED BY <3>3, <4>2, <4>3
        <3> QED BY <3>4, <3>5
    <2> QED BY <2>1, <2>2, <2>3, <2>4
<1>19. ASSUME NEW i \in DOMAIN new, NEW j \in DOMAIN new, IsOpen(new, b, i), i # j
       PROVE  new[i].call \notin Path[new[j].call]
    <2>1. CASE ~N(i) /\ ~N(j)
        <3>1. i < j \/ j < i
            BY <1>4, <1>19
        <3>2. W(i) # W(j)
            BY <1>2, <1>3, <1>5, <2>1, <3>1
        <3> QED BY <1>5, <1>9, <1>19, <2>1, <3>2 DEF Merged
    <2>2. CASE ~N(i) /\ N(j)
        <3>1. PICK a \in DOMAIN all, y \in DOMAIN x :
                 a = W(i) /\ y = X(j) /\ a # n + 1 /\ O(a) /\ new[i] = all[a] /\ new[j] = x[y]
            BY <1>5, <1>6, <1>19, <2>2
        <3>2. all[a].call \notin Path[d] /\ d \notin Path[all[a].call] /\ all[a].call \in CallIds
            BY <1>8, <1>12, <1>13, <3>1
        <3>3. CASE ~IsOpen(x, q, y)
            BY <1>16, <3>1, <3>2, <3>3
        <3>4. CASE IsOpen(x, q, y)
            <4>1. PICK k \in CallIds : k = x[y].call /\ KidOf(k, d)
                BY <1>8, <1>16, <3>4
            <4> QED BY <1>17, <3>1, <3>2, <4>1
        <3> QED BY <3>3, <3>4
    <2>3. CASE N(i)
        <3>1. PICK y \in DOMAIN x : y = X(i) /\ IsOpen(x, q, y) /\ new[i] = x[y]
            BY <1>6, <1>19, <2>3
        <3>2. PICK k \in CallIds : k = x[y].call /\ KidOf(k, d)
            BY <1>8, <1>16, <3>1
        <3>3. CASE ~N(j)
            <4>1. PICK a \in DOMAIN all : a = W(j) /\ a # n + 1 /\ new[j] = all[a]
                BY <1>5, <3>3
            <4> QED BY <1>8, <1>12, <1>17, <3>1, <3>2, <4>1
        <3>4. CASE N(j)
            <4>1. PICK z \in DOMAIN x : z = X(j) /\ new[j] = x[z]
                BY <1>6, <3>4
            <4>2. y # z
                <5>1. i < j \/ j < i
                    BY <1>4, <1>19
                <5>2. X(i) # X(j)
                    BY <1>2, <1>3, <1>6, <2>3, <3>4, <5>1
                <5> QED BY <3>1, <4>1, <5>2
            <4>3. CASE ~IsOpen(x, q, z)
                BY <1>16, <1>17, <3>1, <3>2, <4>1, <4>3
            <4>4. CASE IsOpen(x, q, z)
                <5>1. PICK h \in CallIds : h = x[z].call /\ KidOf(h, d)
                    BY <1>8, <1>16, <4>4
                <5>2. k # h
                    BY <3>1, <3>2, <4>2, <4>4, <5>1 DEF InPlaceOf
                <5> QED BY <1>17, <3>1, <3>2, <4>1, <5>1, <5>2
            <4> QED BY <4>3, <4>4
        <3> QED BY <3>3, <3>4
    <2> QED BY <2>1, <2>2, <2>3
<1>20. ASSUME NEW i \in DOMAIN new
       PROVE  /\ IsReached(new[i].call)
              /\ IF IsOpen(new, b, i) THEN new[i] = Inner(new[i].call) ELSE new[i] \in Own(new[i].call)
    <2>1. CASE ~N(i)
        BY <1>5, <1>9, <2>1 DEF Merged
    <2>2. CASE N(i)
        <3>1. PICK y \in DOMAIN x : y = X(i) /\ new[i] = x[y] /\ (IsOpen(new, b, i) <=> IsOpen(x, q, y))
            BY <1>6, <2>2
        <3>2. CASE ~IsOpen(x, q, y)
            BY <1>10, <1>16, <3>1, <3>2
        <3>3. CASE IsOpen(x, q, y)
            BY <1>8, <1>16, <1>17, <3>1, <3>3
        <3> QED BY <3>2, <3>3
    <2> QED BY <2>1, <2>2
<1>21. \A i \in DOMAIN all : i # n + 1 =>
           \E j \in DOMAIN new : new[j] = all[i] /\ (IsOpen(new, b, j) <=> O(i))
    BY <1>3, <1>5
<1>22. \A i \in DOMAIN x : \E j \in DOMAIN new : new[j] = x[i] /\ (IsOpen(new, b, j) <=> IsOpen(x, q, i))
    BY <1>3, <1>6
<1>23. ASSUME NEW c \in CallIds, NEW s \in Own(c), IsReached(c)
       PROVE  \/ \E i \in DOMAIN new : new[i] = s /\ ~IsOpen(new, b, i)
              \/ \E i \in DOMAIN new : IsOpen(new, b, i) /\ new[i].call \in Path[c]
    <2>1. \/ \E i \in DOMAIN all : all[i] = s /\ ~O(i)
          \/ \E i \in DOMAIN all : O(i) /\ all[i].call \in Path[c]
        BY <1>9, <1>23 DEF Merged
    <2>2. CASE \E i \in DOMAIN all : all[i] = s /\ ~O(i)
        <3>1. PICK i \in DOMAIN all : all[i] = s /\ ~O(i) /\ i # n + 1
            BY <1>7, <2>2
        <3> QED BY <1>21, <3>1
    <2>3. CASE \E i \in DOMAIN all : i # n + 1 /\ O(i) /\ all[i].call \in Path[c]
        BY <1>21, <2>3
    <2>4. CASE d \in Path[c] /\ c = d
        <3>1. PICK i \in DOMAIN x : x[i] = s /\ ~IsOpen(x, q, i)
            BY <2>4 DEF InPlaceOf
        <3> QED BY <1>22, <3>1
    <2>5. CASE d \in Path[c] /\ c # d
        <3>1. PICK k \in Path[c] : k # Root /\ calls[k].parent = d
            BY <2>5, AbovePath
        <3>2. KidOf(k, d) /\ k \in CallIds
            <4>1. k \in CallIds
                BY ParentIs
            <4> QED BY <1>23, <3>1, <4>1 DEF KidOf, Entered, IsReached
        <3>3. PICK i \in DOMAIN x : x[i].call = k /\ IsOpen(x, q, i)
            BY <3>2 DEF InPlaceOf
        <3> QED BY <1>22, <3>3
    <2> QED BY <1>7, <2>1, <2>2, <2>3, <2>4, <2>5
<1>24. Merged(new, b)
    BY <1>18, <1>19, <1>20, <1>23 DEF Merged
<1> QED BY <1>1, <1>24

LEMMA KidsOf ==
    ASSUME WalkInv, NEW d \in CallIds
    PROVE  LET kids == calls[d].kids
           IN /\ Len(kids) \in Nat /\ DOMAIN kids = 1..Len(kids)
              /\ \A i \in 1..Len(kids) :
                    kids[i] \in CallIds /\ kids[i] # Root /\ calls[kids[i]].parent = d
              /\ \A i, j \in 1..Len(kids) : i < j => kids[i] < kids[j]
              /\ \A k \in CallIds : calls[k].parent = d => \E i \in 1..Len(kids) : kids[i] = k
<1> DEFINE kids == calls[d].kids
<1>1. kids \in Seq(Nat)
    BY CallsAre DEF Call
<1>2. Len(kids) \in Nat /\ DOMAIN kids = 1..Len(kids)
    BY <1>1, LenProperties
<1>3. /\ \A i, j \in DOMAIN kids : i < j => kids[i] < kids[j]
      /\ {kids[i] : i \in DOMAIN kids} = {k \in CallIds : calls[k].parent = d}
    BY DEF WalkInv, WalkTypeOK
<1>4. calls[Root].parent = 0 /\ 0 \notin CallIds
    BY CallsAre DEF WalkInv, RootIs
<1>5. \A k \in CallIds : calls[k].parent = d => k # Root
    BY <1>4
<1>6. \A i \in DOMAIN kids : kids[i] \in CallIds /\ calls[kids[i]].parent = d
    BY <1>3
<1>7. \A k \in CallIds : calls[k].parent = d => \E i \in DOMAIN kids : kids[i] = k
    BY <1>3
<1> QED BY <1>2, <1>3, <1>5, <1>6, <1>7

LEMMA InnerIs ==
    \A c : Inner(c).kind = "call" /\ Inner(c).call = c /\ Inner(c).at = 0
BY DEF Inner

\* With a trace, a call is replaced by its locations and by the calls that its
\* functions have linked.
LEMMA TraceInPlace ==
    ASSUME WalkInv, BuildInv, DebugInv, OrdersInv, pc = "merge", NEW d \in CallIds, HasTrace(d)
    PROVE  TraceOf(d) \in Seq(Step) /\ InPlaceOf(d, TraceOf(d), 0)
<1> DEFINE s == shape[d]
           n == functions[d].linked
           l == Len(s.lead)
           x == TraceOf(d)
           kids == calls[d].kids
<1>1. /\ s = shape[d] /\ n = functions[d].linked
      /\ x = TraceOf(d) /\ kids = calls[d].kids
    OBVIOUS
<1>2. d \in DOMAIN functions /\ s \in Shapes /\ n \in 0..Len(kids)
    <2>1. d \in DOMAIN functions
        BY DEF HasTrace
    <2> QED BY <2>1, HasTraceIs
<1>3. /\ x \in Seq(Step) /\ l \in Nat /\ Len(x) \in Nat /\ DOMAIN x = 1..Len(x)
      /\ s.back => Len(x) = l + n + 1
      /\ ~s.back => Len(x) = l + n
      /\ \A i \in 1..l : x[i] = Location(d, s.lead[i], i)
      /\ \A i \in 1..n : x[l + i] = Inner(kids[i])
      /\ s.back => x[l + n + 1] = Location(d, "body", l + 1)
    BY <1>2, TraceIs
<1>4. /\ Len(kids) \in Nat
      /\ \A i \in 1..Len(kids) : kids[i] \in CallIds /\ kids[i] # Root /\ calls[kids[i]].parent = d
      /\ \A i, j \in 1..Len(kids) : i < j => kids[i] < kids[j]
      /\ \A k \in CallIds : calls[k].parent = d => \E i \in 1..Len(kids) : kids[i] = k
    BY KidsOf
<1> HIDE DEF s, n, l, x, kids
<1>5. n \in Nat /\ \A i \in 1..n : i \in 1..Len(kids)
    <2>1. PICK k : k = Len(kids)
        OBVIOUS
    <2>2. n \in 0..k /\ k \in Nat
        BY <1>2, <1>4, <2>1
    <2>3. n \in Nat /\ \A i \in 1..n : i \in 1..k
        BY <2>2
    <2> QED BY <2>1, <2>3
<1>23. PICK z : z = Len(x) /\ z \in Nat /\ DOMAIN x = 1..z
    BY <1>3
<1>6. \A i \in 1..l : x[i].kind = "location" /\ x[i].call = d /\ x[i].at = i
    <2>1. \A i \in 1..l : x[i] = Location(d, s.lead[i], i)
        BY <1>3
    <2> TAKE i \in 1..l
    <2>2. PICK p : p = s.lead[i]
        OBVIOUS
    <2>3. x[i] = Location(d, p, i)
        BY <2>1, <2>2
    <2> QED BY <2>3 DEF Location
<1>7. \A i \in 1..n : x[l + i].kind = "call" /\ x[l + i] = Inner(kids[i]) /\ x[l + i].call = kids[i]
    BY <1>3, InnerIs
<1>8. s.back => x[l + n + 1].kind = "location" /\ x[l + n + 1].call = d /\ x[l + n + 1].at = l + 1
    BY <1>3 DEF Location
<1>9. z \in {l + n, l + n + 1} /\ (z = l + n + 1 => s.back)
    <2>1. CASE s.back
        BY <1>3, <1>23, <2>1
    <2>2. CASE ~s.back
        <3>1. z = l + n
            BY <1>3, <1>23, <2>2
        <3>3. l \in Nat
            BY <1>3
        <3>2. l + n # l + n + 1
            BY <1>5, <3>3
        <3> QED BY <3>1, <3>2
    <2> QED BY <2>1, <2>2
<1>24. l \in Nat
    BY <1>3
<1> DEFINE First(i) == i \in 1..l
           Mid(i) == i - l \in 1..n /\ i \in Nat
           Last(i) == i = l + n + 1 /\ s.back
<1>10. \A i \in DOMAIN x : First(i) \/ Mid(i) \/ Last(i)
    <2> SUFFICES ASSUME NEW i \in 1..z PROVE First(i) \/ Mid(i) \/ Last(i)
        BY <1>23
    <2>3. z = l + n \/ z = l + n + 1
        BY <1>9
    <2>1. CASE i = l + n + 1
        <3>1. z = l + n + 1
            BY <1>5, <1>23, <1>24, <2>1, <2>3
        <3> QED BY <1>9, <2>1, <3>1
    <2>2. CASE i # l + n + 1
        <3>1. i \in Nat /\ 1 <= i /\ i <= l + n
            BY <1>5, <1>23, <1>24, <2>2, <2>3
        <3>2. i \in 1..l \/ i - l \in 1..n
            BY <1>5, <1>24, <3>1
        <3> QED BY <3>1, <3>2
    <2> QED BY <2>1, <2>2
<1>11. \A i : Mid(i) => x[i].kind = "call" /\ x[i] = Inner(kids[i - l]) /\ x[i].call = kids[i - l]
    <2> SUFFICES ASSUME NEW i, Mid(i)
                 PROVE  x[i].kind = "call" /\ x[i] = Inner(kids[i - l]) /\ x[i].call = kids[i - l]
        OBVIOUS
    <2>1. PICK j \in 1..n : j = i - l
        OBVIOUS
    <2>2. l + j = i
        BY <1>3, <2>1
    <2> QED BY <1>7, <2>1, <2>2
<1>12. \A i \in 1..n : KidOf(kids[i], d) /\ kids[i] \in CallIds
    <2> TAKE i \in 1..n
    <2>1. kids[i] \in CallIds /\ kids[i] # Root /\ calls[kids[i]].parent = d
        BY <1>4, <1>5
    <2> QED BY <1>1, <2>1 DEF KidOf, Entered
<1>13. ASSUME NEW k \in CallIds, KidOf(k, d)
       PROVE  /\ k \in Nat /\ d < k /\ d \in Nat /\ d \in Path[k] \ {k}
              /\ \E i \in 1..n : kids[i] = k
    <2>1. k \in Nat /\ d < k /\ d \in Nat /\ d \in Path[k] \ {k}
        BY <1>13, KidIs
    <2>2. \E i \in 1..n : kids[i] = k
        BY <1>1, <1>13 DEF KidOf, Entered
    <2> QED BY <2>1, <2>2
<1>14. \A i \in DOMAIN x : IsOpen(x, 0, i) <=> x[i].kind = "call"
    BY <1>3 DEF IsOpen
<1>15. \A i \in DOMAIN x : First(i) \/ Last(i) => x[i].kind = "location" /\ x[i].call = d
    BY <1>6, <1>8
<1>16. \A i \in DOMAIN x : IsOpen(x, 0, i) => Mid(i)
    BY <1>10, <1>14, <1>15
<1> HIDE DEF First, Mid, Last
<1>17. ASSUME NEW i \in DOMAIN x, NEW j \in DOMAIN x, i < j PROVE Before(x[i], x[j])
    <2>1. CASE First(i) /\ First(j)
        BY <1>6, <1>17, <2>1 DEF Before, First
    <2>2. CASE ~Mid(i) /\ Mid(j)
        <3>1. x[i].call = d
            BY <1>10, <1>15, <2>2
        <3>2. PICK h \in 1..n : h = j - l
            BY <2>2 DEF Mid
        <3>3. x[j].call = kids[h]
            BY <1>11, <2>2, <3>2
        <3>4. d < kids[h]
            BY <1>12, <1>13
        <3> QED BY <3>1, <3>3, <3>4 DEF Before
    <2>3. CASE First(i) /\ Last(j)
        <3>1. x[i].call = d /\ x[i].at = i /\ i <= l /\ i \in Nat
            BY <1>3, <1>6, <2>3 DEF First
        <3>2. x[j].call = d /\ x[j].at = l + 1
            BY <1>8, <2>3 DEF Last
        <3>3. i < l + 1
            BY <1>3, <3>1
        <3> QED BY <3>1, <3>2, <3>3 DEF Before
    <2>4. CASE Mid(i) /\ Mid(j)
        <3>1. PICK g \in 1..n, h \in 1..n : g = i - l /\ h = j - l /\ i \in Nat /\ j \in Nat
            BY <2>4 DEF Mid
        <3>2. g < h
            BY <1>3, <1>17, <3>1
        <3>3. kids[g] < kids[h]
            BY <1>4, <1>5, <3>2
        <3>4. x[i].call = kids[g] /\ x[j].call = kids[h]
            BY <1>11, <2>4, <3>1
        <3> QED BY <3>3, <3>4 DEF Before
    <2>5. CASE Mid(i) /\ ~Mid(j)
        <3>1. x[j].call = d
            BY <1>10, <1>15, <2>5
        <3>2. PICK h \in 1..n : h = i - l
            BY <2>5 DEF Mid
        <3>3. x[i].call = kids[h]
            BY <1>11, <2>5, <3>2
        <3>4. d \in Path[kids[h]] \ {kids[h]}
            BY <1>12, <1>13
        <3> QED BY <3>1, <3>3, <3>4 DEF Before
    <2>6. ~(Last(i) /\ First(j)) /\ ~(Last(i) /\ Last(j))
        <3>1. \A p, r : Last(p) /\ (First(r) \/ Last(r)) => ~(p < r)
            <4>1. \A r \in 1..l : ~(l + n + 1 < r)
                BY <1>5, <1>24
            <4>2. ~(l + n + 1 < l + n + 1)
                BY <1>5, <1>24
            <4> QED BY <4>1, <4>2 DEF First, Last
        <3> QED BY <1>17, <3>1
    <2> QED BY <1>10, <2>1, <2>2, <2>3, <2>4, <2>5, <2>6
<1>18. ASSUME NEW i \in DOMAIN x, NEW j \in DOMAIN x, IsOpen(x, 0, i), IsOpen(x, 0, j), i # j
       PROVE  x[i].call # x[j].call
    <2>1. PICK g \in 1..n, h \in 1..n : g = i - l /\ h = j - l /\ i \in Nat /\ j \in Nat
        BY <1>16, <1>18 DEF Mid
    <2>2. g < h \/ h < g
        BY <1>3, <1>18, <2>1
    <2>3. kids[g] \in Nat /\ kids[h] \in Nat /\ (kids[g] < kids[h] \/ kids[h] < kids[g])
        BY <1>4, <1>5, <1>12, <1>13, <2>2
    <2>4. x[i].call = kids[g] /\ x[j].call = kids[h]
        BY <1>11, <1>16, <1>18, <2>1
    <2> QED BY <2>3, <2>4
<1>19. ASSUME NEW i \in DOMAIN x
       PROVE  IF IsOpen(x, 0, i) THEN KidOf(x[i].call, d) /\ x[i] = Inner(x[i].call)
              ELSE x[i].call = d /\ x[i] \in Own(d)
    <2>1. CASE Mid(i)
        <3>1. PICK h \in 1..n : h = i - l
            BY <2>1 DEF Mid
        <3>2. x[i].kind = "call" /\ x[i] = Inner(kids[h]) /\ x[i].call = kids[h]
            BY <1>11, <2>1, <3>1
        <3> QED BY <1>12, <1>14, <3>2
    <2>2. CASE ~Mid(i)
        <3>1. x[i].kind = "location" /\ x[i].call = d
            BY <1>10, <1>15, <2>2
        <3>2. x[i] \in Own(d)
            BY <1>1, <3>1 DEF Own
        <3> QED BY <1>16, <2>2, <3>1, <3>2
    <2> QED BY <2>1, <2>2
<1>20. ASSUME NEW o \in Own(d) PROVE \E i \in DOMAIN x : x[i] = o /\ ~IsOpen(x, 0, i)
    <2>1. PICK i \in DOMAIN x : x[i] = o /\ o.kind = "location"
        BY <1>1 DEF Own
    <2> QED BY <1>14, <2>1
<1>21. ASSUME NEW k \in CallIds, KidOf(k, d) PROVE \E i \in DOMAIN x : x[i].call = k /\ IsOpen(x, 0, i)
    <2>1. PICK h \in 1..n : kids[h] = k
        BY <1>13, <1>21
    <2>2. PICK i : i = l + h
        OBVIOUS
    <2>3. i \in DOMAIN x
        <3>1. z = l + n \/ z = l + n + 1
            BY <1>9
        <3>2. i \in 1..z
            BY <1>5, <1>24, <2>2, <3>1
        <3> QED BY <1>23, <3>2
    <2>4. x[i].kind = "call" /\ x[i].call = k
        BY <1>7, <2>1, <2>2
    <2> QED BY <1>14, <2>3, <2>4
<1>22. InPlaceOf(d, x, 0)
    BY <1>17, <1>18, <1>19, <1>20, <1>21 DEF InPlaceOf
<1> QED BY <1>1, <1>3, <1>22

\* Without a trace, it stands for itself and is followed by all its calls.
LEMMA NoTraceInPlace ==
    ASSUME WalkInv, OrdersInv, NEW d \in CallIds, ~HasTrace(d), NEW x, x = <<Inner(d)>> \o Kids(d)
    PROVE  x \in Seq(Step) /\ Len(x) \in Nat \ {0} /\ InPlaceOf(d, x, 1)
<1> DEFINE kids == calls[d].kids
           n == Len(kids)
           ks == Kids(d)
<1>1. PICK o : o = Inner(d)
    OBVIOUS
<1>2. /\ n \in Nat
      /\ \A i \in 1..n : kids[i] \in CallIds /\ kids[i] # Root /\ calls[kids[i]].parent = d
      /\ \A i, j \in 1..n : i < j => kids[i] < kids[j]
      /\ \A k \in CallIds : calls[k].parent = d => \E i \in 1..n : kids[i] = k
    BY KidsOf
<1>3. ks \in Seq(Step) /\ Len(ks) = n /\ \A i \in 1..n : ks[i] = Inner(kids[i])
    BY KidsAre
<1>18. x = <<o>> \o ks
    BY <1>1
<1> HIDE DEF kids, n, ks
<1>4. o \in Step /\ o.kind = "call" /\ o.call = d
    BY <1>1 DEF Inner, Step, Parts
<1>5. /\ x \in Seq(Step) /\ Len(x) = n + 1
      /\ \A i \in 1..n + 1 : x[i] = IF i <= 1 THEN o ELSE ks[i - 1]
    <2> HIDE DEF Step
    <2>1. PICK p : p = <<o>>
        OBVIOUS
    <2>2. p \in Seq(Step) /\ Len(p) = 1 /\ p[1] = o
        BY <1>4, <2>1
    <2>3. /\ p \o ks \in Seq(Step) /\ Len(p \o ks) = Len(p) + Len(ks)
          /\ \A i \in 1..Len(p) + Len(ks) : (p \o ks)[i] = IF i <= Len(p) THEN p[i] ELSE ks[i - Len(p)]
        BY <1>3, <2>2, ConcatProperties
    <2>4. x = p \o ks
        BY <1>18, <2>1
    <2>5. Len(p) + Len(ks) = n + 1
        BY <1>2, <1>3, <2>2
    <2>6. ASSUME NEW i \in 1..n + 1 PROVE x[i] = IF i <= 1 THEN o ELSE ks[i - 1]
        <3>1. x[i] = IF i <= 1 THEN p[i] ELSE ks[i - 1]
            BY <2>2, <2>3, <2>4, <2>5
        <3>2. i <= 1 => i = 1
            BY <1>2
        <3> QED BY <2>2, <3>1, <3>2
    <2> QED BY <2>3, <2>4, <2>5, <2>6
<1>6. DOMAIN x = 1..n + 1
    <2> HIDE DEF Step
    <2> QED BY <1>5, LenProperties
<1>7. x[1] = o /\ 1 \in DOMAIN x
    BY <1>2, <1>5, <1>6
<1>8. ASSUME NEW i \in DOMAIN x, i # 1
      PROVE  i - 1 \in 1..n /\ x[i] = Inner(kids[i - 1]) /\ x[i].kind = "call" /\ x[i].call = kids[i - 1]
    <2>1. PICK j : j = i - 1
        OBVIOUS
    <2>2. j \in 1..n /\ ~(i <= 1) /\ i \in 1..n + 1
        BY <1>2, <1>6, <1>8, <2>1
    <2>3. x[i] = ks[j]
        BY <1>5, <2>1, <2>2
    <2> QED BY <1>3, <2>1, <2>2, <2>3, InnerIs
<1>9. ASSUME NEW i \in DOMAIN x PROVE IsOpen(x, 1, i) <=> i # 1
    <2>1. i \in Nat /\ i >= 1
        BY <1>2, <1>6
    <2> QED BY <1>8, <2>1 DEF IsOpen
<1>10. ASSUME NEW i \in 1..n
       PROVE  /\ KidOf(kids[i], d) /\ kids[i] \in CallIds
              /\ kids[i] \in Nat /\ d < kids[i]
    <2>1. KidOf(kids[i], d) /\ kids[i] \in CallIds
        BY <1>2 DEF KidOf, Entered
    <2> QED BY <2>1, KidIs
<1>11. Own(d) = {o}
    BY <1>1 DEF Own
<1>12. ASSUME NEW i \in DOMAIN x, NEW j \in DOMAIN x, i < j PROVE Before(x[i], x[j])
    <2>1. j # 1 /\ i \in Nat /\ j \in Nat
        BY <1>2, <1>6, <1>12
    <2>2. PICK h \in 1..n : h = j - 1 /\ x[j].call = kids[h]
        BY <1>8, <2>1
    <2>3. CASE i = 1
        <3>1. d < kids[h]
            BY <1>10
        <3> QED BY <1>4, <1>7, <2>2, <2>3, <3>1 DEF Before
    <2>4. CASE i # 1
        <3>1. PICK g \in 1..n : g = i - 1 /\ x[i].call = kids[g]
            BY <1>8, <2>4
        <3>2. g < h
            BY <1>12, <2>1, <2>2, <3>1
        <3>3. kids[g] < kids[h]
            BY <1>2, <3>2
        <3> QED BY <2>2, <3>1, <3>3 DEF Before
    <2> QED BY <2>3, <2>4
<1>13. ASSUME NEW i \in DOMAIN x, NEW j \in DOMAIN x, i # 1, j # 1, i # j
       PROVE  x[i].call # x[j].call
    <2>1. PICK g \in 1..n, h \in 1..n :
             g = i - 1 /\ h = j - 1 /\ x[i].call = kids[g] /\ x[j].call = kids[h]
        BY <1>8, <1>13
    <2>2. i \in Nat /\ j \in Nat
        BY <1>2, <1>6
    <2>3. g < h \/ h < g
        BY <1>13, <2>1, <2>2
    <2>4. kids[g] < kids[h] \/ kids[h] < kids[g]
        BY <1>2, <2>3
    <2>5. kids[g] # kids[h]
        BY <1>10, <2>4
    <2> QED BY <2>1, <2>5
<1>14. ASSUME NEW i \in DOMAIN x
       PROVE  IF IsOpen(x, 1, i) THEN KidOf(x[i].call, d) /\ x[i] = Inner(x[i].call)
              ELSE x[i].call = d /\ x[i] \in Own(d)
    <2>1. CASE i = 1
        BY <1>4, <1>7, <1>9, <1>11, <2>1
    <2>2. CASE i # 1
        <3>1. PICK h \in 1..n : h = i - 1 /\ x[i].call = kids[h] /\ x[i] = Inner(kids[h])
            BY <1>8, <2>2
        <3> QED BY <1>9, <1>10, <2>2, <3>1
    <2> QED BY <2>1, <2>2
<1>15. \A s \in Own(d) : \E i \in DOMAIN x : x[i] = s /\ ~IsOpen(x, 1, i)
    BY <1>7, <1>9, <1>11
<1>16. ASSUME NEW k \in CallIds, KidOf(k, d) PROVE \E i \in DOMAIN x : x[i].call = k /\ IsOpen(x, 1, i)
    <2>1. PICK h \in 1..n : kids[h] = k
        BY <1>2, <1>16 DEF KidOf
    <2>2. PICK i : i = h + 1
        OBVIOUS
    <2>3. i \in DOMAIN x /\ i # 1 /\ i - 1 = h
        BY <1>2, <1>6, <2>2
    <2> QED BY <1>8, <1>9, <2>1, <2>3
<1>17. InPlaceOf(d, x, 1)
    BY <1>9, <1>12, <1>13, <1>14, <1>15, <1>16 DEF InPlaceOf
<1> QED BY <1>2, <1>5, <1>17

MergeInv ==
    pc \in {"merge", "point"} \/ Debugged =>
        /\ Merged(trace \o work, Len(trace))
        /\ pc # "merge" => work = <<>>

\* Whatever has been merged, calls and functions stay as they are.
LEMMA SameMerged ==
    ASSUME UNCHANGED <<calls, functions, shape>>, NEW all, NEW n, Merged(all, n)
    PROVE  Merged(all, n)'
<1>1. CallIds' = CallIds /\ Path' = Path
    BY DEF CallIds, Path
<1>2. ASSUME NEW c PROVE TraceOf(c)' = TraceOf(c)
    BY DEF TraceOf, Kids
<1>3. ASSUME NEW c PROVE HasTrace(c)' <=> HasTrace(c)
    <2>1. TraceOf(c)' = TraceOf(c)
        BY <1>2
    <2> QED BY <2>1 DEF HasTrace
<1>4. ASSUME NEW c PROVE Own(c)' = Own(c)
    <2>1. TraceOf(c)' = TraceOf(c) /\ (HasTrace(c)' <=> HasTrace(c))
        BY <1>2, <1>3
    <2> QED BY <2>1 DEF Own
<1>5. ASSUME NEW c PROVE IsReached(c)' <=> IsReached(c)
    <2>1. ASSUME NEW e PROVE Entered(e)' <=> Entered(e)
        <3>1. PICK p : p = calls[e].parent
            OBVIOUS
        <3>2. HasTrace(p)' <=> HasTrace(p)
            BY <1>3
        <3>3. Entered(e) <=> (HasTrace(p) => \E i \in 1..functions[p].linked : calls[p].kids[i] = e)
            BY <3>1 DEF Entered
        <3>4. Entered(e)' <=> (HasTrace(p)' => \E i \in 1..functions[p].linked : calls[p].kids[i] = e)
            BY <3>1 DEF Entered
        <3> QED BY <3>2, <3>3, <3>4
    <2>2. IsReached(c) <=> \A e \in Path[c] \ {Root} : Entered(e)
        BY DEF IsReached, Entered
    <2>3. IsReached(c)' <=> \A e \in Path'[c] \ {Root} : Entered(e)'
        BY DEF IsReached, Entered
    <2> QED BY <1>1, <2>1, <2>2, <2>3
<1>6. \A r, s : Before(r, s)' <=> Before(r, s)
    BY <1>1 DEF Before
<1>7. Merged(all, n)
    OBVIOUS
<1>8. \A i, j \in DOMAIN all : i < j => Before(all[i], all[j])'
    BY <1>6, <1>7 DEF Merged
<1>9. \A i \in DOMAIN all :
          /\ IsReached(all[i].call)'
          /\ IF IsOpen(all, n, i) THEN all[i] = Inner(all[i].call) ELSE all[i] \in Own(all[i].call)'
    <2> TAKE i \in DOMAIN all
    <2>1. PICK c : c = all[i].call
        OBVIOUS
    <2>2. /\ IsReached(c)
          /\ IF IsOpen(all, n, i) THEN all[i] = Inner(c) ELSE all[i] \in Own(c)
        BY <1>7, <2>1 DEF Merged
    <2>3. /\ IsReached(c)'
          /\ IF IsOpen(all, n, i) THEN all[i] = Inner(c) ELSE all[i] \in Own(c)'
        BY <1>4, <1>5, <2>2
    <2> QED BY <2>1, <2>3
<1>10. \A c \in CallIds : \A s \in Own(c)' : IsReached(c)' =>
          \/ \E i \in DOMAIN all : all[i] = s /\ ~IsOpen(all, n, i)
          \/ \E i \in DOMAIN all : IsOpen(all, n, i) /\ all[i].call \in Path[c]
    BY <1>4, <1>5, <1>7 DEF Merged
<1>11. \A i, j \in DOMAIN all :
          IsOpen(all, n, i) /\ i # j => all[i].call \notin Path[all[j].call]
    BY <1>7 DEF Merged
<1> QED BY <1>1, <1>8, <1>9, <1>10, <1>11 DEF Merged

LEMMA Moved ==
    ASSUME NEW E, NEW t \in Seq(E), NEW w \in Seq(E), w # <<>>
    PROVE  Append(t, w[1]) \o Tail(w) = t \o w
<1>1. PICK e, v : e = w[1] /\ v = Tail(w)
    OBVIOUS
<1>2. Len(w) \in Nat \ {0}
    BY EmptySeq
<1>3. e \in E /\ v \in Seq(E) /\ Len(v) = Len(w) - 1 /\ \A i \in 1..Len(v) : v[i] = w[i + 1]
    BY <1>1, <1>2, HeadTailProperties, ElementOfSeq
<1>4. PICK p : p = <<e>>
    OBVIOUS
<1>5. p \in Seq(E) /\ Len(p) = 1 /\ p[1] = e
    BY <1>3, <1>4
<1>6. /\ p \o v \in Seq(E) /\ Len(p \o v) = Len(p) + Len(v)
      /\ \A i \in 1..Len(p) + Len(v) : (p \o v)[i] = IF i <= Len(p) THEN p[i] ELSE v[i - Len(p)]
    <2>1. p \in Seq(E) /\ v \in Seq(E)
        BY <1>3, <1>5
    <2> QED BY <2>1, ConcatProperties
<1>7. PICK pv : pv = p \o v
    OBVIOUS
<1>8. PICK k : k = Len(w) /\ k \in Nat \ {0}
    BY <1>2
<1>9. pv \in Seq(E) /\ Len(pv) = k /\ \A i \in 1..k : pv[i] = IF i <= 1 THEN p[i] ELSE v[i - 1]
    <2>1. Len(p) + Len(v) = k
        BY <1>3, <1>5, <1>8
    <2> QED BY <1>5, <1>6, <1>7, <2>1
<1>10. \A i \in 1..k : pv[i] = w[i]
    <2> TAKE i \in 1..k
    <2>1. CASE i = 1
        BY <1>1, <1>5, <1>8, <1>9, <2>1
    <2>2. CASE i # 1
        <3>1. PICK j : j = i - 1
            OBVIOUS
        <3>2. ~(i <= 1) /\ j \in 1..k - 1 /\ j + 1 = i
            BY <1>8, <2>2, <3>1
        <3> QED BY <1>3, <1>8, <1>9, <3>1, <3>2
    <2> QED BY <2>1, <2>2
<1>11. pv = w
    BY <1>8, <1>9, <1>10, SeqEqual
<1>12. Append(t, e) = t \o p
    BY <1>3, <1>4, AppendIsConcat
<1>13. (t \o p) \o v = t \o (p \o v)
    BY <1>3, <1>5, ConcatAssociative
<1> QED BY <1>1, <1>7, <1>11, <1>12, <1>13

LEMMA LocationMerged ==
    ASSUME WalkInv, DebugInv, MergeInv, MergeLocation
    PROVE  MergeInv'
<1>1. /\ Merging /\ work[1].kind = "location" /\ UNCHANGED <<calls, functions, shape, pc>>
      /\ trace' = Append(trace, work[1]) /\ work' = Tail(work)
    BY DEF MergeLocation, Kept, walk, built
<1>2. trace \in Seq(Step) /\ work \in Seq(Step) /\ work # <<>> /\ work[1] \in Step
    BY <1>1, FirstIs DEF Merging
<1>3. PICK all, n : all = trace \o work /\ n = Len(trace)
    OBVIOUS
<1>4. trace' \o work' = all
    <2> HIDE DEF Step
    <2> QED BY <1>1, <1>2, <1>3, Moved
<1>5. Len(trace') = n + 1 /\ n \in Nat
    <2> HIDE DEF Step
    <2> QED BY <1>1, <1>2, <1>3, AppendProperties, LenProperties
<1>6. Merged(all, n)
    BY <1>1, <1>3 DEF MergeInv, Merging
<1>7. all[n + 1] = work[1] /\ DOMAIN all \subseteq Nat
    <2>1. /\ Joined(trace, work)[Len(trace) + 1] = work[1]
          /\ DOMAIN Joined(trace, work) = 1..Len(Joined(trace, work))
        <3>1. <<>> \in Seq(Step)
            BY EmptySeq
        <3> HIDE DEF Step
        <3> QED BY <1>2, <3>1, Spliced
    <2> QED BY <1>3, <2>1 DEF Joined
<1>8. \A i \in DOMAIN all : IsOpen(all, n + 1, i) <=> IsOpen(all, n, i)
    <2> SUFFICES ASSUME NEW i \in DOMAIN all, i > n, ~(i > n + 1), all[i].kind = "call"
                 PROVE  FALSE
        BY <1>5, <1>7 DEF IsOpen
    <2>1. i = n + 1
        BY <1>5, <1>7
    <2> QED BY <1>1, <1>7, <2>1
<1>9. Merged(all, n + 1)
    BY <1>6, <1>8 DEF Merged
<1>10. PICK m : m = n + 1
    OBVIOUS
<1>11. Merged(all, m)'
    BY <1>1, <1>9, <1>10, SameMerged
<1>12. pc' = "merge"
    BY <1>1 DEF Merging
<1> QED BY <1>4, <1>5, <1>10, <1>11, <1>12 DEF MergeInv, Debugged

\* The first of the calls that are still to be merged.
LEMMA FirstOpen ==
    ASSUME DebugInv, MergeInv, Merging, work[1].kind = "call"
    PROVE  work[1] = Inner(work[1].call) /\ work[1].call \in CallIds
<1>1. trace \in Seq(Step) /\ work \in Seq(Step) /\ work # <<>> /\ work[1] \in Step
    BY FirstIs DEF Merging
<1>2. PICK all, n : all = trace \o work /\ n = Len(trace)
    OBVIOUS
<1>3. <<>> \in Seq(Step)
    BY EmptySeq
<1>4. /\ Joined(trace, work)[Len(trace) + 1] = work[1]
      /\ DOMAIN Joined(trace, work) = 1..Len(Joined(trace, work))
    <2> HIDE DEF Step
    <2> QED BY <1>1, <1>3, Spliced
<1>5. /\ Len(trace) \in Nat /\ Len(Joined(trace, work)) \in Nat
      /\ Len(trace) + 1 <= Len(Joined(trace, work))
    <2> HIDE DEF Step
    <2> QED BY <1>1, <1>3, Spliced
<1>6. all[n + 1] = work[1] /\ n + 1 \in DOMAIN all /\ n + 1 > n
    <2>1. all = Joined(trace, work)
        BY <1>2 DEF Joined
    <2>2. n + 1 \in 1..Len(Joined(trace, work)) /\ n + 1 > n
        BY <1>2, <1>5
    <2> QED BY <1>2, <1>4, <2>1, <2>2
<1>7. Merged(all, n)
    BY <1>2 DEF MergeInv, Merging
<1>8. work[1] = Inner(work[1].call)
    BY <1>6, <1>7 DEF Merged, IsOpen
<1> QED BY <1>1, <1>8, StepIs

LEMMA CallMerged ==
    ASSUME WalkInv, BuildInv, DebugInv, OrdersInv, MergeInv, MergeCall
    PROVE  MergeInv'
<1>1. PICK d, x : d = work[1].call /\ x = TraceOf(d)
    OBVIOUS
<1>2. /\ Merging /\ pc = "merge" /\ work[1].kind = "call" /\ HasTrace(d)
      /\ UNCHANGED <<calls, functions, shape, pc, trace>>
      /\ work' = x \o Tail(work)
    BY <1>1 DEF MergeCall, Kept, walk, built, Merging
<1>3. trace \in Seq(Step) /\ work \in Seq(Step) /\ work # <<>> /\ d \in CallIds
    BY <1>1, <1>2, FirstIs, StepIs DEF Merging
<1>4. x \in Seq(Step) /\ InPlaceOf(d, x, 0)
    BY <1>1, <1>2, <1>3, TraceInPlace
<1>5. 0 \in 0..Len(x)
    <2>1. Len(x) \in Nat
        <3> HIDE DEF Step
        <3> QED BY <1>4, LenProperties
    <2> QED BY <2>1
<1>6. Merged(trace \o work, Len(trace))
    BY <1>2 DEF MergeInv
<1>7. Merged(trace \o (x \o Tail(work)), Len(trace) + 0)
    BY <1>1, <1>2, <1>3, <1>4, <1>5, <1>6, Replaced
<1>8. Len(trace) + 0 = Len(trace)
    <2>1. Len(trace) \in Nat
        <3> HIDE DEF Step
        <3> QED BY <1>3, LenProperties
    <2> QED BY <2>1
<1>9. PICK all, n : all = trace' \o work' /\ n = Len(trace')
    OBVIOUS
<1>10. Merged(all, n)
    BY <1>2, <1>7, <1>8, <1>9
<1>11. Merged(all, n)'
    BY <1>2, <1>10, SameMerged
<1> QED BY <1>2, <1>9, <1>11 DEF MergeInv, Debugged

LEMMA NoTraceMerged ==
    ASSUME WalkInv, BuildInv, DebugInv, OrdersInv, MergeInv, MergeNoTrace
    PROVE  MergeInv'
<1>1. PICK d, o, ks, rest : d = work[1].call /\ o = Inner(d) /\ ks = Kids(d) /\ rest = Tail(work)
    OBVIOUS
<1>2. /\ Merging /\ pc = "merge" /\ work[1].kind = "call" /\ ~HasTrace(d)
      /\ UNCHANGED <<calls, functions, shape, pc>>
      /\ trace' = Append(trace, work[1]) /\ work' = ks \o rest
    BY <1>1 DEF MergeNoTrace, Instead, Kept, walk, built, Merging
<1>3. /\ trace \in Seq(Step) /\ work \in Seq(Step) /\ work # <<>> /\ d \in CallIds
      /\ rest \in Seq(Step) /\ work[1] = o /\ o \in Step
    BY <1>1, <1>2, FirstIs, FirstOpen DEF Merging
<1>4. PICK p, x : p = <<o>> /\ x = p \o ks
    OBVIOUS
<1>5. x \in Seq(Step) /\ Len(x) \in Nat \ {0} /\ InPlaceOf(d, x, 1)
    BY <1>1, <1>2, <1>3, <1>4, NoTraceInPlace
<1>6. Merged(trace \o work, Len(trace))
    BY <1>2 DEF MergeInv
<1>7. Merged(trace \o (x \o rest), Len(trace) + 1)
    <2>1. 1 \in 0..Len(x)
        BY <1>5
    <2> QED BY <1>1, <1>2, <1>3, <1>5, <1>6, <2>1, Replaced
<1>8. trace' \o work' = trace \o (x \o rest) /\ Len(trace') = Len(trace) + 1
    <2>1. ks \in Seq(Step)
        BY <1>1, <1>3, KidsAre
    <2>2. p \in Seq(Step)
        <3> HIDE DEF Step
        <3> QED BY <1>3, <1>4
    <2> HIDE DEF Step
    <2>3. Append(trace, o) = trace \o p /\ Len(Append(trace, o)) = Len(trace) + 1
        BY <1>3, <1>4, AppendIsConcat, AppendProperties
    <2>4. ks \o rest \in Seq(Step)
        BY <1>3, <2>1, ConcatProperties
    <2>5. (trace \o p) \o (ks \o rest) = trace \o (p \o (ks \o rest))
        <3>1. PICK y, t : y = ks \o rest /\ t = trace
            OBVIOUS
        <3>2. y \in Seq(Step) /\ t \in Seq(Step)
            BY <1>3, <2>4, <3>1
        <3>3. (t \o p) \o y = t \o (p \o y)
            BY <2>2, <3>2, ConcatAssociative
        <3> QED BY <3>1, <3>3
    <2>6. (p \o ks) \o rest = p \o (ks \o rest)
        BY <1>3, <2>1, <2>2, ConcatAssociative
    <2> QED BY <1>2, <1>3, <1>4, <2>3, <2>5, <2>6
<1>9. PICK all, n : all = trace' \o work' /\ n = Len(trace')
    OBVIOUS
<1>10. Merged(all, n)
    BY <1>7, <1>8, <1>9
<1>11. Merged(all, n)'
    BY <1>2, <1>10, SameMerged
<1> QED BY <1>2, <1>9, <1>11 DEF MergeInv, Debugged

LEMMA RootMerged ==
    ASSUME WalkInv, DebugInv, Merge
    PROVE  MergeInv'
<1>1. /\ pc = "build" /\ pc' = "merge" /\ UNCHANGED <<calls, functions, trace>>
      /\ work' = <<Inner(Root)>>
    BY DEF Merge, walk, built
<1>2. trace' = <<>>
    BY <1>1 DEF DebugInv
<1>3. CallIds' = CallIds /\ Path' = Path
    BY <1>1 DEF CallIds, Path
<1>4. PICK o : o = Inner(Root)
    OBVIOUS
<1>5. o.kind = "call" /\ o.call = Root /\ o = Inner(o.call)
    BY <1>4 DEF Inner
<1>6. PICK all : all = <<o>>
    OBVIOUS
<1>7. trace' \o work' = all /\ Len(trace') = 0
    BY <1>1, <1>2, <1>4, <1>6
<1>8. DOMAIN all = {1} /\ all[1] = o
    BY <1>6
<1>9. Path[Root] = {Root} /\ \A c \in CallIds : Root \in Path[c]
    BY CallsAre, ParentIs, AbovePath
<1>10. IsOpen(all, 0, 1)
    BY <1>5, <1>8 DEF IsOpen
<1>11. IsReached(Root)'
    BY <1>3, <1>9 DEF IsReached
<1>12. \A i, j \in DOMAIN all : ~(i < j) /\ i = j /\ i = 1
    BY <1>8
<1>13. Merged(all, 0)'
    <2>1. \A i \in DOMAIN all :
              /\ IsReached(all[i].call)'
              /\ IF IsOpen(all, 0, i) THEN all[i] = Inner(all[i].call) ELSE all[i] \in Own(all[i].call)'
        <3> TAKE i \in DOMAIN all
        <3>1. i = 1
            BY <1>8
        <3>2. all[i].call = Root /\ IsOpen(all, 0, i) /\ all[i] = Inner(all[i].call)
            BY <1>5, <1>8, <1>10, <3>1
        <3>3. IsReached(all[i].call)'
            BY <1>11, <3>2
        <3> QED BY <3>2, <3>3
    <2>2. \A c \in CallIds : 1 \in DOMAIN all /\ IsOpen(all, 0, 1) /\ all[1].call \in Path[c]
        BY <1>5, <1>8, <1>9, <1>10
    <2>3. \A c \in CallIds : \E i \in DOMAIN all : IsOpen(all, 0, i) /\ all[i].call \in Path[c]
        BY <2>2
    <2> QED BY <1>3, <1>12, <2>1, <2>3 DEF Merged
<1> QED BY <1>1, <1>7, <1>13 DEF MergeInv

LEMMA LaterMerged ==
    ASSUME DebugInv, MergeInv,
           UNCHANGED <<calls, functions, shape, trace, work>>,
           pc \in {"merge", "point"} \/ Debugged, pc' # "merge", work = <<>>
    PROVE  MergeInv'
<1>1. PICK all, n : all = trace \o work /\ n = Len(trace)
    OBVIOUS
<1>2. Merged(all, n)
    BY <1>1 DEF MergeInv
<1>3. Merged(all, n)'
    BY <1>2, SameMerged
<1> QED BY <1>1, <1>3 DEF MergeInv

LEMMA StepMerged ==
    ASSUME WalkInv, BuildInv, DebugInv, OrdersInv, MergeInv, [Next]_vars
    PROVE  MergeInv'
<1>1. CASE Walk \/ Build \/ Crash \/ \E receipt \in BOOLEAN : Report(receipt)
    <2>1. pc' \in {"walk", "ready", "build"} \/ (pc' = "done" /\ result' # "debugged")
        <3>1. CASE Walk
            <4>1. pc' \in {"walk", "ready"}
                BY <3>1 DEF Walk, EnterCall, EmitEvent, LeaveCall
            <4> QED BY <4>1
        <3>2. CASE Build
            <4>1. pc' = "build" \/ (pc' = "done" /\ result' = "error")
                BY <3>2 DEF Build, Begin, MapCall, MapBroken
            <4> QED BY <4>1
        <3>3. CASE Crash
            BY <3>3 DEF Crash
        <3>4. CASE \E receipt \in BOOLEAN : Report(receipt)
            BY <3>4 DEF Report
        <3> QED BY <1>1, <3>1, <3>2, <3>3, <3>4
    <2> QED BY <2>1 DEF MergeInv, Debugged
<1>2. CASE Merge
    BY <1>2, RootMerged
<1>3. CASE MergeLocation \/ MergeCall \/ MergeNoTrace
    BY <1>3, LocationMerged, CallMerged, NoTraceMerged
<1>4. CASE Inherit \/ Point
    <2>1. /\ UNCHANGED <<calls, functions, shape, trace, work>> /\ pc \in {"merge", "point"}
          /\ pc' # "merge" /\ (pc = "merge" => work = <<>>)
        BY <1>4 DEF Inherit, Point, walk, built
    <2>2. work = <<>>
        BY <2>1 DEF MergeInv
    <2> QED BY <2>1, <2>2, LaterMerged
<1>5. CASE UNCHANGED vars
    <2>1. UNCHANGED <<calls, functions, shape, trace, work, pc, result>>
        BY <1>5 DEF vars, walk, built, report, debug
    <2>2. CASE pc = "merge"
        <3>1. PICK all, n : all = trace \o work /\ n = Len(trace)
            OBVIOUS
        <3>2. Merged(all, n)
            BY <2>2, <3>1 DEF MergeInv
        <3>3. Merged(all, n)'
            BY <2>1, <3>2, SameMerged
        <3> QED BY <2>1, <2>2, <3>1, <3>3 DEF MergeInv
    <2>3. CASE pc # "merge" /\ (pc = "point" \/ Debugged)
        <3>1. work = <<>>
            BY <2>3 DEF MergeInv
        <3> QED BY <2>1, <2>3, <3>1, LaterMerged
    <2>4. CASE ~(pc \in {"merge", "point"} \/ Debugged)
        BY <2>1, <2>4 DEF MergeInv, Debugged
    <2> QED BY <2>2, <2>3, <2>4
<1> QED BY <1>1, <1>2, <1>3, <1>4, <1>5 DEF Next

\* At any time, the trace and what is still to be merged stand for all steps.
THEOREM MergeInvCorrect == Spec => []MergeInv
<1>1. Init => MergeInv
    BY DEF Init, WalkInit, MergeInv, Debugged
<1>2. WalkInv /\ BuildInv /\ DebugInv /\ OrdersInv /\ MergeInv /\ [Next]_vars => MergeInv'
    BY StepMerged
<1> QED BY <1>1, <1>2, WalkInvCorrect, BuildInvCorrect, DebugInvCorrect, OrdersInvCorrect, PTL DEF Spec

LEMMA OnceMerged ==
    ASSUME DebugInv, MergeInv, pc = "point" \/ Debugged
    PROVE  MergedOnce
<1>1. work = <<>> /\ trace \in Seq(Step)
    BY DEF MergeInv, DebugInv, Debugged
<1>2. trace \o work = trace
    <2> HIDE DEF Step
    <2> QED BY <1>1, ConcatEmptySeq
<1>3. PICK n : n = Len(trace)
    OBVIOUS
<1>4. Merged(trace, n)
    BY <1>2, <1>3 DEF MergeInv
<1>5. DOMAIN trace = 1..n /\ n \in Nat /\ \A i \in DOMAIN trace : trace[i] \in Step
    <2> HIDE DEF Step
    <2> QED BY <1>1, <1>3, LenProperties, ElementOfSeq
<1>6. \A i \in DOMAIN trace : ~IsOpen(trace, n, i)
    BY <1>5 DEF IsOpen
<1>7. ASSUME NEW i \in DOMAIN trace
      PROVE  \E c \in {d \in CallIds : IsReached(d)} : trace[i] \in Own(c)
    <2>1. trace[i].call \in CallIds
        BY <1>5, StepIs
    <2>2. IsReached(trace[i].call) /\ trace[i] \in Own(trace[i].call)
        BY <1>4, <1>6 DEF Merged
    <2> QED BY <2>1, <2>2
<1>8. ASSUME NEW c \in CallIds, IsReached(c), NEW s \in Own(c)
      PROVE  \E i \in DOMAIN trace : trace[i] = s
    BY <1>4, <1>6, <1>8 DEF Merged
<1>9. {trace[i] : i \in DOMAIN trace} = UNION {Own(c) : c \in {d \in CallIds : IsReached(d)}}
    BY <1>7, <1>8
<1>10. \A i, j \in DOMAIN trace : i < j => Before(trace[i], trace[j])
    BY <1>4 DEF Merged
<1> QED BY <1>9, <1>10 DEF MergedOnce, Before

-----------------------------------------------------------------------------
(* The steps of calls and functions *)

\* A step's index, from zero, is that of a location of the call.
IsAt(v, c) ==
    v \in Nat /\ v + 1 \in DOMAIN trace /\ trace[v + 1].kind = "location" /\ trace[v + 1].call = c

\* Functions are shown at steps of their own part, until those without a step
\* inherit that of their call: then there is no step of the body.
StepsInv ==
    /\ pc \in {"walk", "ready", "build"} => DOMAIN callStep = {} /\ DOMAIN functionStep = {}
    /\ pc \in {"merge", "point"} =>
          /\ \A c \in DOMAIN callStep : IsAt(callStep[c], c)
          /\ \A f \in DOMAIN functionStep : IsAt(functionStep[f], f[1])
          /\ \A i \in DOMAIN trace :
                trace[i].kind = "location" => <<trace[i].call, trace[i].part>> \in DOMAIN functionStep
    /\ pc = "merge" => \A f \in DOMAIN functionStep : trace[functionStep[f] + 1].part = f[2]
    /\ pc = "point" =>
          \A f \in DOMAIN functionStep :
             f[2] = "body" /\ (\E i \in DOMAIN trace : IsBodyOf(f[1], trace[i]))
                => trace[functionStep[f] + 1].part = "body"

LEMMA AppendedSteps ==
    ASSUME DebugInv, Merging, trace' = Append(trace, work[1])
    PROVE  /\ Len(trace) \in Nat /\ Len(trace) + 1 \in DOMAIN trace' /\ trace'[Len(trace) + 1] = work[1]
           /\ LastIndex(trace') = Len(trace)
           /\ \A i \in DOMAIN trace : i \in DOMAIN trace' /\ trace'[i] = trace[i]
           /\ \A i \in DOMAIN trace' : i \in DOMAIN trace \/ i = Len(trace) + 1
           /\ \A v, c : IsAt(v, c) => IsAt(v, c)' /\ trace'[v + 1] = trace[v + 1]
<1>1. trace \in Seq(Step) /\ work[1] \in Step
    BY FirstIs
<1>2. PICK k : k = Len(trace)
    OBVIOUS
<1>3. /\ trace' \in Seq(Step) /\ Len(trace') = k + 1 /\ trace'[k + 1] = work[1]
      /\ \A i \in 1..k : trace'[i] = trace[i]
    <2> HIDE DEF Step
    <2> QED BY <1>1, <1>2, AppendProperties
<1>4. k \in Nat /\ DOMAIN trace = 1..k
    <2> HIDE DEF Step
    <2> QED BY <1>1, <1>2, LenProperties
<1>5. DOMAIN trace' = 1..k + 1
    <2> HIDE DEF Step
    <2> QED BY <1>3, LenProperties
<1>6. \A i \in DOMAIN trace : i \in DOMAIN trace' /\ trace'[i] = trace[i]
    BY <1>3, <1>4, <1>5
<1>7. \A i \in DOMAIN trace' : i \in DOMAIN trace \/ i = k + 1
    BY <1>4, <1>5
<1>8. k + 1 \in DOMAIN trace'
    BY <1>4, <1>5
<1>9. LastIndex(trace') = k
    BY <1>3, <1>4 DEF LastIndex
<1>10. ASSUME NEW v, NEW c, IsAt(v, c) PROVE IsAt(v, c)' /\ trace'[v + 1] = trace[v + 1]
    <2>1. PICK i : i = v + 1 /\ v \in Nat /\ i \in DOMAIN trace /\ trace[i].kind = "location" /\ trace[i].call = c
        BY <1>10 DEF IsAt
    <2>2. i \in DOMAIN trace' /\ trace'[i] = trace[i]
        BY <1>6, <2>1
    <2> QED BY <2>1, <2>2 DEF IsAt
<1> QED BY <1>2, <1>3, <1>4, <1>6, <1>7, <1>8, <1>9, <1>10

LEMMA LocationSteps ==
    ASSUME WalkInv, DebugInv, StepsInv, MergeLocation
    PROVE  StepsInv'
<1>1. PICK s, k, p : s = work[1] /\ k = Len(trace) /\ p = <<s.call, s.part>>
    OBVIOUS
<1>2. /\ Merging /\ pc = "merge" /\ pc' = "merge" /\ s.kind = "location" /\ trace' = Append(trace, s)
      /\ functionStep' = Put(functionStep, p, LastIndex(trace'))
      /\ callStep' = Put(callStep, s.call, LastIndex(trace'))
    BY <1>1 DEF MergeLocation, Kept, Merging
<1>3. /\ k \in Nat /\ k + 1 \in DOMAIN trace' /\ trace'[k + 1] = s /\ LastIndex(trace') = k
      /\ \A i \in DOMAIN trace' : i \in DOMAIN trace \/ i = k + 1
      /\ \A i \in DOMAIN trace : i \in DOMAIN trace' /\ trace'[i] = trace[i]
      /\ \A v, c : IsAt(v, c) => IsAt(v, c)' /\ trace'[v + 1] = trace[v + 1]
    BY <1>1, <1>2, AppendedSteps
<1>4. IsAt(k, s.call)'
    <2>1. PICK c : c = s.call
        OBVIOUS
    <2>2. IsAt(k, c)'
        BY <1>2, <1>3, <2>1 DEF IsAt
    <2>3. s.call = c /\ s.call' = s.call
        BY <2>1
    <2> QED BY <2>2, <2>3
<1>5. /\ DOMAIN callStep' = DOMAIN callStep \cup {s.call}
      /\ \A c \in DOMAIN callStep' : callStep'[c] = IF c \in DOMAIN callStep THEN callStep[c] ELSE k
      /\ DOMAIN functionStep' = DOMAIN functionStep \cup {p}
      /\ \A f \in DOMAIN functionStep' :
            functionStep'[f] = IF f \in DOMAIN functionStep THEN functionStep[f] ELSE k
    BY <1>2, <1>3 DEF Put
<1>6. /\ \A c \in DOMAIN callStep : IsAt(callStep[c], c)
      /\ \A f \in DOMAIN functionStep : IsAt(functionStep[f], f[1])
      /\ \A f \in DOMAIN functionStep : trace[functionStep[f] + 1].part = f[2]
      /\ \A i \in DOMAIN trace :
            trace[i].kind = "location" => <<trace[i].call, trace[i].part>> \in DOMAIN functionStep
    BY <1>2 DEF StepsInv
<1>7. ASSUME NEW c \in DOMAIN callStep', NEW v, v = callStep'[c] PROVE IsAt(v, c)'
    <2>1. CASE c \in DOMAIN callStep
        BY <1>3, <1>5, <1>6, <1>7, <2>1
    <2>2. CASE c \notin DOMAIN callStep
        BY <1>4, <1>5, <1>7, <2>2
    <2> QED BY <2>1, <2>2
<1>8. ASSUME NEW f \in DOMAIN functionStep', NEW v, v = functionStep'[f]
      PROVE  IsAt(v, f[1])' /\ trace'[v + 1].part = f[2]
    <2>1. CASE f \in DOMAIN functionStep
        BY <1>3, <1>5, <1>6, <1>8, <2>1
    <2>2. CASE f \notin DOMAIN functionStep
        <3>1. f = p /\ v = k
            BY <1>5, <1>8, <2>2
        <3>2. f[1] = s.call /\ f[2] = s.part
            BY <1>1, <3>1
        <3> QED BY <1>3, <1>4, <3>1, <3>2
    <2> QED BY <2>1, <2>2
<1>9. ASSUME NEW i \in DOMAIN trace', trace'[i].kind = "location"
      PROVE  <<trace'[i].call, trace'[i].part>> \in DOMAIN functionStep'
    <2>1. CASE i \in DOMAIN trace
        BY <1>3, <1>5, <1>6, <1>9, <2>1
    <2>2. CASE i = k + 1
        BY <1>1, <1>3, <1>5, <2>2
    <2> QED BY <1>3, <2>1, <2>2
<1> QED BY <1>2, <1>7, <1>8, <1>9 DEF StepsInv

LEMMA OtherSteps ==
    ASSUME DebugInv, StepsInv, MergeCall \/ MergeNoTrace
    PROVE  StepsInv'
<1>1. Merging /\ pc = "merge" /\ pc' = "merge" /\ UNCHANGED <<callStep, functionStep>>
    BY DEF MergeCall, MergeNoTrace, Kept, Merging
<1>2. CASE MergeCall
    <2>1. UNCHANGED trace
        BY <1>2 DEF MergeCall
    <2> QED BY <1>1, <2>1 DEF StepsInv, IsAt
<1>3. CASE MergeNoTrace
    <2>1. PICK s, k : s = work[1] /\ k = Len(trace)
        OBVIOUS
    <2>2. s.kind = "call" /\ trace' = Append(trace, s)
        BY <1>3, <2>1 DEF MergeNoTrace
    <2>3. /\ k + 1 \in DOMAIN trace' /\ trace'[k + 1] = s
          /\ \A i \in DOMAIN trace' : i \in DOMAIN trace \/ i = k + 1
          /\ \A i \in DOMAIN trace : trace'[i] = trace[i]
          /\ \A v, c : IsAt(v, c) => IsAt(v, c)' /\ trace'[v + 1] = trace[v + 1]
        BY <1>1, <2>1, <2>2, AppendedSteps
    <2>4. /\ \A c \in DOMAIN callStep : IsAt(callStep[c], c)
          /\ \A f \in DOMAIN functionStep : IsAt(functionStep[f], f[1])
          /\ \A f \in DOMAIN functionStep : trace[functionStep[f] + 1].part = f[2]
          /\ \A i \in DOMAIN trace :
                trace[i].kind = "location" => <<trace[i].call, trace[i].part>> \in DOMAIN functionStep
        BY <1>1 DEF StepsInv
    <2>5. ASSUME NEW c \in DOMAIN callStep', NEW v, v = callStep'[c] PROVE IsAt(v, c)'
        BY <1>1, <2>3, <2>4, <2>5
    <2>6. ASSUME NEW f \in DOMAIN functionStep', NEW v, v = functionStep'[f]
          PROVE  IsAt(v, f[1])' /\ trace'[v + 1].part = f[2]
        BY <1>1, <2>3, <2>4, <2>6
    <2>7. ASSUME NEW i \in DOMAIN trace', trace'[i].kind = "location"
          PROVE  <<trace'[i].call, trace'[i].part>> \in DOMAIN functionStep'
        <3>1. i # k + 1
            BY <2>2, <2>3, <2>7
        <3>2. i \in DOMAIN trace /\ trace'[i] = trace[i]
            BY <2>3, <3>1
        <3> QED BY <1>1, <2>4, <2>7, <3>2
    <2> QED BY <1>1, <2>5, <2>6, <2>7 DEF StepsInv
<1> QED BY <1>2, <1>3

LEMMA InheritSteps ==
    ASSUME DebugInv, StepsInv, Inherit
    PROVE  StepsInv'
<1>1. pc = "merge" /\ pc' = "point" /\ UNCHANGED <<trace, callStep>>
    BY DEF Inherit
<1>2. /\ \A c \in DOMAIN callStep : IsAt(callStep[c], c)
      /\ \A f \in DOMAIN functionStep : IsAt(functionStep[f], f[1])
      /\ \A f \in DOMAIN functionStep : trace[functionStep[f] + 1].part = f[2]
      /\ \A i \in DOMAIN trace :
            trace[i].kind = "location" => <<trace[i].call, trace[i].part>> \in DOMAIN functionStep
    BY <1>1 DEF StepsInv
<1>3. /\ DOMAIN functionStep \subseteq DOMAIN functionStep'
      /\ \A f \in DOMAIN functionStep' :
            IF f \in DOMAIN functionStep THEN functionStep'[f] = functionStep[f]
            ELSE functionStep'[f] = callStep[f[1]] /\ f \in (DOMAIN callStep) \X Parts
    <2>1. PICK new : new = {x \in (DOMAIN callStep) \X Parts :
                               x[1] \in DOMAIN functions /\ (x[2] = "body" => shape[x[1]].body)}
        OBVIOUS
    <2>2. functionStep' = [f \in DOMAIN functionStep \cup new |->
                              IF f \in DOMAIN functionStep THEN functionStep[f] ELSE callStep[f[1]]]
        BY <2>1 DEF Inherit
    <2>3. new \subseteq (DOMAIN callStep) \X Parts
        BY <2>1
    <2>4. DOMAIN functionStep' = DOMAIN functionStep \cup new
        BY <2>2
    <2>5. ASSUME NEW f \in DOMAIN functionStep'
          PROVE  functionStep'[f] = IF f \in DOMAIN functionStep THEN functionStep[f] ELSE callStep[f[1]]
        BY <2>2, <2>4
    <2> QED BY <2>3, <2>4, <2>5
<1>4. ASSUME NEW f \in DOMAIN functionStep'
      PROVE  IsAt(functionStep'[f], f[1])
    <2>1. CASE f \in DOMAIN functionStep
        BY <1>2, <1>3, <2>1
    <2>2. CASE f \notin DOMAIN functionStep
        <3>1. functionStep'[f] = callStep[f[1]] /\ f \in (DOMAIN callStep) \X Parts
            BY <1>3, <2>2
        <3>2. f[1] \in DOMAIN callStep
            BY <3>1
        <3> QED BY <1>2, <3>1, <3>2
    <2> QED BY <2>1, <2>2
<1>5. ASSUME NEW f \in DOMAIN functionStep', f[2] = "body",
             NEW i \in DOMAIN trace, IsBodyOf(f[1], trace[i])
      PROVE  trace[functionStep'[f] + 1].part = "body"
    <2>1. trace[i].kind = "location" /\ trace[i].call = f[1] /\ trace[i].part = f[2]
        BY <1>5 DEF IsBodyOf
    <2>2. <<f[1], f[2]>> \in DOMAIN functionStep
        BY <1>2, <2>1
    <2>3. f = <<f[1], f[2]>>
        <3>1. DOMAIN functionStep \subseteq CallIds \X Parts /\ DOMAIN callStep \subseteq CallIds
            BY DEF DebugInv
        <3>2. f \in CallIds \X Parts
            BY <1>3, <3>1
        <3> QED BY <3>2
    <2> QED BY <1>2, <1>3, <1>5, <2>2, <2>3
<1>6. /\ \A c \in DOMAIN callStep' : IsAt(callStep'[c], c)
      /\ \A i \in DOMAIN trace :
            trace[i].kind = "location" => <<trace[i].call, trace[i].part>> \in DOMAIN functionStep'
    BY <1>1, <1>2, <1>3
<1>7. \A v, c : IsAt(v, c)' <=> IsAt(v, c)
    BY <1>1 DEF IsAt
<1> QED BY <1>1, <1>4, <1>5, <1>6, <1>7 DEF StepsInv, IsBodyOf, IsAt

LEMMA StepSteps ==
    ASSUME WalkInv, DebugInv, StepsInv, [Next]_vars
    PROVE  StepsInv'
<1>1. CASE MergeLocation \/ MergeCall \/ MergeNoTrace \/ Inherit
    BY <1>1, LocationSteps, OtherSteps, InheritSteps
<1>2. CASE Point
    <2>1. pc' = "done"
        BY <1>2 DEF Point
    <2> QED BY <2>1 DEF StepsInv
<1>3. CASE Merge
    <2>1. pc = "build" /\ pc' = "merge" /\ UNCHANGED <<trace, callStep, functionStep>>
        BY <1>3 DEF Merge
    <2>2. DOMAIN callStep' = {} /\ DOMAIN functionStep' = {}
        BY <2>1 DEF StepsInv
    <2>3. DOMAIN trace' = {}
        BY <2>1 DEF DebugInv
    <2> QED BY <2>1, <2>2, <2>3 DEF StepsInv
<1>4. CASE UNCHANGED debug /\ (Walk \/ Build \/ Crash \/ \E receipt \in BOOLEAN : Report(receipt))
    <2>1. UNCHANGED <<callStep, functionStep>>
        BY <1>4 DEF debug
    <2>2. pc \in {"walk", "ready", "build"}
        BY <1>4 DEF Walk, EnterCall, EmitEvent, LeaveCall, Build, Begin, MapCall, MapBroken, Crash, Report
    <2>3. pc' \in {"walk", "ready", "build", "done"}
        BY <1>4 DEF Walk, EnterCall, EmitEvent, LeaveCall, Build, Begin, MapCall, MapBroken, Crash, Report
    <2>4. DOMAIN callStep' = {} /\ DOMAIN functionStep' = {}
        BY <2>1, <2>2 DEF StepsInv
    <2> QED BY <2>3, <2>4 DEF StepsInv
<1>5. CASE UNCHANGED vars
    <2>1. UNCHANGED <<pc, trace, callStep, functionStep>>
        BY <1>5 DEF vars, debug
    <2> QED BY <2>1 DEF StepsInv, IsAt
<1> QED BY <1>1, <1>2, <1>3, <1>4, <1>5 DEF Next

\* The steps of calls and functions, while they are made.
THEOREM StepsInvCorrect == Spec => []StepsInv
<1>1. Init => StepsInv
    BY DEF Init, WalkInit, StepsInv
<1>2. WalkInv /\ DebugInv /\ StepsInv /\ [Next]_vars => StepsInv'
    BY StepSteps
<1> QED BY <1>1, <1>2, WalkInvCorrect, DebugInvCorrect, PTL DEF Spec

-----------------------------------------------------------------------------
(* The debugger, when it is ready *)

\* The body of a call has a step, and it is one of the call.
LEMMA RealStepIs ==
    ASSUME StepsInv, pc = "point", NEW c
    PROVE  /\ RealStep(c) # None <=> <<c, "body">> \in DOMAIN functionStep
           /\ RealStep(c) # None => /\ IsAt(RealStep(c), c)
                                    /\ (\E i \in DOMAIN trace : IsBodyOf(c, trace[i]))
                                          => trace[RealStep(c) + 1].part = "body"
<1>1. PICK f : f = <<c, "body">>
    OBVIOUS
<1>2. f[1] = c /\ f[2] = "body"
    BY <1>1
<1>3. CASE f \in DOMAIN functionStep
    <2>1. RealStep(c) = functionStep[f]
        BY <1>1, <1>3 DEF RealStep
    <2>2. IsAt(functionStep[f], c)
        BY <1>2, <1>3 DEF StepsInv
    <2>3. functionStep[f] # None
        BY <2>2, NoneAssumption DEF IsAt
    <2>4. (\E i \in DOMAIN trace : IsBodyOf(c, trace[i])) => trace[functionStep[f] + 1].part = "body"
        BY <1>2, <1>3 DEF StepsInv
    <2> QED BY <1>1, <1>3, <2>1, <2>2, <2>3, <2>4
<1>4. CASE f \notin DOMAIN functionStep
    BY <1>1, <1>4 DEF RealStep
<1> QED BY <1>3, <1>4

LEMMA AtIs ==
    ASSUME NEW v, NEW c, IsAt(v, c)
    PROVE  At(v) = trace[v + 1] /\ At(v).kind = "location" /\ At(v).call = c
BY DEF IsAt, At

LEMMA PointSteps ==
    ASSUME DebugInv, StepsInv, Point
    PROVE  StepsAreOwn'
<1>1. /\ pc = "point" /\ UNCHANGED trace
      /\ callStep' = [c \in DOMAIN callStep |-> IF RealStep(c) # None THEN RealStep(c) ELSE callStep[c]]
      /\ functionStep' = [f \in DOMAIN functionStep |->
                             IF f[2] = "wrapper" /\ RealStep(f[1]) # None THEN RealStep(f[1])
                             ELSE functionStep[f]]
    BY DEF Point
<1>2. /\ \A c \in DOMAIN callStep : IsAt(callStep[c], c)
      /\ \A f \in DOMAIN functionStep : IsAt(functionStep[f], f[1])
      /\ \A i \in DOMAIN trace :
            trace[i].kind = "location" => <<trace[i].call, trace[i].part>> \in DOMAIN functionStep
      /\ \A f \in DOMAIN functionStep :
            f[2] = "body" /\ (\E i \in DOMAIN trace : IsBodyOf(f[1], trace[i]))
                => trace[functionStep[f] + 1].part = "body"
    BY <1>1 DEF StepsInv
<1>3. DOMAIN functionStep \subseteq CallIds \X Parts
    BY DEF DebugInv
<1>4. \A v : At(v)' = At(v)
    BY <1>1 DEF At
<1>5. ASSUME NEW c \in DOMAIN callStep', NEW v, v = callStep'[c]
      PROVE  At(v).kind = "location" /\ At(v).call = c
    <2>1. IsAt(v, c)
        <3>1. CASE RealStep(c) # None
            BY <1>1, <1>5, <3>1, RealStepIs
        <3>2. CASE RealStep(c) = None
            BY <1>1, <1>2, <1>5, <3>2
        <3> QED BY <3>1, <3>2
    <2> QED BY <2>1, AtIs
<1>6. ASSUME NEW f \in DOMAIN functionStep', NEW v, v = functionStep'[f]
      PROVE  /\ At(v).call = f[1]
             /\ (\E i \in DOMAIN trace : IsBodyOf(f[1], trace[i])) => IsBodyOf(f[1], At(v))
    <2>1. f \in DOMAIN functionStep /\ f[2] \in {"wrapper", "body"}
        BY <1>1, <1>3, <1>6 DEF Parts
    <2>2. PICK c : c = f[1]
        OBVIOUS
    <2>3. /\ IsAt(v, c)
          /\ (\E i \in DOMAIN trace : IsBodyOf(c, trace[i])) => trace[v + 1].part = "body"
        <3>1. CASE f[2] = "wrapper" /\ RealStep(c) # None
            <4>1. v = RealStep(c)
                BY <1>1, <1>6, <2>1, <2>2, <3>1
            <4> QED BY <1>1, <3>1, <4>1, RealStepIs
        <3>2. CASE f[2] = "wrapper" /\ RealStep(c) = None
            <4>1. v = functionStep[f]
                BY <1>1, <1>6, <2>1, <2>2, <3>2
            <4>2. <<c, "body">> \notin DOMAIN functionStep
                BY <1>1, <3>2, RealStepIs
            <4>3. ~ \E i \in DOMAIN trace : IsBodyOf(c, trace[i])
                BY <1>2, <4>2 DEF IsBodyOf
            <4> QED BY <1>2, <2>1, <2>2, <4>1, <4>3
        <3>3. CASE f[2] = "body"
            <4>1. v = functionStep[f]
                BY <1>1, <1>6, <2>1, <3>3
            <4> QED BY <1>2, <2>1, <2>2, <3>3, <4>1
        <3> QED BY <2>1, <3>1, <3>2, <3>3
    <2>4. At(v) = trace[v + 1] /\ At(v).kind = "location" /\ At(v).call = c
        BY <2>3, AtIs
    <2> QED BY <2>2, <2>3, <2>4 DEF IsBodyOf
<1>7. \A c, s : IsBodyOf(c, s)' <=> IsBodyOf(c, s)
    BY DEF IsBodyOf
<1>8. \A c \in DOMAIN callStep' : At(callStep'[c]).kind = "location" /\ At(callStep'[c]).call = c
    BY <1>5
<1>9. \A f \in DOMAIN functionStep' :
          /\ At(functionStep'[f]).call = f[1]
          /\ (\E i \in DOMAIN trace : IsBodyOf(f[1], trace[i])) => IsBodyOf(f[1], At(functionStep'[f]))
    BY <1>6
<1> QED BY <1>1, <1>8, <1>9 DEF StepsAreOwn, At, IsBodyOf

\* There is one call at most that validates, and one that executes.
LEMMA OneEntry ==
    ASSUME OrdersInv, NEW entry \in {"validate", "execute"}, NEW c \in CallIds, NEW d \in CallIds,
           calls[c].entry = entry, calls[d].entry = entry
    PROVE  c = d
<1>1. CASE entry = "validate"
    BY <1>1 DEF OrdersInv, EntryInv
<1>2. CASE entry = "execute"
    BY <1>2 DEF OrdersInv, EntryInv
<1> QED BY <1>1, <1>2

\* The debugger starts in the body of a call from this entry point down, if
\* one of them has a step.
LEMMA StartIs ==
    ASSUME WalkInv, OrdersInv, StepsInv, pc = "point", NEW entry \in {"validate", "execute"}
    PROVE  /\ StartIn(entry) # None =>
                 \E d \in CallIds : /\ RealStep(d) # None /\ StartIn(entry) = RealStep(d)
                                    /\ \E a \in Path[d] : a \in CallIds /\ calls[a].entry = entry
           /\ StartIn(entry) = None =>
                 \A d \in CallIds : \A a \in Path[d] : calls[a].entry = entry => RealStep(d) = None
<1>1. PICK of : of = {c \in CallIds : calls[c].entry = entry}
    OBVIOUS
<1>2. CASE of = {}
    <2>1. StartIn(entry) = None
        BY <1>1, <1>2 DEF StartIn
    <2>2. \A d \in CallIds : \A a \in Path[d] : calls[a].entry # entry
        BY <1>1, <1>2, ParentIs
    <2> QED BY <2>1, <2>2
<1>3. CASE of # {}
    <2>1. PICK account : account = CHOOSE c \in of : TRUE
        OBVIOUS
    <2>2. account \in CallIds /\ calls[account].entry = entry
        BY <1>1, <1>3, <2>1
    <2>3. \A a \in CallIds : calls[a].entry = entry => a = account
        BY <2>2, OneEntry
    <2>4. StartIn(entry) = IF RealStep(account) # None THEN RealStep(account) ELSE FirstVerified(account)
        BY <1>1, <1>3, <2>1 DEF StartIn
    <2>5. account \in Path[account]
        BY <2>2, ParentIs
    <2>6. CASE RealStep(account) # None
        BY <2>2, <2>4, <2>5, <2>6
    <2>7. CASE RealStep(account) = None
        <3>1. PICK below : below = {d \in CallIds \ {account} : account \in Path[d] /\ RealStep(d) # None}
            OBVIOUS
        <3>2. FirstVerified(account) =
                  IF below = {} THEN None ELSE RealStep(CHOOSE d \in below : \A e \in below : d <= e)
            BY <3>1 DEF FirstVerified
        <3>3. CASE below = {}
            <4>1. ASSUME NEW d \in CallIds, NEW a \in Path[d], calls[a].entry = entry
                  PROVE  RealStep(d) = None
                <5>1. a = account
                    BY <2>3, <4>1, ParentIs
                <5> QED BY <2>7, <3>1, <3>3, <5>1
            <4> QED BY <2>4, <2>7, <3>2, <3>3, <4>1
        <3>4. CASE below # {}
            <4>1. below \subseteq Nat
                BY <3>1, CallsAre
            <4>2. \E d \in below : \A e \in below : d <= e
                BY <3>4, <4>1, Least
            <4>3. PICK d : d = CHOOSE x \in below : \A e \in below : x <= e
                OBVIOUS
            <4>4. d \in below
                BY <4>2, <4>3
            <4>5. d \in CallIds /\ account \in Path[d] /\ RealStep(d) # None
                BY <3>1, <4>4
            <4>6. StartIn(entry) = RealStep(d)
                BY <2>4, <2>7, <3>2, <3>4, <4>3
            <4> QED BY <2>2, <4>5, <4>6
        <3> QED BY <3>3, <3>4
    <2> QED BY <2>6, <2>7
<1> QED BY <1>2, <1>3

LEMMA PointStarts ==
    ASSUME WalkInv, OrdersInv, StepsInv, Point
    PROVE  StartsAtEntryPoint'
<1>1. /\ pc = "point" /\ UNCHANGED <<calls, trace>> /\ DOMAIN functionStep' = DOMAIN functionStep
      /\ initial' = IF StartIn("validate") # None THEN StartIn("validate") ELSE StartIn("execute")
    BY DEF Point, walk
<1>2. CallIds' = CallIds /\ Path' = Path /\ \A v : At(v)' = At(v)
    BY <1>1 DEF CallIds, Path, At
<1>3. PICK accounts : accounts = {c \in CallIds : calls[c].entry \in {"validate", "execute"}}
    OBVIOUS
<1>4. PICK entries : entries = {d \in CallIds : <<d, "body">> \in DOMAIN functionStep
                                                /\ Path[d] \cap accounts # {}}
    OBVIOUS
<1>5. ASSUME NEW entry \in {"validate", "execute"}, StartIn(entry) # None
      PROVE  At(StartIn(entry)).kind = "location" /\ At(StartIn(entry)).call \in entries
    <2>1. PICK d \in CallIds : /\ RealStep(d) # None /\ StartIn(entry) = RealStep(d)
                               /\ \E a \in Path[d] : a \in CallIds /\ calls[a].entry = entry
        BY <1>1, <1>5, StartIs
    <2>2. Path[d] \cap accounts # {}
        BY <1>3, <2>1
    <2>3. <<d, "body">> \in DOMAIN functionStep /\ IsAt(RealStep(d), d)
        BY <1>1, <2>1, RealStepIs
    <2>4. d \in entries
        BY <1>4, <2>2, <2>3
    <2>5. At(RealStep(d)).kind = "location" /\ At(RealStep(d)).call = d
        BY <2>3, AtIs
    <2> QED BY <2>1, <2>4, <2>5
<1>6. CASE initial' # None
    <2>1. PICK entry \in {"validate", "execute"} : initial' = StartIn(entry)
        BY <1>1
    <2>2. At(initial').kind = "location" /\ At(initial').call \in entries
        BY <1>5, <1>6, <2>1
    <2> QED BY <1>1, <1>2, <1>3, <1>4, <1>6, <2>2 DEF StartsAtEntryPoint, At
<1>7. CASE initial' = None
    <2>1. StartIn("validate") = None /\ StartIn("execute") = None
        BY <1>1, <1>7
    <2>2. ASSUME NEW d \in entries PROVE FALSE
        <3>1. PICK a \in Path[d] \cap accounts : TRUE
            BY <1>4, <2>2
        <3>2. PICK entry \in {"validate", "execute"} : calls[a].entry = entry
            BY <1>3, <3>1
        <3>3. d \in CallIds /\ RealStep(d) # None
            BY <1>1, <1>4, <2>2, RealStepIs
        <3>4. StartIn(entry) = None
            BY <2>1, <3>2
        <3> QED BY <1>1, <3>1, <3>2, <3>3, <3>4, StartIs
    <2>3. entries = {}
        BY <2>2
    <2> QED BY <1>1, <1>2, <1>3, <1>4, <1>7, <2>3 DEF StartsAtEntryPoint
<1> QED BY <1>6, <1>7

LEMMA StepWalked ==
    ASSUME WalkInv, BuildInv, DebugInv, OrdersInv, MergeInv, StepsInv,
           DebuggerWalksCalls, [Next]_vars
    PROVE  DebuggerWalksCalls'
<1>1. Debugged' => MergedOnce'
    <2>1. DebugInv' /\ MergeInv'
        BY StepDebug, StepMerged
    <2>2. (DebugInv /\ MergeInv /\ Debugged => MergedOnce)'
        BY OnceMerged, PTL
    <2> QED BY <2>1, <2>2
<1>2. CASE Point
    BY <1>1, <1>2, PointSteps, PointStarts DEF DebuggerWalksCalls
<1>3. CASE UNCHANGED vars
    <2>1. UNCHANGED <<calls, functions, shape, trace, callStep, functionStep, initial, pc, result>>
        BY <1>3 DEF vars, walk, built, report, debug
    <2>2. (StepsAreOwn' <=> StepsAreOwn) /\ (StartsAtEntryPoint' <=> StartsAtEntryPoint)
        BY <2>1 DEF StepsAreOwn, StartsAtEntryPoint, At, IsBodyOf, Path, CallIds
    <2> QED BY <1>1, <2>1, <2>2 DEF DebuggerWalksCalls, Debugged
<1>4. CASE ~Debugged'
    BY <1>4 DEF DebuggerWalksCalls
<1>5. CASE Walk
    <2>1. pc' \in {"walk", "ready"}
        BY <1>5 DEF Walk, EnterCall, EmitEvent, LeaveCall
    <2> QED BY <1>4, <2>1 DEF Debugged
<1>6. CASE Build
    <2>1. pc' = "build" \/ result' = "error"
        BY <1>6 DEF Build, Begin, MapCall, MapBroken
    <2> QED BY <1>4, <2>1 DEF Debugged
<1>7. CASE Crash \/ \E receipt \in BOOLEAN : Report(receipt)
    <2>1. result' \in {"crash", "reverted", "succeeded"}
        BY <1>7 DEF Crash, Report
    <2> QED BY <1>4, <2>1 DEF Debugged
<1>8. CASE Merge \/ MergeLocation \/ MergeCall \/ MergeNoTrace \/ Inherit
    <2>1. pc' \in {"merge", "point"}
        BY <1>8 DEF Merge, MergeLocation, MergeCall, MergeNoTrace, Kept, Merging, Inherit
    <2> QED BY <1>4, <2>1 DEF Debugged
<1> QED BY <1>2, <1>3, <1>5, <1>6, <1>7, <1>8 DEF Next

\* The debugger's trace goes through every call that is reached once and in
\* order, calls and functions are shown at steps of their own, and it starts in
\* the account's entry point or below (debugger_trace.rs, debugger.rs), for
\* call trees, traces and events of any size.
THEOREM DebuggerWalksCallsCorrect == Spec => []DebuggerWalksCalls
<1>1. Init => DebuggerWalksCalls
    BY DEF Init, WalkInit, DebuggerWalksCalls, Debugged
<1>2. WalkInv /\ BuildInv /\ DebugInv /\ OrdersInv /\ MergeInv /\ StepsInv /\ DebuggerWalksCalls
          /\ [Next]_vars => DebuggerWalksCalls'
    BY StepWalked
<1> QED BY <1>1, <1>2, WalkInvCorrect, BuildInvCorrect, DebugInvCorrect, OrdersInvCorrect,
           MergeInvCorrect, StepsInvCorrect, PTL DEF Spec
=============================================================================
