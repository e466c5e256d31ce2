------------------------ MODULE TransactionRunProofs ------------------------
(***************************************************************************)
(* A transaction that is run again, for any chain and whoever verifies and *)
(* compiles classes meanwhile.  Four inductive invariants, the later ones  *)
(* on the earlier:                                                         *)
(*                                                                         *)
(*   SourcesInv   of every build, where it can have come from: the trace   *)
(*                is mapped by the code that was executed;                 *)
(*   TypeInv      the types, and what is asked for: a transaction that is  *)
(*                run by its hash finds its own place;                     *)
(*   ForkingInv   the cache over the block before is the chain at the      *)
(*                place of the replay: what is read is what was before;    *)
(*   WrittenInv   what the calls have written is in the cache: the changes *)
(*                are shown with their values from before.                 *)
(*                                                                         *)
(* SourcesInv leaves the answers of the node open; the others take the     *)
(* recursion of StateAt apart by the least index at which it goes wrong.   *)
(***************************************************************************)
EXTENDS TransactionRun, SequenceTheorems, WellFoundedInduction, TLAPS

\* The build that a debug trace has for a class, as things are.
Source(x) ==
    IF x \in inCache THEN "voyager" ELSE IF x \in inTables THEN "walnut" ELSE "original"

DeclaredEarlier(x) == \E i \in 1..index : x \in chain[block][i].effect.declare

\* What may have run: in a debug trace the build of now, unless builds of the
\* class have changed or were missed, or the code of the chain if the fork has
\* declared the class itself.
Ran(x, build) ==
    IF args.mode = "debug"
    THEN x \in changed \/ build = Source(x) \/ (build = "original" /\ DeclaredEarlier(x))
    ELSE build = "original"

Shows(x, build) ==
    IF args.mode = "debug"
    THEN \/ x \in changed
         \/ x \in inTables /\ build = "walnut"
         \/ x \in inCache \ inTables /\ build = "voyager"
    ELSE build = "original"

Early == {"ask", "transaction", "receipt", "message", "block"}

CompiledRuns == \A x \in DOMAIN cache.compiled : Ran(x, cache.compiled[x])
CallsRan == \A i \in DOMAIN calls : calls[i].build # None => Ran(calls[i].class, calls[i].build)
DataShown == \A x \in DOMAIN data : Shows(x, data[x])
SourcesInv ==
    /\ args.mode \in {"simple", "debug"}
    /\ pc \in Early => DOMAIN cache.compiled = {} /\ calls = <<>> /\ DOMAIN data = {}
    /\ "compiled" \in DOMAIN cache
    /\ index \in Nat
    /\ replayed \in Nat
    /\ \E K : calls \in Seq(K)
    /\ CompiledRuns /\ CallsRan /\ DataShown

\* The invariant is all that the property needs: a steady class has a build
\* in one place, or in none.
LEMMA SourcesMapped ==
    ASSUME SourcesInv
    PROVE  MappedIsExecuted
<1> SUFFICES ASSUME NEW i \in DOMAIN calls, calls[i].build # None,
                    calls[i].class \in DOMAIN data,
                    ~(args.mode = "debug" /\ ~Steady(calls[i].class))
             PROVE  data[calls[i].class] = calls[i].build
    BY DEF MappedIsExecuted
<1> DEFINE x == calls[i].class
<1>1. Ran(x, calls[i].build) /\ Shows(x, data[x])
    BY DEF SourcesInv, CallsRan, DataShown
<1>2. CASE args.mode = "debug"
    <2>1. Steady(x)
        BY <1>2
    <2> QED BY <1>1, <1>2, <2>1 DEF Ran, Shows, Steady, Source, DeclaredEarlier
<1>3. CASE args.mode # "debug"
    BY <1>1, <1>3 DEF Ran, Shows
<1> QED BY <1>2, <1>3

LEMMA InitSources == Init => SourcesInv
<1> SUFFICES ASSUME Init PROVE SourcesInv
    OBVIOUS
<1>1. /\ args.mode = "simple"
      /\ DOMAIN cache.compiled = {} /\ calls = <<>> /\ DOMAIN data = {}
      /\ "compiled" \in DOMAIN cache /\ index = 0 /\ replayed = 0
    BY DEF Init, NoArgs, Empty
<1>2. calls \in Seq({}) /\ DOMAIN calls = {}
    BY <1>1
<1> QED BY <1>1, <1>2 DEF SourcesInv, CompiledRuns, CallsRan, DataShown

\* Where a class has its builds is as before, or it is a changed one.
Settled ==
    /\ UNCHANGED <<chain, args, block, index>>
    /\ changed \subseteq changed'
    /\ \A x : x \notin changed' => /\ x \in inCache <=> x \in inCache'
                                   /\ x \in inTables <=> x \in inTables'

LEMMA RanStays ==
    ASSUME Settled, NEW x, NEW build
    PROVE  /\ Ran(x, build) => Ran(x, build)'
           /\ Shows(x, build) => Shows(x, build)'
BY DEF Settled, Ran, Shows, Source, DeclaredEarlier

\* Steps before the fork: nothing was compiled, executed or shown.
LEMMA EarlyStep ==
    ASSUME SourcesInv, pc \in Early, UNCHANGED <<cache, calls, data, replayed>>,
           args'.mode \in {"simple", "debug"}, index' \in Nat
    PROVE  SourcesInv'
<1>1. /\ DOMAIN cache.compiled = {} /\ calls = <<>> /\ DOMAIN data = {}
    BY DEF SourcesInv
<1>2. DOMAIN calls = {} /\ calls \in Seq({})
    BY <1>1
<1> QED BY <1>1, <1>2 DEF SourcesInv, CompiledRuns, CallsRan, DataShown

\* Steps that change what is compiled, called and shown after it.
LEMMA CodeStep ==
    ASSUME SourcesInv, pc \notin Early, pc' \notin Early, UNCHANGED <<args, index>>,
           replayed' \in Nat, "compiled" \in DOMAIN cache', \E K : calls' \in Seq(K),
           CompiledRuns', CallsRan', DataShown'
    PROVE  SourcesInv'
BY DEF SourcesInv

\* What a step leaves alone is still so.
LEMMA StillRan ==
    ASSUME SourcesInv, Settled
    PROVE  /\ UNCHANGED cache => CompiledRuns'
           /\ UNCHANGED calls => CallsRan'
           /\ UNCHANGED data => DataShown'
<1>1. \A x, build : (Ran(x, build) => Ran(x, build)') /\ (Shows(x, build) => Shows(x, build)')
    BY RanStays
<1>2. UNCHANGED cache => CompiledRuns'
    BY <1>1 DEF SourcesInv, CompiledRuns
<1>3. UNCHANGED calls => CallsRan'
    BY <1>1 DEF SourcesInv, CallsRan
<1>4. UNCHANGED data => DataShown'
    BY <1>1 DEF SourcesInv, DataShown
<1> QED BY <1>2, <1>3, <1>4

LEMMA LateStep ==
    ASSUME SourcesInv, Settled, pc \notin Early, pc' \notin Early,
           replayed' \in Nat, UNCHANGED <<cache, calls, data>>
    PROVE  SourcesInv'
<1>1. CompiledRuns' /\ CallsRan' /\ DataShown'
    BY StillRan
<1>2. UNCHANGED <<args, index>>
    BY DEF Settled
<1>3. "compiled" \in DOMAIN cache' /\ \E K : calls' \in Seq(K)
    BY DEF SourcesInv
<1> QED BY <1>1, <1>2, <1>3, CodeStep

-----------------------------------------------------------------------------
(* The steps that compile, run and show code *)

\* The reader gives out code that may be run, or has missed the class.
LEMMA CompiledRan ==
    ASSUME SourcesInv, NEW x, CompiledClass(x) # None
    PROVE  Ran(x, CompiledClass(x))
<1>1. CASE x \in DOMAIN cache.compiled
    BY <1>1 DEF SourcesInv, CompiledRuns, CompiledClass
<1>2. CASE x \notin DOMAIN cache.compiled
    BY <1>2 DEF SourcesInv, CompiledClass, InlineAllowed, Ran, Source
<1> QED BY <1>1, <1>2

LEMMA LookupRan ==
    ASSUME SourcesInv, Settled, NEW x, NEW b, Lookup(x, b), b # None
    PROVE  Ran(x, b)'
<1>1. CASE b = CompiledClass(x)
    <2>1. Ran(x, b)
        BY <1>1, CompiledRan
    <2> QED BY <2>1, RanStays
<1>2. CASE b \in MissedClass(x) /\ x \in changed'
    <2>1. args.mode = "debug"
        BY <1>2 DEF MissedClass, InlineAllowed
    <2> QED BY <1>2, <2>1 DEF Ran, Settled
<1> QED BY <1>1, <1>2 DEF Lookup

\* A map with an entry that is added unless there is none.
Given(f, x, v) == IF v = None THEN f ELSE Over(f, [y \in {x} |-> v])

LEMMA CompiledKept ==
    ASSUME SourcesInv, Settled, NEW x, NEW b, b # None => Ran(x, b)',
           cache'.compiled = Given(cache.compiled, x, b)
    PROVE  CompiledRuns'
<1>1. PICK f, h : f = cache.compiled /\ h = cache'.compiled
    OBVIOUS
<1>2. \A y \in DOMAIN h : (y = x /\ b # None /\ h[y] = b) \/ (y \in DOMAIN f /\ h[y] = f[y])
    <2>1. CASE b = None
        BY <1>1, <2>1 DEF Given
    <2>2. CASE b # None
        <3>1. PICK g : g = [y \in {x} |-> b] /\ h = Over(f, g)
            BY <1>1, <2>2 DEF Given
        <3>2. DOMAIN g = {x} /\ g[x] = b
            BY <3>1
        <3> QED BY <2>2, <3>1, <3>2 DEF Over
    <2> QED BY <2>1, <2>2
<1>3. \A y \in DOMAIN f : Ran(y, f[y])
    BY <1>1 DEF SourcesInv, CompiledRuns
<1>4. \A y, build : Ran(y, build) => Ran(y, build)'
    BY RanStays
<1>5. \A y \in DOMAIN h : Ran(y, h[y])'
    BY <1>2, <1>3, <1>4
<1> QED BY <1>1, <1>5 DEF CompiledRuns

\* A call that has run code that may be run.
LEMMA CallAdded ==
    ASSUME SourcesInv, Settled, NEW call, call.build # None => Ran(call.class, call.build)',
           calls' = Append(calls, call)
    PROVE  (\E K : calls' \in Seq(K)) /\ CallsRan'
<1>1. PICK K : calls \in Seq(K)
    BY DEF SourcesInv
<1>2. calls \in Seq(K \cup {call})
    BY <1>1, SeqMonotonic
<1>3. /\ calls' \in Seq(K \cup {call}) /\ Len(calls') = Len(calls) + 1
      /\ \A i \in 1..Len(calls) : calls'[i] = calls[i]
      /\ calls'[Len(calls) + 1] = call
    BY <1>2, AppendProperties
<1>4. /\ DOMAIN calls = 1..Len(calls) /\ DOMAIN calls' = 1..Len(calls') /\ Len(calls) \in Nat
    BY <1>2, <1>3, LenProperties
<1>5. \A i \in DOMAIN calls' : (i \in DOMAIN calls /\ calls'[i] = calls[i]) \/ calls'[i] = call
    BY <1>3, <1>4
<1>6. \A x, build : Ran(x, build) => Ran(x, build)'
    BY RanStays
<1>7. PICK made : made = calls'
    OBVIOUS
<1>8. \A i \in DOMAIN made : made[i].build # None => Ran(made[i].class, made[i].build)'
    BY <1>5, <1>6, <1>7 DEF SourcesInv, CallsRan
<1>9. CallsRan'
    BY <1>7, <1>8 DEF CallsRan
<1> QED BY <1>3, <1>9

LEMMA CallContractSources ==
    ASSUME SourcesInv, NEW c \in Contracts, CallContract(c)
    PROVE  SourcesInv'
<1>1. /\ pc \notin Early /\ pc' \notin Early
      /\ UNCHANGED <<chain, sources, args, block, index, replayed, data>>
    BY DEF CallContract, Executing, Early
<1>2. Settled /\ "compiled" \in DOMAIN cache
    BY <1>1 DEF CallContract, Lookup, Settled, sources, SourcesInv
<1>3. PICK class, b :
          /\ Called(c, class, b)
          /\ Lookup(class, b) \/ b = None
          /\ "compiled" \in DOMAIN cache'
          /\ cache'.compiled = Given(cache.compiled, class, b)
    <2>1. CASE Called(c, None, None) /\ UNCHANGED cache
        BY <1>2, <2>1 DEF Given
    <2>2. CASE \E b \in Build \cup {None} :
                  /\ Lookup(ClassHashAt(c), b) /\ Called(c, ClassHashAt(c), b)
                  /\ cache' = [cache EXCEPT
                              !.class = IF ClassHashAt(c) = None THEN @
                                        ELSE Over(@, [x \in {c} |-> ClassHashAt(c)]),
                              !.compiled = Compiles(ClassHashAt(c), b)]
        <3>1. PICK class : class = ClassHashAt(c)
            OBVIOUS
        <3>2. PICK b : /\ Lookup(class, b) /\ Called(c, class, b)
                       /\ cache' = [cache EXCEPT
                              !.class = IF class = None THEN @ ELSE Over(@, [x \in {c} |-> class]),
                              !.compiled = Compiles(class, b)]
            BY <2>2, <3>1
        <3>3. "compiled" \in DOMAIN cache' /\ cache'.compiled = Compiles(class, b)
            BY <1>2, <3>2
        <3>4. Compiles(class, b) = Given(cache.compiled, class, b)
            BY DEF Compiles, Given
        <3> QED BY <3>2, <3>3, <3>4
    <2> QED BY <2>1, <2>2 DEF CallContract
<1>4. b # None => Ran(class, b)'
    BY <1>2, <1>3, LookupRan
<1>5. PICK call : /\ calls' = Append(calls, call)
                  /\ call = [contract |-> c, class |-> class, build |-> b, writes |-> None]
    BY <1>3 DEF Called
<1>6. call.class = class /\ call.build = b
    BY <1>5
<1>7. (\E K : calls' \in Seq(K)) /\ CallsRan'
    BY <1>2, <1>4, <1>5, <1>6, CallAdded
<1>8. CompiledRuns'
    BY <1>2, <1>3, <1>4, CompiledKept
<1>9. DataShown' /\ replayed' \in Nat
    BY <1>1, <1>2, StillRan DEF SourcesInv
<1> QED BY <1>1, <1>3, <1>7, <1>8, <1>9, CodeStep

LEMMA DeployContractSources ==
    ASSUME SourcesInv, NEW c \in Contracts, NEW x \in Classes, DeployContract(c, x)
    PROVE  SourcesInv'
<1>1. /\ pc \notin Early /\ pc' \notin Early
      /\ UNCHANGED <<chain, sources, args, block, index, replayed, data>>
    BY DEF DeployContract, Executing, Early
<1>2. Settled /\ "compiled" \in DOMAIN cache
    BY <1>1 DEF DeployContract, Lookup, Settled, sources, SourcesInv
<1>3. PICK b : /\ Lookup(x, b) /\ Called(c, x, b)
               /\ cache' = [cache EXCEPT !.compiled = Compiles(x, b)]
    BY DEF DeployContract
<1>4. "compiled" \in DOMAIN cache' /\ cache'.compiled = Given(cache.compiled, x, b)
    <2>1. Compiles(x, b) = Given(cache.compiled, x, b)
        BY DEF Compiles, Given
    <2> QED BY <1>2, <1>3, <2>1
<1>5. b # None => Ran(x, b)'
    BY <1>2, <1>3, LookupRan
<1>6. PICK call : /\ calls' = Append(calls, call)
                  /\ call = [contract |-> c, class |-> x, build |-> b, writes |-> None]
    BY <1>3 DEF Called
<1>7. call.class = x /\ call.build = b
    BY <1>6
<1>8. (\E K : calls' \in Seq(K)) /\ CallsRan'
    BY <1>2, <1>5, <1>6, <1>7, CallAdded
<1>9. CompiledRuns'
    BY <1>2, <1>4, <1>5, CompiledKept
<1>10. DataShown' /\ replayed' \in Nat
    BY <1>1, <1>2, StillRan DEF SourcesInv
<1> QED BY <1>1, <1>4, <1>8, <1>9, <1>10, CodeStep

LEMMA WriteSources ==
    ASSUME SourcesInv, NEW v \in Values, Write(v)
    PROVE  SourcesInv'
<1> DEFINE last == Len(calls)
<1>1. /\ pc \in {"validate", "execute"} /\ pc' = pc
      /\ UNCHANGED <<args, block, index, replayed, data>> /\ Run
      /\ calls # <<>> /\ calls' = [calls EXCEPT ![last].writes = v]
      /\ cache' = [cache EXCEPT !.storage = StorageKept(calls[last].contract)]
    BY DEF Write, Executing
<1>2. "compiled" \in DOMAIN cache' /\ cache'.compiled = cache.compiled
    BY <1>1 DEF SourcesInv
<1>3. PICK K : calls \in Seq(K)
    BY DEF SourcesInv
<1>4. DOMAIN calls = 1..Len(calls) /\ Len(calls) \in Nat /\ last \in 1..Len(calls)
    BY <1>1, <1>3, LenProperties, EmptySeq
<1>5. PICK call : call = [calls[last] EXCEPT !.writes = v]
    OBVIOUS
<1>6. calls' = [calls EXCEPT ![last] = call]
    BY <1>1, <1>5
<1>7. call.build = calls[last].build /\ call.class = calls[last].class
    BY <1>5
<1>8. calls \in Seq(K \cup {call})
    BY <1>3, SeqMonotonic
<1>9. /\ calls' \in Seq(K \cup {call}) /\ DOMAIN calls' = DOMAIN calls
      /\ \A i \in DOMAIN calls : calls'[i] = IF i = last THEN call ELSE calls[i]
    <2>1. calls' \in Seq(K \cup {call}) /\ Len(calls') = Len(calls)
          /\ \A i \in 1..Len(calls) : calls'[i] = IF i = last THEN call ELSE calls[i]
        BY <1>4, <1>6, <1>8, ExceptSeq
    <2>2. DOMAIN calls' = 1..Len(calls')
        BY <2>1, LenProperties
    <2> QED BY <1>4, <2>1, <2>2
<1>10. Settled
    BY <1>1 DEF Settled, Run, sources
<1>11. CallsRan'
    <2>1. \A x, build : Ran(x, build) => Ran(x, build)'
        BY <1>10, RanStays
    <2>2. PICK after : after = calls'
        OBVIOUS
    <2>3. \A i \in DOMAIN after : after[i].build # None => Ran(after[i].class, after[i].build)'
        BY <1>4, <1>7, <1>9, <2>1, <2>2 DEF SourcesInv, CallsRan
    <2> QED BY <2>2, <2>3 DEF CallsRan
<1>12. CompiledRuns'
    <2>1. cache'.compiled = Given(cache.compiled, None, None)
        BY <1>2 DEF Given
    <2> QED BY <1>10, <2>1, CompiledKept
<1>13. /\ DataShown' /\ replayed' \in Nat /\ pc \notin Early /\ pc' \notin Early
       /\ \E L : calls' \in Seq(L)
    BY <1>1, <1>9, <1>10, StillRan DEF SourcesInv, Early
<1> QED BY <1>1, <1>2, <1>11, <1>12, <1>13, CodeStep

\* The replay compiles the code of classes that were declared before.
LEMMA ReplaySources ==
    ASSUME SourcesInv, ReplayTransaction
    PROVE  SourcesInv'
<1> DEFINE effect == chain[block][replayed + 1].effect
<1>1. /\ pc = "replay" /\ pc' = pc /\ replayed < index /\ replayed' = replayed + 1
      /\ UNCHANGED <<args, block, index, calls, data>> /\ Run
    BY DEF ReplayTransaction
<1>2. PICK got \in SUBSET effect.declare :
          cache' = [storage |-> Over(cache.storage, effect.storage),
                    class |-> Over(cache.class, effect.deploy),
                    compiled |-> Over(cache.compiled, [x \in got |-> "original"])]
    BY DEF ReplayTransaction
<1>3. "compiled" \in DOMAIN cache' /\ cache'.compiled = Over(cache.compiled, [x \in got |-> "original"])
    BY <1>2
<1>4. /\ DOMAIN cache'.compiled = DOMAIN cache.compiled \cup got
      /\ \A x \in got : cache'.compiled[x] = "original"
      /\ \A x \in DOMAIN cache.compiled \ got : cache'.compiled[x] = cache.compiled[x]
    BY <1>3 DEF Over
<1>5. replayed + 1 \in 1..index
    BY <1>1 DEF SourcesInv
<1>6. Settled
    BY <1>1 DEF Settled, Run, sources
<1>7. \A x \in got : Ran(x, "original")'
    <2>1. \A x \in got : Ran(x, "original")
        BY <1>2, <1>5 DEF Ran, DeclaredEarlier
    <2> QED BY <1>6, <2>1, RanStays
<1>8. CompiledRuns'
    <2>1. \A x, build : Ran(x, build) => Ran(x, build)'
        BY <1>6, RanStays
    <2>2. PICK after : after = cache'.compiled
        OBVIOUS
    <2>3. \A x \in DOMAIN after : Ran(x, after[x])'
        BY <1>4, <1>7, <2>1, <2>2 DEF SourcesInv, CompiledRuns
    <2> QED BY <2>2, <2>3 DEF CompiledRuns
<1>9. /\ replayed' \in Nat /\ pc \notin Early /\ pc' \notin Early /\ CallsRan' /\ DataShown'
      /\ \E K : calls' \in Seq(K)
    BY <1>1, <1>6, StillRan DEF SourcesInv, Early
<1> QED BY <1>1, <1>3, <1>8, <1>9, CodeStep

\* The data of the classes is that of now, but for the classes that are missed.
LEMMA FetchSources ==
    ASSUME SourcesInv, FetchClasses
    PROVE  SourcesInv'
<1>1. /\ pc = "classes" /\ pc' = "map"
      /\ UNCHANGED <<chain, sources, args, block, index, replayed, cache, calls>>
    BY DEF FetchClasses
<1>2. PICK missed : /\ data' = [x \in Executed \cap ((inTables \ missed) \cup inCache) |-> DataOf(x, missed)]
                    /\ changed' = changed \cup missed
    BY DEF FetchClasses
<1>3. Settled
    BY <1>1, <1>2 DEF Settled, sources
<1>4. DataShown'
    <2>1. PICK shown : shown = data'
        OBVIOUS
    <2>2. ASSUME NEW x \in DOMAIN shown
          PROVE  Shows(x, shown[x])'
        <3>1. shown[x] = DataOf(x, missed) /\ x \in (inTables \ missed) \cup inCache
            BY <1>2, <2>1, <2>2
        <3>2. /\ args' = args /\ inCache' = inCache /\ inTables' = inTables
              /\ args.mode \in {"simple", "debug"}
            BY <1>1 DEF sources, SourcesInv
        <3>3. CASE args.mode = "simple"
            BY <3>1, <3>2, <3>3 DEF Shows, DataOf
        <3>4. CASE args.mode = "debug"
            BY <1>2, <3>1, <3>2, <3>4 DEF Shows, DataOf
        <3> QED BY <3>2, <3>3, <3>4
    <2> QED BY <2>1, <2>2 DEF DataShown
<1>5. /\ replayed' \in Nat /\ pc \notin Early /\ pc' \notin Early
      /\ "compiled" \in DOMAIN cache' /\ \E K : calls' \in Seq(K)
      /\ CompiledRuns' /\ CallsRan'
    BY <1>1, <1>3, StillRan DEF SourcesInv, Early
<1> QED BY <1>1, <1>4, <1>5, CodeStep

-----------------------------------------------------------------------------
(* All steps *)

LEMMA Least ==
    ASSUME NEW T, T \subseteq Nat, T # {}
    PROVE  \E x \in T : \A y \in T : x <= y
<1> DEFINE R == {ss \in Nat \X Nat : ss[1] < ss[2]}
<1>1. IsWellFoundedOn(R, Nat)
    BY NatLessThanWellFounded DEF OpToRel
<1> HIDE DEF R
<1>2. PICK x \in T : \A y \in T : ~(<<y, x>> \in R)
    BY <1>1, WFMin
<1>3. \A y \in T : ~(y < x)
    BY <1>2 DEF R
<1> QED BY <1>3

LEMMA AskSources ==
    ASSUME SourcesInv, AskByHash \/ AskDebug \/ AskByArguments \/ AskByMessage
    PROVE  SourcesInv'
<1>1. /\ pc \in Early /\ Run /\ UNCHANGED <<index, replayed, cache, calls, data>>
    BY DEF AskByHash, AskDebug, AskByArguments, AskByMessage, NotRun, Early
<1>2. args'.mode \in {"simple", "debug"}
    <2>1. CASE \E mode \in {"simple", "debug"} : \E by, own : args' = Submitted(mode, by, own)
        <3>1. PICK mode \in {"simple", "debug"} : \E by, own : args' = Submitted(mode, by, own)
            BY <2>1
        <3>2. PICK by, own : args' = Submitted(mode, by, own)
            BY <3>1
        <3> QED BY <3>2 DEF Submitted
    <2>2. CASE args' \in MadeUp
        BY <2>2, MadeUpAssumption DEF Args
    <2>3. CASE args' = args
        BY <2>3 DEF SourcesInv
    <2>4. \/ \E mode \in {"simple", "debug"} : \E by, own : args' = Submitted(mode, by, own)
          \/ args' \in MadeUp \/ args' = args
        <3>1. CASE AskByHash
            BY <3>1 DEF AskByHash
        <3>2. CASE AskDebug
            BY <3>2 DEF AskDebug
        <3>3. CASE AskByArguments
            BY <3>3 DEF AskByArguments
        <3>4. CASE AskByMessage
            BY <3>4 DEF AskByMessage
        <3> QED BY <3>1, <3>2, <3>3, <3>4
    <2> QED BY <2>1, <2>2, <2>3, <2>4
<1>3. index' \in Nat
    BY <1>1 DEF SourcesInv
<1> QED BY <1>1, <1>2, <1>3, EarlyStep

LEMMA PlaceSources ==
    ASSUME SourcesInv, FindBlockOfMessage \/ FetchTransaction \/ FetchReceipt \/ ExtractBlock
    PROVE  SourcesInv'
<1>1. /\ pc \in Early /\ Run /\ UNCHANGED <<replayed, cache, calls, data, args>>
    BY DEF FindBlockOfMessage, FetchTransaction, FetchReceipt, ExtractBlock, NotRun, Early
<1>2. index' \in Nat
    <2>1. CASE UNCHANGED index
        BY <2>1 DEF SourcesInv
    <2>2. CASE index' = extract_transaction_index
        <3> DEFINE hits == {i \in 1..Len(chain[block]) : match_transaction(chain[block][i])}
                   first == CHOOSE i \in hits : \A j \in hits : i <= j
        <3>1. hits \subseteq Nat \ {0}
            OBVIOUS
        <3>2. CASE hits = {}
            BY <2>2, <3>2 DEF extract_transaction_index
        <3>3. CASE hits # {}
            <4>1. \E i \in hits : \A j \in hits : i <= j
                <5> HIDE DEF hits
                <5> QED BY <3>1, <3>3, Least
            <4>2. first \in hits
                BY <4>1
            <4>3. index' = first - 1
                BY <2>2, <3>3 DEF extract_transaction_index
            <4> HIDE DEF first, hits
            <4> QED BY <3>1, <4>2, <4>3
        <3> QED BY <3>2, <3>3
    <2> QED BY <2>1, <2>2 DEF FindBlockOfMessage, FetchTransaction, FetchReceipt, ExtractBlock, NotRun
<1>3. args'.mode \in {"simple", "debug"}
    BY <1>1 DEF SourcesInv
<1> QED BY <1>1, <1>2, <1>3, EarlyStep

LEMMA LateSources ==
    ASSUME SourcesInv,
           PrepareStorageView \/ EndReplay \/ EndExecution \/ PostExec \/ MapCalls \/ FetchBefore
    PROVE  SourcesInv'
<1>1. /\ pc \notin Early /\ pc' \notin Early /\ Run
      /\ UNCHANGED <<args, block, index, replayed, cache, calls, data>>
    BY DEF PrepareStorageView, EndReplay, EndExecution, PostExec, MapCalls, FetchBefore,
           NotRun, Stop, Executing, Early
<1>2. replayed' \in Nat
    BY <1>1 DEF SourcesInv
<1>3. Settled
    BY <1>1 DEF Settled, Run, sources
<1> QED BY <1>1, <1>2, <1>3, LateStep

\* Others only touch builds of classes that then count as changed.
LEMMA OthersSources ==
    ASSUME SourcesInv, Others \/ UNCHANGED vars
    PROVE  SourcesInv'
<1>1. /\ UNCHANGED <<pc, args, index, cache, calls, data, replayed>> /\ Settled
    BY DEF Others, Compiled, Lapsed, Verified, vars, Settled
<1>2. CompiledRuns' /\ CallsRan' /\ DataShown'
    BY <1>1, StillRan
<1> QED BY <1>1, <1>2 DEF SourcesInv

LEMMA StepSources == SourcesInv /\ [Next]_vars => SourcesInv'
<1> SUFFICES ASSUME SourcesInv, [Next]_vars PROVE SourcesInv'
    OBVIOUS
<1>1. CASE AskByHash \/ AskDebug \/ AskByArguments \/ AskByMessage
    BY <1>1, AskSources
<1>2. CASE FindBlockOfMessage \/ FetchTransaction \/ FetchReceipt \/ ExtractBlock
    BY <1>2, PlaceSources
<1>3. CASE PrepareStorageView \/ EndReplay \/ EndExecution \/ PostExec \/ MapCalls \/ FetchBefore
    BY <1>3, LateSources
<1>4. CASE Others \/ UNCHANGED vars
    BY <1>4, OthersSources
<1>5. CASE ReplayTransaction
    BY <1>5, ReplaySources
<1>6. CASE FetchClasses
    BY <1>6, FetchSources
<1>7. CASE \E c \in Contracts : CallContract(c)
    BY <1>7, CallContractSources
<1>8. CASE \E c \in Contracts, x \in Classes : DeployContract(c, x)
    BY <1>8, DeployContractSources
<1>9. CASE \E v \in Values : Write(v)
    BY <1>9, WriteSources
<1> QED BY <1>1, <1>2, <1>3, <1>4, <1>5, <1>6, <1>7, <1>8, <1>9 DEF Next

\* The inductive invariant: every build that was compiled, executed or
\* fetched is of a source that has it (state.rs, simulate.rs, debugger.rs).
THEOREM SourcesInvCorrect == Spec => []SourcesInv
BY InitSources, StepSources, PTL DEF Spec

\* The trace is mapped by the code that was executed, whatever the chain is
\* and whoever compiles and verifies classes meanwhile.
THEOREM MappedIsExecutedCorrect == Spec => []MappedIsExecuted
BY SourcesInvCorrect, SourcesMapped, PTL

-----------------------------------------------------------------------------
(* What the recursion of the chain defines *)

\* A function that is given by its first value and by what follows each value
\* exists.
Follows(f, first, n, next) ==
    f[0] = first /\ \A j \in 1..n : f[j] = next[<<j, f[j - 1]>>]

LEMMA Iterated ==
    ASSUME NEW S, NEW first \in S, NEW N \in Nat, NEW next \in [(1..N) \X S -> S]
    PROVE  \E f \in [0..N -> S] : Follows(f, first, N, next)
<1> USE DEF Follows
<1> DEFINE Goes(f, n) == Follows(f, first, n, next)
           Upto(n) == \E f \in [0..n -> S] : Goes(f, n)
           T == {n \in 0..N : ~Upto(n)}
<1> SUFFICES ASSUME T # {} PROVE FALSE
    BY DEF Upto, Goes
<1>1. PICK n \in T : \A m \in T : n <= m
    <2>1. T \subseteq Nat
        OBVIOUS
    <2> HIDE DEF T
    <2> QED BY <2>1, Least
<1>2. n \in 0..N /\ ~Upto(n)
    OBVIOUS
<1>3. Upto(0)
    <2> DEFINE f == [j \in 0..0 |-> first]
    <2>1. f \in [0..0 -> S] /\ Goes(f, 0)
        OBVIOUS
    <2> QED BY <2>1
<1>4. n \in 1..N
    <2>1. n # 0
        BY <1>2, <1>3
    <2> QED BY <1>2, <2>1
<1>5. Upto(n - 1)
    <2>1. n - 1 \in 0..N /\ ~(n <= n - 1)
        BY <1>4
    <2>2. n - 1 \notin T
        BY <1>1, <2>1
    <2> QED BY <2>1, <2>2
<1>6. PICK f \in [0..n - 1 -> S] : Goes(f, n - 1)
    BY <1>5
<1> DEFINE g == [j \in 0..n |-> IF j = n THEN next[<<n, f[n - 1]>>] ELSE f[j]]
<1>7. g \in [0..n -> S]
    <2>1. next[<<n, f[n - 1]>>] \in S
        BY <1>4
    <2>2. \A j \in 0..n : j # n => f[j] \in S
        BY <1>4
    <2> HIDE DEF Goes, Upto, T
    <2> QED BY <2>1, <2>2
<1>8. Goes(g, n)
    <2>1. g[0] = first
        BY <1>4, <1>6
    <2>2. ASSUME NEW j \in 1..n PROVE g[j] = next[<<j, g[j - 1]>>]
        <3>1. j \in 0..n /\ j - 1 \in 0..n /\ j - 1 # n
            BY <1>4
        <3>2. g[j - 1] = f[j - 1]
            BY <3>1
        <3>3. CASE j = n
            BY <3>1, <3>2, <3>3
        <3>4. CASE j # n
            <4>1. j \in 1..n - 1
                BY <1>4, <3>4
            <4> QED BY <1>6, <3>1, <3>2, <3>4, <4>1
        <3> QED BY <3>3, <3>4
    <2> QED BY <2>1, <2>2
<1> HIDE DEF g, Goes
<1> QED BY <1>2, <1>7, <1>8

LEMMA PartialIs ==
    ASSUME NEW S, NEW T, NEW f
    PROVE  f \in Partial(S, T) <=> /\ f = [x \in DOMAIN f |-> f[x]]
                                   /\ DOMAIN f \subseteq S
                                   /\ \A x \in DOMAIN f : f[x] \in T
<1>1. ASSUME f \in Partial(S, T)
      PROVE  /\ f = [x \in DOMAIN f |-> f[x]]
             /\ DOMAIN f \subseteq S
             /\ \A x \in DOMAIN f : f[x] \in T
    <2>1. PICK D \in SUBSET S : f \in [D -> T]
        BY <1>1 DEF Partial
    <2> QED BY <2>1
<1>2. ASSUME f = [x \in DOMAIN f |-> f[x]], DOMAIN f \subseteq S, \A x \in DOMAIN f : f[x] \in T
      PROVE  f \in Partial(S, T)
    <2>1. f \in [DOMAIN f -> T]
        BY <1>2
    <2> QED BY <1>2, <2>1 DEF Partial
<1> QED BY <1>1, <1>2

LEMMA OverIs ==
    ASSUME NEW S, NEW T, NEW f \in Partial(S, T), NEW g \in Partial(S, T)
    PROVE  /\ Over(f, g) \in Partial(S, T)
           /\ DOMAIN Over(f, g) = DOMAIN f \cup DOMAIN g
           /\ \A x \in DOMAIN g : Over(f, g)[x] = g[x]
           /\ \A x \in DOMAIN f \ DOMAIN g : Over(f, g)[x] = f[x]
<1>1. /\ DOMAIN f \subseteq S /\ \A x \in DOMAIN f : f[x] \in T
      /\ DOMAIN g \subseteq S /\ \A x \in DOMAIN g : g[x] \in T
    BY PartialIs
<1>2. PICK h : h = Over(f, g)
    OBVIOUS
<1>3. /\ h = [x \in DOMAIN f \cup DOMAIN g |-> IF x \in DOMAIN g THEN g[x] ELSE f[x]]
    BY <1>2 DEF Over
<1>4. /\ DOMAIN h = DOMAIN f \cup DOMAIN g
      /\ \A x \in DOMAIN g : h[x] = g[x]
      /\ \A x \in DOMAIN f \ DOMAIN g : h[x] = f[x]
    BY <1>3
<1>5. h = [x \in DOMAIN h |-> h[x]]
    BY <1>3
<1>6. h \in Partial(S, T)
    BY <1>1, <1>4, <1>5, PartialIs
<1> QED BY <1>2, <1>4, <1>6

LEMMA AfterState ==
    ASSUME NEW state \in State, NEW tx \in Transaction
    PROVE  After(state, tx) \in State
<1>1. PICK f, g, h :
          /\ f = state.class /\ g = tx.effect.deploy /\ h = tx.effect.replace
    OBVIOUS
<1>2. {f, g, h} \subseteq Partial(Contracts, Classes)
    BY <1>1 DEF State, Transaction, Effect
<1>3. Over(Over(f, g), h) \in Partial(Contracts, Classes)
    BY <1>2, OverIs
<1>4. PICK s, w : s = state.storage /\ w = tx.effect.storage
    OBVIOUS
<1>5. s \in [Contracts -> Values] /\ w \in Partial(Contracts, Values)
    BY <1>4 DEF State, Transaction, Effect
<1>6. s \in Partial(Contracts, Values) /\ DOMAIN w \subseteq Contracts
    BY <1>5, PartialIs
<1>7. PICK t : t = Over(s, w)
    OBVIOUS
<1>8. t \in Partial(Contracts, Values) /\ DOMAIN t = Contracts
    BY <1>5, <1>6, <1>7, OverIs
<1>9. t \in [Contracts -> Values]
    BY <1>8, PartialIs
<1>10. state.declared \cup tx.effect.declare \in SUBSET Classes
    BY DEF State, Transaction, Effect
<1> QED BY <1>1, <1>3, <1>4, <1>7, <1>9, <1>10 DEF After, State

\* What the recursion of Applied defines.
LEMMA AppliedIs ==
    ASSUME NEW state \in State, NEW txs \in Seq(Transaction)
    PROVE  /\ Applied(state, txs, 0) = state
           /\ \A k \in 0..Len(txs) : Applied(state, txs, k) \in State
           /\ \A k \in 1..Len(txs) : Applied(state, txs, k) = After(Applied(state, txs, k - 1), txs[k])
<1> DEFINE next == [p \in (1..Len(txs)) \X State |-> After(p[2], txs[p[1]])]
           after == CHOOSE f : f = [j \in 0..Len(txs) |->
                                       IF j = 0 THEN state ELSE After(f[j - 1], txs[j])]
<1>1. Len(txs) \in Nat /\ \A j \in 1..Len(txs) : txs[j] \in Transaction
    BY LenProperties
<1>2. next \in [(1..Len(txs)) \X State -> State]
    BY <1>1, AfterState
<1>3. PICK f \in [0..Len(txs) -> State] :
          f[0] = state /\ \A j \in 1..Len(txs) : f[j] = next[<<j, f[j - 1]>>]
    <2>1. PICK n, step : n \in Nat /\ n = Len(txs) /\ step = next
        BY <1>1
    <2>2. step \in [(1..n) \X State -> State]
        BY <1>2, <2>1
    <2> HIDE DEF next, after
    <2>3. \E f \in [0..n -> State] : Follows(f, state, n, step)
        BY <2>1, <2>2, Iterated
    <2> QED BY <2>1, <2>3 DEF Follows
<1>4. \A j \in 1..Len(txs) : f[j] = After(f[j - 1], txs[j])
    <2> TAKE j \in 1..Len(txs)
    <2>1. f[j - 1] \in State
        BY <1>1, <1>3
    <2> QED BY <1>3, <2>1
<1>5. f = [j \in 0..Len(txs) |-> IF j = 0 THEN state ELSE After(f[j - 1], txs[j])]
    BY <1>1, <1>3, <1>4
<1>6. after = [j \in 0..Len(txs) |-> IF j = 0 THEN state ELSE After(after[j - 1], txs[j])]
    BY <1>5
<1>7. \A k : Applied(state, txs, k) = after[k]
    BY DEF Applied
<1> HIDE DEF after
<1>8. after[0] = state /\ \A k \in 1..Len(txs) : after[k] = After(after[k - 1], txs[k])
    BY <1>1, <1>6
<1>9. \A k \in 0..Len(txs) : after[k] \in State
    <2> DEFINE T == {k \in 0..Len(txs) : after[k] \notin State}
    <2> SUFFICES ASSUME T # {} PROVE FALSE
        OBVIOUS
    <2>1. PICK k \in T : \A m \in T : k <= m
        <3>1. T \subseteq Nat
            BY <1>1
        <3> HIDE DEF T
        <3> QED BY <3>1, Least
    <2>2. k \in 1..Len(txs)
        BY <1>1, <1>8
    <2>3. k - 1 \in 0..Len(txs) /\ k - 1 \notin T
        BY <1>1, <2>1, <2>2
    <2>4. after[k - 1] \in State
        BY <2>3
    <2> QED BY <1>1, <1>8, <2>2, <2>4, AfterState
<1> QED BY <1>7, <1>8, <1>9

\* What the recursion of StateAt defines.
LEMMA StateAtIs ==
    ASSUME NEW chn \in Seq(Seq(Transaction))
    PROVE  \E ends \in [0..Len(chn) -> State] :
               /\ ends[0] = Genesis
               /\ \A n \in 1..Len(chn) : \A k : StateAt(chn, n, k) = Applied(ends[n - 1], chn[n], k)
               /\ \A n \in 1..Len(chn) : ends[n] = Applied(ends[n - 1], chn[n], Len(chn[n]))
<1> DEFINE next == [p \in (1..Len(chn)) \X State |-> Applied(p[2], chn[p[1]], Len(chn[p[1]]))]
           ends == CHOOSE f : f = [m \in 0..Len(chn) |->
                      IF m = 0 THEN Genesis ELSE Applied(f[m - 1], chn[m], Len(chn[m]))]
<1>1. /\ Len(chn) \in Nat
      /\ \A n \in 1..Len(chn) : chn[n] \in Seq(Transaction) /\ Len(chn[n]) \in 0..Len(chn[n])
    BY LenProperties
<1>2. next \in [(1..Len(chn)) \X State -> State]
    BY <1>1, AppliedIs
<1>3. PICK f \in [0..Len(chn) -> State] : Follows(f, Genesis, Len(chn), next)
    <2>1. PICK n, step : n \in Nat /\ n = Len(chn) /\ step = next
        BY <1>1
    <2>2. step \in [(1..n) \X State -> State] /\ Genesis \in State
        BY <1>2, <2>1, ChainsAssumption
    <2> HIDE DEF next, ends
    <2>3. \E f \in [0..n -> State] : Follows(f, Genesis, n, step)
        BY <2>1, <2>2, Iterated
    <2> QED BY <2>1, <2>3
<1>4. \A m \in 1..Len(chn) : f[m] = Applied(f[m - 1], chn[m], Len(chn[m]))
    <2> TAKE m \in 1..Len(chn)
    <2>1. m - 1 \in 0..Len(chn)
        BY <1>1
    <2>2. f[m - 1] \in State
        BY <1>3, <2>1
    <2> QED BY <1>3, <2>2 DEF Follows
<1>5. f = [m \in 0..Len(chn) |-> IF m = 0 THEN Genesis ELSE Applied(f[m - 1], chn[m], Len(chn[m]))]
    BY <1>1, <1>3, <1>4 DEF Follows
<1>6. ends = [m \in 0..Len(chn) |-> IF m = 0 THEN Genesis ELSE Applied(ends[m - 1], chn[m], Len(chn[m]))]
    BY <1>5
<1>7. \A n, k : StateAt(chn, n, k) = Applied(ends[n - 1], chn[n], k)
    BY DEF StateAt
<1> HIDE DEF ends
<1>8. ends[0] = Genesis /\ \A m \in 1..Len(chn) : ends[m] = Applied(ends[m - 1], chn[m], Len(chn[m]))
    <2>1. 0 \in 0..Len(chn) /\ \A m \in 1..Len(chn) : m \in 0..Len(chn) /\ m # 0
        BY <1>1
    <2> QED BY <1>6, <2>1, Zenon
<1>9. \A m \in 0..Len(chn) : ends[m] \in State
    <2> DEFINE T == {m \in 0..Len(chn) : ends[m] \notin State}
    <2> SUFFICES ASSUME T # {} PROVE FALSE
        OBVIOUS
    <2>1. PICK m \in T : \A l \in T : m <= l
        <3>1. T \subseteq Nat
            BY <1>1
        <3> HIDE DEF T
        <3> QED BY <3>1, Least
    <2>2. m \in 1..Len(chn)
        BY <1>1, <1>8, ChainsAssumption
    <2>3. m - 1 \in 0..Len(chn) /\ m - 1 \notin T
        BY <1>1, <2>1, <2>2
    <2>4. ends[m - 1] \in State
        BY <2>3
    <2> QED BY <1>1, <1>8, <2>2, <2>4, AppliedIs
<1>10. ends \in [0..Len(chn) -> State]
    BY <1>6, <1>9
<1> QED BY <1>7, <1>8, <1>10

LEMMA StateAtBlock ==
    ASSUME NEW chn \in Seq(Seq(Transaction)), NEW n \in 1..Len(chn)
    PROVE  /\ Len(chn[n]) \in Nat
           /\ \A k \in 1..Len(chn[n]) : chn[n][k] \in Transaction
           /\ \A k \in 0..Len(chn[n]) : StateAt(chn, n, k) \in State
           /\ \A k \in 1..Len(chn[n]) : StateAt(chn, n, k) = After(StateAt(chn, n, k - 1), chn[n][k])
<1>1. PICK ends \in [0..Len(chn) -> State] :
          \A k : StateAt(chn, n, k) = Applied(ends[n - 1], chn[n], k)
    BY StateAtIs
<1>2. Len(chn) \in Nat /\ chn[n] \in Seq(Transaction)
    BY LenProperties
<1>3. n - 1 \in 0..Len(chn)
    BY <1>2
<1>4. PICK txs \in Seq(Transaction) : txs = chn[n]
    BY <1>2
<1>5. Len(txs) \in Nat /\ \A k \in 1..Len(txs) : txs[k] \in Transaction
    BY LenProperties
<1>6. ends[n - 1] \in State
    BY <1>3
<1> QED BY <1>1, <1>4, <1>5, <1>6, AppliedIs

\* What a transaction leaves of a state.
LEMMA AfterIs ==
    ASSUME NEW state \in State, NEW tx \in Transaction
    PROVE  /\ DOMAIN tx.effect.storage \subseteq Contracts
           /\ \A c \in DOMAIN tx.effect.storage : After(state, tx).storage[c] = tx.effect.storage[c]
           /\ \A c \in Contracts \ DOMAIN tx.effect.storage :
                 After(state, tx).storage[c] = state.storage[c]
           /\ DOMAIN After(state, tx).class =
                 DOMAIN state.class \cup DOMAIN tx.effect.deploy \cup DOMAIN tx.effect.replace
           /\ \A c \in DOMAIN tx.effect.deploy \ DOMAIN tx.effect.replace :
                 After(state, tx).class[c] = tx.effect.deploy[c]
           /\ \A c \in DOMAIN state.class \ (DOMAIN tx.effect.deploy \cup DOMAIN tx.effect.replace) :
                 After(state, tx).class[c] = state.class[c]
           /\ After(state, tx).declared = state.declared \cup tx.effect.declare
<1>1. PICK f, g, h, s, w :
          /\ f = state.class /\ g = tx.effect.deploy /\ h = tx.effect.replace
          /\ s = state.storage /\ w = tx.effect.storage
    OBVIOUS
<1>2. /\ {f, g, h} \subseteq Partial(Contracts, Classes)
      /\ s \in [Contracts -> Values] /\ w \in Partial(Contracts, Values)
    BY <1>1 DEF State, Transaction, Effect
<1>3. s \in Partial(Contracts, Values) /\ DOMAIN s = Contracts /\ DOMAIN w \subseteq Contracts
    BY <1>2, PartialIs
<1>4. PICK o : o = Over(f, g)
    OBVIOUS
<1>5. /\ o \in Partial(Contracts, Classes)
      /\ DOMAIN o = DOMAIN f \cup DOMAIN g
      /\ \A x \in DOMAIN g : o[x] = g[x]
      /\ \A x \in DOMAIN f \ DOMAIN g : o[x] = f[x]
    BY <1>2, <1>4, OverIs
<1>6. PICK q : q = Over(o, h)
    OBVIOUS
<1>7. /\ DOMAIN q = DOMAIN o \cup DOMAIN h
      /\ \A x \in DOMAIN o \ DOMAIN h : q[x] = o[x]
    BY <1>2, <1>5, <1>6, OverIs
<1>8. PICK t : t = Over(s, w)
    OBVIOUS
<1>9. /\ \A x \in DOMAIN w : t[x] = w[x]
      /\ \A x \in Contracts \ DOMAIN w : t[x] = s[x]
    BY <1>3, <1>8 DEF Over
<1>10. /\ After(state, tx).storage = t /\ After(state, tx).class = q
       /\ After(state, tx).declared = state.declared \cup tx.effect.declare
    BY <1>1, <1>4, <1>6, <1>8 DEF After
<1> QED BY <1>1, <1>3, <1>5, <1>7, <1>9, <1>10

\* Only contracts that exist have storage, at every point of the chain.
LEMMA StorageExists ==
    ASSUME NEW chn \in Chains, NEW n \in 1..Len(chn), NEW k \in 0..Len(chn[n]),
           NEW c \in Contracts, c \notin DOMAIN StateAt(chn, n, k).class
    PROVE  StateAt(chn, n, k).storage[c] = Zero
<1> DEFINE Sound(state) == \A x \in Contracts \ DOMAIN state.class : state.storage[x] = Zero
<1>1. chn \in Seq(Seq(Transaction)) /\ Len(chn) \in Nat
    BY ChainsAssumption, LenProperties
<1>2. PICK ends \in [0..Len(chn) -> State] :
          /\ ends[0] = Genesis
          /\ \A m \in 1..Len(chn) : \A i : StateAt(chn, m, i) = Applied(ends[m - 1], chn[m], i)
          /\ \A m \in 1..Len(chn) : ends[m] = Applied(ends[m - 1], chn[m], Len(chn[m]))
    BY <1>1, StateAtIs
<1>3. ASSUME NEW m \in 1..Len(chn), Sound(ends[m - 1])
      PROVE  \A i \in 0..Len(chn[m]) : Sound(StateAt(chn, m, i))
    <2> DEFINE T == {i \in 0..Len(chn[m]) : ~Sound(StateAt(chn, m, i))}
    <2> SUFFICES ASSUME T # {} PROVE FALSE
        OBVIOUS
    <2>0. Len(chn[m]) \in Nat /\ chn[m] \in Seq(Transaction) /\ ends[m - 1] \in State
        BY <1>1, StateAtBlock, LenProperties
    <2>1. PICK i \in T : \A j \in T : i <= j
        <3>1. T \subseteq Nat
            BY <2>0
        <3> HIDE DEF T
        <3> QED BY <3>1, Least
    <2>2. StateAt(chn, m, 0) = ends[m - 1]
        BY <1>2, <2>0, AppliedIs
    <2>3. i \in 1..Len(chn[m])
        <3>1. i \in 0..Len(chn[m]) /\ i # 0
            BY <1>3, <2>2
        <3> QED BY <2>0, <3>1
    <2>4. i - 1 \in 0..Len(chn[m]) /\ ~(i <= i - 1)
        BY <2>0, <2>3
    <2>5. Sound(StateAt(chn, m, i - 1))
        <3>1. i - 1 \notin T
            BY <2>1, <2>4
        <3> QED BY <2>4, <3>1
    <2>6. ~Sound(StateAt(chn, m, i))
        OBVIOUS
    <2>7. PICK before \in State, tx \in Transaction :
              /\ before = StateAt(chn, m, i - 1) /\ tx = chn[m][i]
              /\ StateAt(chn, m, i) = After(before, tx)
        BY <1>1, <2>3, <2>4, StateAtBlock
    <2>8. DOMAIN tx.effect.storage \subseteq DOMAIN After(before, tx).class
        BY <2>3, <2>7, StorageAssumption
    <2>9. PICK after : after = After(before, tx)
        OBVIOUS
    <2>10. /\ DOMAIN before.class \subseteq DOMAIN after.class
           /\ \A x \in Contracts \ DOMAIN tx.effect.storage : after.storage[x] = before.storage[x]
        BY <2>9, AfterIs
    <2> QED BY <2>5, <2>6, <2>7, <2>8, <2>9, <2>10
<1>4. \A m \in 0..Len(chn) : Sound(ends[m])
    <2> DEFINE T == {m \in 0..Len(chn) : ~Sound(ends[m])}
    <2> SUFFICES ASSUME T # {} PROVE FALSE
        OBVIOUS
    <2>1. PICK m \in T : \A l \in T : m <= l
        <3>1. T \subseteq Nat
            BY <1>1
        <3> HIDE DEF T
        <3> QED BY <3>1, Least
    <2>2. m \in 1..Len(chn)
        <3>1. Sound(ends[0])
            BY <1>2, StorageAssumption
        <3>2. m \in 0..Len(chn) /\ m # 0
            BY <3>1
        <3> QED BY <1>1, <3>2
    <2>3. Sound(ends[m - 1])
        <3>1. m - 1 \in 0..Len(chn) /\ ~(m <= m - 1)
            BY <1>1, <2>2
        <3>2. m - 1 \notin T
            BY <2>1, <3>1
        <3> QED BY <3>1, <3>2
    <2>4. Len(chn[m]) \in 0..Len(chn[m])
        BY <1>1, <2>2, StateAtBlock
    <2>5. Sound(StateAt(chn, m, Len(chn[m])))
        BY <1>3, <2>2, <2>3, <2>4
    <2>6. ends[m] = StateAt(chn, m, Len(chn[m]))
        BY <1>2, <2>2
    <2> QED BY <2>5, <2>6
<1>5. n - 1 \in 0..Len(chn)
    BY <1>1
<1>6. Sound(StateAt(chn, n, k))
    BY <1>3, <1>4, <1>5
<1> QED BY <1>6

-----------------------------------------------------------------------------
(* The types of the state *)

\* The chain after k transactions of the block, and the contracts that these
\* have upgraded.
Was(k) == StateAt(chain, block, k)
ReplacedBy(k) == UNION {DOMAIN chain[block][i].effect.replace : i \in 1..k}

\* The fork with its cache is the chain after k transactions of the block.
ForkedAt(k) ==
    /\ \A c \in Contracts :
          Was(k).storage[c] = IF c \in DOMAIN cache.storage THEN cache.storage[c] ELSE Was(0).storage[c]
    /\ \A c \in Contracts \ ReplacedBy(k) :
          IF c \in DOMAIN cache.class
          THEN c \in DOMAIN Was(k).class /\ Was(k).class[c] = cache.class[c]
          ELSE /\ c \in DOMAIN Was(k).class <=> c \in DOMAIN Was(0).class
               /\ c \in DOMAIN Was(k).class => Was(k).class[c] = Was(0).class[c]
    /\ faults = 0 =>
          Was(k).declared \ Deprecated \subseteq Was(0).declared \cup DOMAIN cache.compiled

Asking == {"ask", "transaction", "receipt", "message"}
Late == {"validate", "execute", "post", "classes", "map", "before"}
Written == {i \in DOMAIN calls : calls[i].writes # None}

\* Who is asked for, and where it is.
PlaceInv ==
    /\ args.by \in {"hash", "message"} =>
          args.own \in Placed /\ args = Submitted(args.mode, args.by, args.own)
    /\ pc = "message" => args.by = "message"
    /\ pc \in {"transaction", "receipt"} => args.by = "hash"
    /\ pc = "receipt" => args.kind # "deploy_account"
    /\ pc \notin Asking /\ (pc # "done" \/ result = "shown") =>
          /\ block \in 1..Len(chain)
          /\ args.by = "hash" => args.kind # "deploy_account" /\ block = args.own[1]
    /\ pc \in Early => index = 0
    /\ pc = "done" <=> result # None

\* The types of the state, and what is asked for.
TypeInv == TypeOK /\ chain \in Chains /\ PlaceInv

Results == {None, "shown", "messages", "resources", "unsupported", "error"}

LEMMA ChainType ==
    ASSUME chain \in Chains
    PROVE  /\ chain \in Seq(Seq(Transaction)) /\ Len(chain) \in Nat
           /\ \A n \in 1..Len(chain) : Len(chain[n]) \in Nat
           /\ \A n \in 1..Len(chain) : \A k \in 1..Len(chain[n]) : chain[n][k] \in Transaction
BY ChainsAssumption, LenProperties, StateAtBlock

LEMMA PlacedIs ==
    ASSUME NEW own \in Placed
    PROVE  /\ own[1] \in 1..Len(chain) /\ own[2] \in 1..Len(chain[own[1]])
           /\ own = <<own[1], own[2]>>
<1>1. PICK n \in 1..Len(chain) : own \in {<<n, i>> : i \in 1..Len(chain[n])}
    BY DEF Placed
<1>2. PICK i \in 1..Len(chain[n]) : own = <<n, i>>
    BY <1>1
<1> QED BY <1>2

LEMMA SubmittedType ==
    ASSUME chain \in Chains, NEW mode \in {"simple", "debug"}, NEW by \in {"hash", "message"},
           NEW own \in Placed
    PROVE  Submitted(mode, by, own) \in Args
<1>1. PICK tx \in Transaction : tx = chain[own[1]][own[2]]
    BY PlacedIs, ChainType
<1>2. own \in Nat \X Nat
    BY PlacedIs, ChainType
<1>3. Submitted(mode, by, own) =
          [mode |-> mode, by |-> by, own |-> own, kind |-> tx.kind, version |-> tx.version,
           sender |-> tx.sender, nonce |-> tx.nonce, calldata |-> tx.calldata]
    BY <1>1 DEF Submitted
<1> QED BY <1>2, <1>3 DEF Transaction, Args

LEMMA InitTypes == Init => TypeInv
<1> SUFFICES ASSUME Init PROVE TypeInv
    OBVIOUS
<1>1. NoArgs \in Args /\ NoArgs.by = "arguments"
    <2>1. (CHOOSE c \in Contracts : TRUE) \in Contracts
        BY ContractsAssumption
    <2>2. PICK c \in Contracts, own \in Nat \X Nat, kind \in Kinds, version \in {0, 1, 3} :
              NoArgs = [mode |-> "simple", by |-> "arguments", own |-> own, kind |-> kind,
                        version |-> version, sender |-> c, nonce |-> None, calldata |-> None]
        BY <2>1 DEF NoArgs, Kinds
    <2> QED BY <2>2 DEF Args
<1>2. \A S, T : Empty \in Partial(S, T)
    <2> TAKE S, T
    <2>1. {} \in SUBSET S /\ Empty \in [{} -> T]
        BY DEF Empty
    <2> QED BY <2>1 DEF Partial
<1>3. cache \in Cache
    BY <1>2 DEF Init, Cache
<1>4. calls \in Seq(Call) /\ DOMAIN calls = {}
    BY DEF Init
<1>5. changes \in [DOMAIN changes -> Change] /\ DOMAIN changes = {}
    BY DEF Init, Empty
<1>6. faults \in 0..MaxFaults /\ block \in 0..Len(chain) /\ chain \in Chains
    BY BoundsAssumption, ChainType DEF Init
<1>7. TypeOK
    BY <1>1, <1>2, <1>3, <1>4, <1>5, <1>6 DEF Init, TypeOK, PCs
<1>8. PlaceInv
    BY <1>1 DEF Init, PlaceInv, Asking, Early
<1> QED BY <1>6, <1>7, <1>8 DEF TypeInv

LEMMA FaultsType ==
    ASSUME TypeOK, Fault \/ NoFault
    PROVE  faults' \in 0..MaxFaults
BY BoundsAssumption DEF TypeOK, Fault, NoFault

LEMMA StopType ==
    ASSUME NEW answer \in Results \ {None}, Stop(answer)
    PROVE  pc' = "done" /\ result' = answer /\ result' \in Results /\ result' # None
BY DEF Stop

\* Steps that do not touch the run itself.
LEMMA NotRunTypes ==
    ASSUME TypeInv, NotRun, Run, pc' \in PCs, args' \in Args, block' \in 0..Len(chain),
           index = 0 \/ block' = block, result' \in Results, Fault \/ NoFault
    PROVE  TypeOK' /\ chain' \in Chains
<1>1. faults' \in 0..MaxFaults
    BY FaultsType DEF TypeInv
<1> QED BY <1>1 DEF TypeInv, TypeOK, NotRun, Run, sources, Results

LEMMA AskTypes ==
    ASSUME TypeInv, AskByHash \/ AskDebug \/ AskByArguments \/ AskByMessage
    PROVE  TypeInv'
<1>0. /\ pc = "ask" /\ pc' \in PCs /\ NotRun /\ Run /\ NoFault
      /\ index = 0 /\ result = None /\ chain' = chain
    BY DEF AskByHash, AskDebug, AskByArguments, AskByMessage, TypeInv, PlaceInv, Early, Stop, PCs, Run
<1>1. CASE \E mode \in {"simple", "debug"}, by \in {"hash", "message"} : \E own \in Placed :
              /\ args' = Submitted(mode, by, own)
              /\ \/ /\ pc' = IF by = "hash" THEN "transaction" ELSE "message"
                    /\ UNCHANGED <<block, result>>
                 \/ /\ mode = "debug" /\ chain[own[1]][own[2]].kind # "deploy_account"
                    /\ pc' = "block" /\ block' = own[1] /\ UNCHANGED result
    <2>1. PICK mode \in {"simple", "debug"}, by \in {"hash", "message"}, own \in Placed :
              /\ args' = Submitted(mode, by, own)
              /\ \/ /\ pc' = IF by = "hash" THEN "transaction" ELSE "message"
                    /\ UNCHANGED <<block, result>>
                 \/ /\ mode = "debug" /\ chain[own[1]][own[2]].kind # "deploy_account"
                    /\ pc' = "block" /\ block' = own[1] /\ UNCHANGED result
        BY <1>1
    <2>2. args' \in Args
        BY <2>1, SubmittedType DEF TypeInv
    <2>3. block' \in 0..Len(chain) /\ result' = None
        BY <1>0, <2>1, PlacedIs, ChainType DEF TypeInv, TypeOK
    <2>4. TypeOK' /\ chain' \in Chains
        BY <1>0, <2>2, <2>3, NotRunTypes DEF Results
    <2>5. /\ args'.own = own /\ args'.mode = mode /\ args'.by = by
          /\ args'.kind = chain[own[1]][own[2]].kind
        BY <2>1 DEF Submitted
    <2>6. own \in Placed' /\ args' = Submitted(mode, by, own)'
        BY <1>0, <2>1 DEF Placed, Submitted
    <2>7. pc' \notin Asking => /\ block' \in 1..Len(chain) /\ args'.kind # "deploy_account"
                               /\ block' = args'.own[1]
        BY <2>1, <2>5, PlacedIs DEF Asking
    <2>8. PlaceInv'
        <3>1. pc' # "done" /\ index' = 0
            BY <1>0, <2>1 DEF NotRun, Asking
        <3> QED BY <1>0, <2>1, <2>3, <2>5, <2>6, <2>7, <3>1 DEF PlaceInv, Asking
    <2> QED BY <2>4, <2>8 DEF TypeInv
<1>2. CASE /\ args' \in MadeUp /\ block' \in 1..Len(chain) /\ pc' = "block" /\ UNCHANGED result
    <2>1. args' \in Args /\ args'.by = "arguments"
        BY <1>2, MadeUpAssumption
    <2>2. block' \in 0..Len(chain)
        BY <1>2
    <2>3. TypeOK' /\ chain' \in Chains
        BY <1>0, <1>2, <2>1, <2>2, NotRunTypes DEF Results
    <2>4. PlaceInv'
        BY <1>0, <1>2, <2>1 DEF PlaceInv, NotRun, Asking
    <2> QED BY <2>3, <2>4 DEF TypeInv
<1>3. CASE Stop("messages") /\ UNCHANGED <<args, block>>
    <2>1. pc' = "done" /\ result' = "messages" /\ result' # None
        BY <1>3, StopType, NoneAssumption DEF Results
    <2>2. TypeOK' /\ chain' \in Chains
        BY <1>0, <1>3, <2>1, NotRunTypes DEF Results, TypeInv, TypeOK
    <2>3. PlaceInv'
        BY <1>0, <1>3, <2>1 DEF PlaceInv, TypeInv, Asking, Early, Placed, Submitted
    <2> QED BY <2>2, <2>3 DEF TypeInv
<1>4. CASE AskByHash
    BY <1>1, <1>4 DEF AskByHash, Asking
<1>5. CASE AskDebug
    BY <1>1, <1>5 DEF AskDebug, Asking
<1>6. CASE AskByArguments
    BY <1>2, <1>6 DEF AskByArguments
<1>7. CASE AskByMessage
    BY <1>1, <1>3, <1>7 DEF AskByMessage, Asking
<1> QED BY <1>4, <1>5, <1>6, <1>7

\* The place of a transaction that is not asked for any more.
LEMMA StoppedPlace ==
    ASSUME TypeInv, Run, UNCHANGED args, pc' = "done", result' # None, result' # "shown"
    PROVE  PlaceInv'
BY DEF TypeInv, PlaceInv, Run, Asking, Early, Placed, Submitted

LEMMA FetchTypes ==
    ASSUME TypeInv, FindBlockOfMessage \/ FetchTransaction \/ FetchReceipt
    PROVE  TypeInv'
<1>0. args \in Args /\ pc \in {"message", "transaction", "receipt"}
    BY DEF FindBlockOfMessage, FetchTransaction, FetchReceipt, TypeInv, TypeOK
<1>1. /\ pc \in Asking \ {"ask"} /\ NotRun /\ Run /\ args' = args /\ (Fault \/ NoFault)
      /\ index = 0 /\ index' = index /\ result = None /\ chain' = chain
    <2>1. /\ NotRun /\ Run /\ args' = args /\ (Fault \/ NoFault)
        BY DEF FindBlockOfMessage, FetchTransaction, FetchReceipt
    <2> QED BY <1>0, <2>1 DEF TypeInv, PlaceInv, Early, Asking, NotRun, Run
<1>2. args.own \in Placed /\ args.own[1] \in 1..Len(chain) /\ Len(chain) \in Nat
    BY <1>0, PlacedIs, ChainType DEF PlaceInv, TypeInv
<1>3. CASE \/ Stop("error") \/ Stop("unsupported") \/ Stop("resources")
    <2>1. pc' = "done" /\ result' \in Results /\ result' # None /\ result' # "shown"
        BY <1>3, NoneAssumption DEF Stop, Results
    <2>2. block' = block
        BY <2>1 DEF FindBlockOfMessage, FetchTransaction, FetchReceipt
    <2>3. TypeOK' /\ chain' \in Chains
        BY <1>1, <2>1, <2>2, NotRunTypes DEF PCs, TypeInv, TypeOK
    <2> QED BY <1>1, <2>1, <2>3, StoppedPlace DEF TypeInv
<1>4. CASE pc = "transaction" /\ pc' = "receipt" /\ args.kind # "deploy_account" /\ UNCHANGED <<block, result>>
    <2>1. TypeOK' /\ chain' \in Chains
        BY <1>0, <1>1, <1>4, NotRunTypes DEF PCs, TypeInv, TypeOK, Results
    <2>2. PlaceInv'
        <3>1. args.by = "hash" /\ args = Submitted(args.mode, args.by, args.own)
            BY <1>4 DEF TypeInv, PlaceInv
        <3>2. args'.own \in Placed'
            BY <1>1, <1>2 DEF Placed
        <3>3. Submitted(args.mode, args.by, args.own)' = Submitted(args.mode, args.by, args.own)
            BY <1>1 DEF Submitted
        <3> QED BY <1>1, <1>4, <3>1, <3>2, <3>3 DEF PlaceInv, Asking, Early
    <2> QED BY <2>1, <2>2 DEF TypeInv
<1>5. CASE /\ pc' = "block" /\ block' \in 1..Len(chain) /\ UNCHANGED result
           /\ args.by = "hash" => args.kind # "deploy_account" /\ block' = args.own[1]
    <2>1. block' \in 0..Len(chain)
        BY <1>5
    <2>2. TypeOK' /\ chain' \in Chains
        BY <1>0, <1>1, <1>5, <2>1, NotRunTypes DEF PCs, Results
    <2>3. PlaceInv'
        BY <1>1, <1>5 DEF PlaceInv, TypeInv, Asking, Early, Placed, Submitted, Run
    <2> QED BY <2>2, <2>3 DEF TypeInv
<1>6. CASE FindBlockOfMessage
    <2>1. pc' = "block" /\ block' \in {args.own[1], Len(chain)} /\ UNCHANGED result
        BY <1>6 DEF FindBlockOfMessage
    <2>2. Len(chain) \in 1..Len(chain)
        BY <1>2
    <2>3. args.by = "message"
        BY <1>6 DEF FindBlockOfMessage, TypeInv, PlaceInv
    <2> QED BY <1>2, <1>5, <2>1, <2>2, <2>3
<1>7. CASE FetchTransaction
    BY <1>3, <1>4, <1>7 DEF FetchTransaction
<1>8. CASE FetchReceipt
    BY <1>2, <1>3, <1>5, <1>8 DEF FetchReceipt, TypeInv, PlaceInv
<1> QED BY <1>6, <1>7, <1>8

\* Once the block is known it stays the one that was asked for.
LEMMA PlaceStays ==
    ASSUME TypeInv, UNCHANGED <<chain, args, block>>, pc \notin Asking \cup {"done"},
           pc' \notin Early, pc' = "done" <=> result' # None
    PROVE  PlaceInv'
<1>1. chain' = chain
    OBVIOUS
<1>2. args.by \in {"hash", "message"} =>
          args.own \in Placed /\ args = Submitted(args.mode, args.by, args.own)
    BY DEF TypeInv, PlaceInv
<1>3. Placed' = Placed /\ Submitted(args.mode, args.by, args.own)' = Submitted(args.mode, args.by, args.own)
    BY <1>1 DEF Placed, Submitted
<1>4. /\ block \in 1..Len(chain)
      /\ args.by = "hash" => args.kind # "deploy_account" /\ block = args.own[1]
    BY DEF TypeInv, PlaceInv
<1> QED BY <1>1, <1>2, <1>3, <1>4 DEF PlaceInv, Early

\* The block, the place in it, and what the node has of it.
LEMMA InBlock ==
    ASSUME TypeInv, pc \notin Asking, pc # "done" \/ result = "shown"
    PROVE  /\ chain \in Seq(Seq(Transaction)) /\ block \in 1..Len(chain)
           /\ Len(chain[block]) \in Nat /\ index \in 0..Len(chain[block])
           /\ \A k \in 1..Len(chain[block]) : chain[block][k] \in Transaction
           /\ \A k \in 0..Len(chain[block]) : Was(k) \in State
           /\ \A k \in 1..Len(chain[block]) : Was(k) = After(Was(k - 1), chain[block][k])
           /\ Adjusted = Was(0) /\ Before = Was(index) /\ BlockEnd = Was(Len(chain[block]))
<1>1. chain \in Seq(Seq(Transaction)) /\ block \in 1..Len(chain)
    BY ChainType DEF TypeInv, PlaceInv
<1>2. Len(chain[block]) \in Nat
    BY <1>1, StateAtBlock
<1>3. index \in 0..Len(chain[block])
    BY <1>2 DEF TypeInv, TypeOK
<1> QED BY <1>1, <1>2, <1>3, StateAtBlock DEF Was, Adjusted, Before, BlockEnd

LEMMA ExtractTypes ==
    ASSUME TypeInv, ExtractBlock
    PROVE  TypeInv'
<1>1. /\ pc = "block" /\ UNCHANGED <<args, block, replayed, cache, calls, data, changes, reads>>
      /\ Run /\ (Fault \/ NoFault) /\ index = 0 /\ result = None /\ chain' = chain
    BY DEF ExtractBlock, TypeInv, PlaceInv, Early, Run
<1>2. block \in 1..Len(chain) /\ Len(chain[block]) \in Nat
    BY <1>1, InBlock DEF Asking
<1>3. CASE Stop("error") /\ UNCHANGED index
    <2>1. pc' = "done" /\ result' \in Results /\ result' # None /\ result' # "shown"
        BY <1>3, NoneAssumption DEF Stop, Results
    <2>2. TypeOK' /\ chain' \in Chains
        <3>1. NotRun
            BY <1>1, <1>3 DEF NotRun
        <3> QED BY <1>1, <2>1, <3>1, NotRunTypes DEF PCs, TypeInv, TypeOK
    <2>3. PlaceInv'
        BY <1>1, <2>1, StoppedPlace
    <2> QED BY <2>2, <2>3 DEF TypeInv
<1>4. CASE index' = extract_transaction_index /\ pc' = "fork" /\ UNCHANGED result
    <2> DEFINE hits == {i \in 1..Len(chain[block]) : match_transaction(chain[block][i])}
               first == CHOOSE i \in hits : \A j \in hits : i <= j
    <2>1. hits \subseteq 1..Len(chain[block]) /\ hits \subseteq Nat
        BY <1>2
    <2>2. index' \in Nat /\ (index' = 0 \/ index' < Len(chain[block]))
        <3>1. CASE hits = {}
            BY <1>4, <3>1 DEF extract_transaction_index
        <3>2. CASE hits # {}
            <4>1. \E i \in hits : \A j \in hits : i <= j
                <5> HIDE DEF hits
                <5> QED BY <2>1, <3>2, Least
            <4>2. first \in hits
                BY <4>1
            <4>3. index' = first - 1
                BY <1>4, <3>2 DEF extract_transaction_index
            <4> HIDE DEF first, hits
            <4> QED BY <1>2, <2>1, <4>2, <4>3
        <3> QED BY <3>1, <3>2
    <2>3. replayed' = 0
        BY <1>1 DEF TypeInv, TypeOK
    <2>4. faults' \in 0..MaxFaults
        BY <1>1, FaultsType DEF TypeInv
    <2>5. TypeOK'
        BY <1>1, <1>4, <2>2, <2>3, <2>4 DEF TypeInv, TypeOK, PCs, Run, sources
    <2>6. PlaceInv'
        BY <1>1, <1>4, PlaceStays DEF Asking, Early
    <2> QED BY <1>1, <2>5, <2>6 DEF TypeInv
<1> QED BY <1>3, <1>4 DEF ExtractBlock

LEMMA LateTypes ==
    ASSUME TypeInv, PrepareStorageView \/ EndReplay \/ EndExecution \/ PostExec
    PROVE  TypeInv'
<1>1. /\ pc \notin Asking \cup {"done"} /\ Run /\ NotRun /\ UNCHANGED <<args, block>>
      /\ (Fault \/ NoFault) /\ chain' = chain
    BY DEF PrepareStorageView, EndReplay, EndExecution, PostExec, Executing, Asking, Run
<1>2. result = None
    BY <1>1 DEF TypeInv, PlaceInv
<1>3. \/ pc' \in PCs \ (Early \cup {"done"}) /\ UNCHANGED result
      \/ Stop("error")
    BY DEF PrepareStorageView, EndReplay, EndExecution, PostExec, PCs, Early
<1>4. /\ pc' \in PCs \ Early /\ result' \in Results /\ (pc' = "done" <=> result' # None)
    BY <1>2, <1>3, NoneAssumption DEF Stop, PCs, Early, Results
<1>5. TypeOK' /\ chain' \in Chains
    BY <1>1, <1>4, NotRunTypes DEF TypeInv, TypeOK
<1>6. PlaceInv'
    BY <1>1, <1>4, PlaceStays
<1> QED BY <1>5, <1>6 DEF TypeInv

LEMMA ReplayTypes ==
    ASSUME TypeInv, ReplayTransaction
    PROVE  TypeInv'
<1>1. /\ pc = "replay" /\ pc' = pc /\ replayed < index /\ replayed' = replayed + 1
      /\ UNCHANGED <<args, block, index, calls, data, changes, result, reads>> /\ Run
      /\ (Fault \/ NoFault) /\ chain' = chain
    BY DEF ReplayTransaction, Run
<1>2. replayed \in Nat /\ index \in Nat /\ replayed' \in 0..index
    BY <1>1 DEF TypeInv, TypeOK
<1>3. PICK effect \in Effect : effect = chain[block][replayed + 1].effect
    <2>1. replayed + 1 \in 1..Len(chain[block])
        BY <1>1, <1>2, InBlock DEF Asking
    <2> QED BY <1>1, <2>1, InBlock DEF Asking, Transaction
<1>4. PICK got \in SUBSET effect.declare :
          cache' = [storage |-> Over(cache.storage, effect.storage),
                    class |-> Over(cache.class, effect.deploy),
                    compiled |-> Over(cache.compiled, [x \in got |-> "original"])]
    BY <1>3 DEF ReplayTransaction
<1>5. cache' \in Cache
    <2>1. PICK s, d, p, g : /\ s = cache.storage /\ d = cache.class /\ p = cache.compiled
                            /\ g = [x \in got |-> "original"]
        OBVIOUS
    <2>2. /\ s \in Partial(Contracts, Values) /\ d \in Partial(Contracts, Classes)
          /\ p \in Partial(Classes, Build)
        BY <2>1 DEF TypeInv, TypeOK, Cache
    <2>3. PICK t, e : t = effect.storage /\ e = effect.deploy
        OBVIOUS
    <2>4. /\ t \in Partial(Contracts, Values) /\ e \in Partial(Contracts, Classes)
          /\ got \in SUBSET Classes
        BY <1>3, <2>3 DEF Effect
    <2>5. g \in Partial(Classes, Build)
        BY <2>1, <2>4, PartialIs DEF Build
    <2>6. /\ Over(s, t) \in Partial(Contracts, Values) /\ Over(d, e) \in Partial(Contracts, Classes)
          /\ Over(p, g) \in Partial(Classes, Build)
        BY <2>2, <2>4, <2>5, OverIs
    <2> QED BY <1>4, <2>1, <2>3, <2>6 DEF Cache
<1>6. faults' \in 0..MaxFaults
    BY <1>1, FaultsType DEF TypeInv
<1>7. TypeOK'
    BY <1>1, <1>2, <1>5, <1>6 DEF TypeInv, TypeOK, Run, sources
<1>8. PlaceInv'
    <2>1. pc' = "done" <=> result' # None
        BY <1>1 DEF TypeInv, PlaceInv
    <2> QED BY <1>1, <2>1, PlaceStays DEF Asking, Early
<1> QED BY <1>1, <1>7, <1>8 DEF TypeInv

-----------------------------------------------------------------------------
(* What the reader answers *)

LEMMA CacheIs ==
    ASSUME TypeInv
    PROVE  /\ cache.storage \in Partial(Contracts, Values)
           /\ cache.class \in Partial(Contracts, Classes)
           /\ cache.compiled \in Partial(Classes, Build)
           /\ cache = [storage |-> cache.storage, class |-> cache.class, compiled |-> cache.compiled]
BY DEF TypeInv, TypeOK, Cache

LEMMA ReaderTypes ==
    ASSUME TypeInv, pc \in Late
    PROVE  /\ \A c \in Contracts : /\ ClassHashAt(c) \in Classes \cup {None}
                                   /\ StorageAt(c) \in Values
                                   /\ StorageKept(c) \in Partial(Contracts, Values)
           /\ \A x : CompiledClass(x) \in Build \cup {None}
<1>1. Adjusted \in State
    <2>1. 0 \in 0..Len(chain[block]) /\ Adjusted = Was(0)
        BY InBlock DEF Asking, Late
    <2> QED BY <2>1, InBlock DEF Asking, Late
<1>2. PICK s, d, p : s = cache.storage /\ d = cache.class /\ p = cache.compiled
    OBVIOUS
<1>3. /\ s \in Partial(Contracts, Values) /\ d \in Partial(Contracts, Classes)
      /\ p \in Partial(Classes, Build)
    BY <1>2 DEF TypeInv, TypeOK, Cache
<1>4. PICK n : n = Adjusted.class
    OBVIOUS
<1>5. n \in Partial(Contracts, Classes) /\ Adjusted.storage \in [Contracts -> Values]
    BY <1>1, <1>4 DEF State
<1>6. ASSUME NEW c \in Contracts
      PROVE  ClassHashAt(c) \in Classes \cup {None}
    <2>1. c \in DOMAIN d => d[c] \in Classes
        BY <1>3, PartialIs
    <2>2. c \in DOMAIN n => n[c] \in Classes
        BY <1>5, PartialIs
    <2> QED BY <1>2, <1>4, <2>1, <2>2 DEF ClassHashAt
<1>7. ASSUME NEW c \in Contracts
      PROVE  StorageAt(c) \in Values
    <2>1. c \in DOMAIN s => s[c] \in Values
        BY <1>3, PartialIs
    <2> QED BY <1>2, <1>5, <2>1, ChainsAssumption DEF StorageAt
<1>8. ASSUME NEW c \in Contracts
      PROVE  StorageKept(c) \in Partial(Contracts, Values)
    <2>1. PICK g : g = [x \in {c} |-> StorageAt(c)]
        OBVIOUS
    <2>2. g \in Partial(Contracts, Values)
        BY <1>7, <2>1, PartialIs
    <2>3. Over(s, g) \in Partial(Contracts, Values)
        BY <1>3, <2>2, OverIs
    <2> QED BY <1>2, <1>3, <2>1, <2>3 DEF StorageKept
<1>9. ASSUME NEW x
      PROVE  CompiledClass(x) \in Build \cup {None}
    <2>1. x \in DOMAIN p => p[x] \in Build
        BY <1>3, PartialIs
    <2> QED BY <1>2, <2>1 DEF CompiledClass, Build
<1> QED BY <1>6, <1>7, <1>8, <1>9

\* Only a class can be compiled, and only a verified one can be missed.
LEMMA LookupIs ==
    ASSUME TypeInv, pc \in Late, NEW x \in Classes \cup {None}, NEW b, Lookup(x, b)
    PROVE  /\ b \in Build \cup {None} /\ (b # None => x \in Classes)
           /\ changed' \in SUBSET Sierra /\ (Fault \/ NoFault)
<1>1. Adjusted.declared \subseteq Classes
    <2>1. 0 \in 0..Len(chain[block]) /\ Adjusted = Was(0)
        BY InBlock DEF Asking, Late
    <2>2. Adjusted \in State
        BY <2>1, InBlock DEF Asking, Late
    <2> QED BY <2>2 DEF State
<1>2. PICK p \in Partial(Classes, Build) : p = cache.compiled
    BY CacheIs
<1>3. DOMAIN p \subseteq Classes
    BY <1>2, PartialIs
<1>4. /\ inCache \subseteq Sierra /\ inTables \subseteq Sierra /\ changed \subseteq Sierra
      /\ Sierra \subseteq Classes
    BY DEF TypeInv, TypeOK, Sierra
<1>5. CASE b = CompiledClass(x) /\ NoFault /\ UNCHANGED changed
    <2>1. x = None => CompiledClass(x) = None
        BY <1>1, <1>2, <1>3, <1>4, ChainsAssumption DEF CompiledClass
    <2> QED BY <1>4, <1>5, <2>1, ReaderTypes
<1>6. CASE b \in MissedClass(x) /\ Fault /\ changed' = IF b = None THEN changed ELSE changed \cup {x}
    <2>1. b \in {"original", None} /\ (b # None => x \in inTables)
        BY <1>6 DEF MissedClass
    <2> QED BY <1>4, <1>6, <2>1 DEF Build
<1> QED BY <1>5, <1>6 DEF Lookup

\* A step of the execution changes calls, the cache and the reads alone.
LEMMA ExecutionTypes ==
    ASSUME TypeInv, pc \in {"validate", "execute"}, Fault \/ NoFault,
           UNCHANGED <<chain, sources>>, changed' \in SUBSET Sierra,
           UNCHANGED <<pc, args, block, index, replayed, data, changes, result>>,
           calls' \in Seq(Call), DOMAIN calls \subseteq DOMAIN calls',
           cache' \in Cache, reads' \in SUBSET Read
    PROVE  TypeInv'
<1>1. chain' = chain /\ faults' \in 0..MaxFaults
    BY FaultsType DEF TypeInv
<1>2. TypeOK'
    BY <1>1 DEF TypeInv, TypeOK, sources
<1>3. pc' = "done" <=> result' # None
    BY DEF TypeInv, PlaceInv
<1>4. PlaceInv'
    BY <1>3, PlaceStays DEF Asking, Early
<1> QED BY <1>1, <1>2, <1>4 DEF TypeInv

LEMMA CallAppended ==
    ASSUME calls \in Seq(Call), NEW call \in Call, calls' = Append(calls, call)
    PROVE  /\ calls' \in Seq(Call) /\ Len(calls) \in Nat /\ Len(calls') = Len(calls) + 1
           /\ DOMAIN calls = 1..Len(calls) /\ DOMAIN calls' = 1..Len(calls) + 1
           /\ \A i \in DOMAIN calls : calls'[i] = calls[i]
           /\ calls'[Len(calls) + 1] = call
BY AppendProperties, LenProperties

LEMMA MaybeAdded ==
    ASSUME NEW S, NEW T, NEW f \in Partial(S, T), NEW x, NEW v, v # None => x \in S /\ v \in T,
           NEW g, g = Given(f, x, v)
    PROVE  /\ g \in Partial(S, T) /\ DOMAIN f \subseteq DOMAIN g
           /\ v # None => x \in DOMAIN g /\ g[x] = v
           /\ v = None => g = f
           /\ \A y \in DOMAIN g : y # x => y \in DOMAIN f /\ g[y] = f[y]
<1>1. CASE v = None
    BY <1>1 DEF Given
<1>2. CASE v # None
    <2>1. PICK h : h = [y \in {x} |-> v]
        OBVIOUS
    <2>2. h \in Partial(S, T) /\ DOMAIN h = {x} /\ h[x] = v /\ g = Over(f, h)
        BY <1>2, <2>1, PartialIs DEF Given
    <2>0. f \in Partial(S, T) /\ h \in Partial(S, T)
        BY <2>2
    <2>4. /\ Over(f, h) \in Partial(S, T) /\ DOMAIN Over(f, h) = DOMAIN f \cup DOMAIN h
          /\ \A y \in DOMAIN h : Over(f, h)[y] = h[y]
          /\ \A y \in DOMAIN f \ DOMAIN h : Over(f, h)[y] = f[y]
        BY ONLY <2>0, OverIs
    <2>3. PICK o : o = Over(f, h)
        OBVIOUS
    <2>5. g = o
        BY <2>2, <2>3
    <2> QED BY <1>2, <2>2, <2>3, <2>4, <2>5
<1> QED BY <1>1, <1>2

\* The call that a step makes, with the class and the build the reader gave.
CallMade(c, class, build) ==
    [contract |-> c, class |-> class, build |-> build, writes |-> None]

LEMMA MadeIs ==
    ASSUME NEW c, NEW class, NEW build
    PROVE  /\ CallMade(c, class, build).contract = c /\ CallMade(c, class, build).class = class
           /\ CallMade(c, class, build).build = build /\ CallMade(c, class, build).writes = None
           /\ c \in Contracts /\ class \in Classes \cup {None} /\ build \in Build \cup {None}
                 => CallMade(c, class, build) \in Call
BY DEF CallMade, Call

\* What a call does, with the answers of the reader named; a class hash that
\* is not answered leaves no class.
CallStep(c, class, made) ==
    /\ calls' = Append(calls, CallMade(c, class, made))
    /\ cache'.storage = cache.storage
    /\ cache'.class = Given(cache.class, c, class)
    /\ cache'.compiled = Given(cache.compiled, class, made)
    /\ cache' = [storage |-> cache'.storage, class |-> cache'.class, compiled |-> cache'.compiled]
    /\ \/ /\ class = ClassHashAt(c) /\ Lookup(class, made)
          /\ reads' = reads \cup {[kind |-> "class", contract |-> c, value |-> class]}
       \/ class = None /\ made = None /\ Fault /\ UNCHANGED <<reads, changed>>

LEMMA CallContractIs ==
    ASSUME TypeInv, NEW c \in Contracts, CallContract(c)
    PROVE  \E class \in Classes \cup {None}, made \in Build \cup {None} :
              CallStep(c, class, made)
<1>1. PICK class \in Classes \cup {None} : class = ClassHashAt(c)
    BY ReaderTypes DEF CallContract, Executing, Late
<1>2. PICK s, d, p : /\ cache = [storage |-> s, class |-> d, compiled |-> p]
                     /\ s = cache.storage /\ d = cache.class /\ p = cache.compiled
    BY CacheIs
<1>3. \/ \E b \in Build \cup {None} :
            /\ Lookup(class, b) /\ Called(c, class, b)
            /\ cache' = [cache EXCEPT
                           !.class = IF class = None THEN @ ELSE Over(@, [x \in {c} |-> class]),
                           !.compiled = Compiles(class, b)]
            /\ reads' = reads \cup {[kind |-> "class", contract |-> c, value |-> class]}
      \/ Called(c, None, None) /\ UNCHANGED <<cache, reads, changed>> /\ Fault
    BY <1>1 DEF CallContract
<1>4. ASSUME NEW b \in Build \cup {None},
             Lookup(class, b), Called(c, class, b),
             cache' = [cache EXCEPT
                           !.class = IF class = None THEN @ ELSE Over(@, [x \in {c} |-> class]),
                           !.compiled = Compiles(class, b)],
             reads' = reads \cup {[kind |-> "class", contract |-> c, value |-> class]}
      PROVE  CallStep(c, class, b)
    <2>1. PICK e, q : e = Given(d, c, class) /\ q = Given(p, class, b)
        OBVIOUS
    <2>2. cache' = [storage |-> s, class |-> e, compiled |-> q]
        <3>1. Compiles(class, b) = q
            BY <1>2, <2>1 DEF Compiles, Given
        <3>2. (IF class = None THEN d ELSE Over(d, [x \in {c} |-> class])) = e
            BY <2>1 DEF Given
        <3>3. cache' = [cache EXCEPT !.class = e, !.compiled = q]
            BY <1>2, <1>4, <3>1, <3>2
        <3> QED BY <1>2, <3>3
    <2>3. cache'.storage = s /\ cache'.class = e /\ cache'.compiled = q
        BY <2>2
    <2>4. calls' = Append(calls, CallMade(c, class, b))
        BY <1>4 DEF Called, CallMade
    <2> QED BY <1>1, <1>2, <1>4, <2>1, <2>2, <2>3, <2>4 DEF CallStep
<1>5. ASSUME Called(c, None, None), UNCHANGED <<cache, reads, changed>>, Fault
      PROVE  CallStep(c, None, None)
    BY <1>2, <1>5 DEF CallStep, Called, CallMade, Given
<1> QED BY <1>3, <1>4, <1>5

\* What is called and cached has its type.
LEMMA CallTypes ==
    ASSUME TypeInv, pc \in {"validate", "execute"}, NEW c \in Contracts,
           NEW class \in Classes \cup {None}, NEW made \in Build \cup {None},
           made # None => class \in Classes,
           calls' = Append(calls, CallMade(c, class, made)),
           NEW kept \in {class, None},
           cache'.storage = cache.storage, cache'.class = Given(cache.class, c, kept),
           cache'.compiled = Given(cache.compiled, class, made),
           cache' = [storage |-> cache'.storage, class |-> cache'.class, compiled |-> cache'.compiled]
    PROVE  /\ calls' \in Seq(Call) /\ DOMAIN calls \subseteq DOMAIN calls' /\ cache' \in Cache
<1>1. calls' \in Seq(Call) /\ DOMAIN calls \subseteq DOMAIN calls'
    <2>1. calls \in Seq(Call) /\ CallMade(c, class, made) \in Call
        BY MadeIs DEF TypeInv, TypeOK
    <2> QED BY <2>1, CallAppended
<1>2. PICK d, p, e, q : d = cache.class /\ p = cache.compiled /\ e = cache'.class /\ q = cache'.compiled
    OBVIOUS
<1>3. /\ d \in Partial(Contracts, Classes) /\ p \in Partial(Classes, Build)
      /\ cache.storage \in Partial(Contracts, Values)
    BY <1>2, CacheIs
<1>4. e \in Partial(Contracts, Classes)
    <2>1. kept # None => c \in Contracts /\ kept \in Classes
        OBVIOUS
    <2> QED BY <1>2, <1>3, <2>1, MaybeAdded
<1>5. q \in Partial(Classes, Build)
    <2>1. made # None => class \in Classes /\ made \in Build
        OBVIOUS
    <2> QED BY <1>2, <1>3, <2>1, MaybeAdded
<1> QED BY <1>1, <1>2, <1>3, <1>4, <1>5 DEF Cache

LEMMA CallContractTypes ==
    ASSUME TypeInv, NEW c \in Contracts, CallContract(c)
    PROVE  TypeInv'
<1>1. /\ pc \in {"validate", "execute"} /\ pc \in Late /\ UNCHANGED <<chain, sources>>
      /\ UNCHANGED <<pc, args, block, index, replayed, data, changes, result>>
    BY DEF CallContract, Executing, Late
<1>2. PICK class \in Classes \cup {None}, made \in Build \cup {None} : CallStep(c, class, made)
    BY CallContractIs
<1>3. /\ made # None => class \in Classes
      /\ changed' \in SUBSET Sierra /\ (Fault \/ NoFault)
    <2>1. CASE Lookup(class, made)
        BY <1>1, <2>1, LookupIs
    <2>2. CASE class = None /\ made = None /\ Fault /\ UNCHANGED changed
        BY <2>2 DEF TypeInv, TypeOK
    <2> QED BY <1>2, <2>1, <2>2 DEF CallStep
<1>4. calls' \in Seq(Call) /\ DOMAIN calls \subseteq DOMAIN calls' /\ cache' \in Cache
    BY <1>1, <1>2, <1>3, CallTypes DEF CallStep
<1>5. reads' \in SUBSET Read
    BY <1>2 DEF CallStep, TypeInv, TypeOK, Read
<1> QED BY <1>1, <1>3, <1>4, <1>5, ExecutionTypes

LEMMA DeployContractIs ==
    ASSUME TypeInv, NEW c \in Contracts, NEW x \in Classes, DeployContract(c, x)
    PROVE  \E build \in Build \cup {None} :
              /\ Lookup(x, build)
              /\ calls' = Append(calls, CallMade(c, x, build)) /\ UNCHANGED reads
              /\ cache'.storage = cache.storage /\ cache'.class = Given(cache.class, c, None)
              /\ cache'.compiled = Given(cache.compiled, x, build)
              /\ cache' = [storage |-> cache'.storage, class |-> cache'.class,
                           compiled |-> cache'.compiled]
<1>1. PICK build \in Build \cup {None} :
          /\ Lookup(x, build) /\ Called(c, x, build)
          /\ cache' = [cache EXCEPT !.compiled = Compiles(x, build)]
    BY DEF DeployContract
<1>2. PICK s, d, p : /\ cache = [storage |-> s, class |-> d, compiled |-> p]
                     /\ s = cache.storage /\ d = cache.class /\ p = cache.compiled
    BY CacheIs
<1>3. PICK q : q = Given(p, x, build)
    OBVIOUS
<1>4. cache' = [cache EXCEPT !.compiled = q]
    BY <1>1, <1>2, <1>3 DEF Compiles, Given
<1>5. cache' = [storage |-> s, class |-> d, compiled |-> q]
    BY <1>2, <1>4
<1>6. cache'.storage = s /\ cache'.class = d /\ cache'.compiled = q
    BY <1>5
<1>7. calls' = Append(calls, CallMade(c, x, build)) /\ UNCHANGED reads
    BY <1>1 DEF DeployContract, CallMade, Called
<1>8. d = Given(d, c, None)
    BY DEF Given
<1> QED BY <1>1, <1>2, <1>3, <1>5, <1>6, <1>7, <1>8

LEMMA DeployContractTypes ==
    ASSUME TypeInv, NEW c \in Contracts, NEW x \in Classes, DeployContract(c, x)
    PROVE  TypeInv'
<1>1. /\ pc \in {"validate", "execute"} /\ pc \in Late /\ UNCHANGED <<chain, sources>>
      /\ UNCHANGED <<pc, args, block, index, replayed, data, changes, result>>
    BY DEF DeployContract, Executing, Late
<1>2. PICK build \in Build \cup {None} :
          /\ Lookup(x, build)
          /\ calls' = Append(calls, CallMade(c, x, build)) /\ UNCHANGED reads
          /\ cache'.storage = cache.storage /\ cache'.class = Given(cache.class, c, None)
          /\ cache'.compiled = Given(cache.compiled, x, build)
          /\ cache' = [storage |-> cache'.storage, class |-> cache'.class,
                       compiled |-> cache'.compiled]
    BY DeployContractIs
<1>3. changed' \in SUBSET Sierra /\ (Fault \/ NoFault)
    BY <1>1, <1>2, LookupIs
<1>4. calls' \in Seq(Call) /\ DOMAIN calls \subseteq DOMAIN calls' /\ cache' \in Cache
    BY <1>1, <1>2, CallTypes
<1>5. reads' \in SUBSET Read
    BY <1>2 DEF TypeInv, TypeOK
<1> QED BY <1>1, <1>3, <1>4, <1>5, ExecutionTypes

\* A write reads the cell that it writes; the call is the last one.
LEMMA WriteIs ==
    ASSUME TypeInv, NEW v \in Values, Write(v)
    PROVE  \E i \in DOMAIN calls, call \in Call :
              /\ i = Len(calls) /\ calls[i].build # None /\ calls[i].writes = None
              /\ call.contract = calls[i].contract /\ call.class = calls[i].class
              /\ call.build = calls[i].build /\ call.writes = v
              /\ calls' \in Seq(Call) /\ DOMAIN calls' = DOMAIN calls
              /\ calls'[i] = call /\ \A j \in DOMAIN calls \ {i} : calls'[j] = calls[j]
              /\ cache'.storage = StorageKept(calls[i].contract)
              /\ cache'.class = cache.class /\ cache'.compiled = cache.compiled
              /\ cache' = [storage |-> cache'.storage, class |-> cache'.class,
                           compiled |-> cache'.compiled]
              /\ reads' = reads \cup {[kind |-> "storage", contract |-> calls[i].contract,
                                       value |-> StorageAt(calls[i].contract)]}
<1>1. /\ calls # <<>> /\ calls \in Seq(Call) /\ Len(calls) \in Nat /\ DOMAIN calls = 1..Len(calls)
    BY LenProperties DEF Write, TypeInv, TypeOK
<1>2. PICK i \in DOMAIN calls : i = Len(calls)
    BY <1>1, EmptySeq
<1>3. /\ calls[i].build # None /\ calls[i].writes = None /\ calls[i] \in Call
      /\ calls' = [calls EXCEPT ![i].writes = v]
      /\ cache' = [cache EXCEPT !.storage = StorageKept(calls[i].contract)]
      /\ reads' = reads \cup {[kind |-> "storage", contract |-> calls[i].contract,
                               value |-> StorageAt(calls[i].contract)]}
    BY <1>1, <1>2 DEF Write
<1>4. PICK call : call = [calls[i] EXCEPT !.writes = v]
    OBVIOUS
<1>5. /\ call \in Call /\ call.contract = calls[i].contract /\ call.class = calls[i].class
      /\ call.build = calls[i].build /\ call.writes = v
    BY <1>3, <1>4 DEF Call
<1>6. calls' = [calls EXCEPT ![i] = call]
    BY <1>3, <1>4
<1>7. /\ calls' \in Seq(Call) /\ DOMAIN calls' = DOMAIN calls
      /\ calls'[i] = call /\ \A j \in DOMAIN calls \ {i} : calls'[j] = calls[j]
    <2>1. calls' \in Seq(Call) /\ Len(calls') = Len(calls)
          /\ \A j \in 1..Len(calls) : calls'[j] = IF j = i THEN call ELSE calls[j]
        BY <1>1, <1>5, <1>6, ExceptSeq
    <2>2. DOMAIN calls' = 1..Len(calls')
        BY <2>1, LenProperties
    <2> QED BY <1>1, <2>1, <2>2
<1>8. /\ cache'.storage = StorageKept(calls[i].contract)
      /\ cache'.class = cache.class /\ cache'.compiled = cache.compiled
      /\ cache' = [storage |-> cache'.storage, class |-> cache'.class, compiled |-> cache'.compiled]
    <2>1. PICK s, d, p : /\ cache = [storage |-> s, class |-> d, compiled |-> p]
        BY CacheIs
    <2>2. PICK t : t = StorageKept(calls[i].contract)
        OBVIOUS
    <2>3. cache' = [storage |-> t, class |-> d, compiled |-> p]
        BY <1>3, <2>1, <2>2
    <2> QED BY <2>1, <2>2, <2>3
<1> QED BY <1>2, <1>3, <1>5, <1>7, <1>8

LEMMA WriteTypes ==
    ASSUME TypeInv, NEW v \in Values, Write(v)
    PROVE  TypeInv'
<1>1. /\ pc \in {"validate", "execute"} /\ NoFault /\ UNCHANGED <<chain, sources>>
      /\ changed' \in SUBSET Sierra
      /\ UNCHANGED <<pc, args, block, index, replayed, data, changes, result>>
    BY DEF Write, Executing, Run, TypeInv, TypeOK
<1>2. PICK i \in DOMAIN calls :
          /\ calls' \in Seq(Call) /\ DOMAIN calls' = DOMAIN calls
          /\ cache'.storage = StorageKept(calls[i].contract)
          /\ cache'.class = cache.class /\ cache'.compiled = cache.compiled
          /\ cache' = [storage |-> cache'.storage, class |-> cache'.class,
                       compiled |-> cache'.compiled]
          /\ reads' = reads \cup {[kind |-> "storage", contract |-> calls[i].contract,
                                   value |-> StorageAt(calls[i].contract)]}
    BY WriteIs
<1>3. calls[i].contract \in Contracts
    <2>1. calls[i] \in Call
        BY LenProperties DEF TypeInv, TypeOK
    <2> QED BY <2>1 DEF Call
<1>4. StorageAt(calls[i].contract) \in Values
      /\ StorageKept(calls[i].contract) \in Partial(Contracts, Values)
    BY <1>1, <1>3, ReaderTypes DEF Late
<1>5. cache' \in Cache
    BY <1>2, <1>4, CacheIs DEF Cache
<1>6. reads' \in SUBSET Read
    BY <1>2, <1>3, <1>4 DEF TypeInv, TypeOK, Read
<1> QED BY <1>1, <1>2, <1>5, <1>6, ExecutionTypes

LEMMA FetchClassesTypes ==
    ASSUME TypeInv, FetchClasses
    PROVE  TypeInv'
<1>1. /\ pc = "classes" /\ pc' = "map" /\ (Fault \/ NoFault)
      /\ UNCHANGED <<chain, sources, args, block, index, replayed, cache, calls, changes, result, reads>>
    BY DEF FetchClasses
<1>2. PICK missed \in SUBSET inTables :
          /\ data' = [x \in Executed \cap ((inTables \ missed) \cup inCache) |-> DataOf(x, missed)]
          /\ changed' = changed \cup missed
    BY DEF FetchClasses
<1>3. inCache \subseteq Sierra /\ inTables \subseteq Sierra /\ changed \subseteq Sierra /\ Sierra \subseteq Classes
    BY DEF TypeInv, TypeOK, Sierra
<1>4. data' \in Partial(Classes, Build)
    <2>1. PICK D : /\ D = Executed \cap ((inTables \ missed) \cup inCache)
                   /\ data' = [x \in D |-> DataOf(x, missed)]
        BY <1>2
    <2>2. \A x : DataOf(x, missed) \in Build
        BY DEF DataOf, Build
    <2>3. D \subseteq Classes
        BY <1>3, <2>1
    <2>4. data' \in [D -> Build]
        BY <2>1, <2>2
    <2> QED BY <2>3, <2>4 DEF Partial
<1>5. faults' \in 0..MaxFaults /\ changed' \in SUBSET Sierra
    BY <1>1, <1>2, <1>3, FaultsType DEF TypeInv
<1>6. TypeOK'
    BY <1>1, <1>4, <1>5 DEF TypeInv, TypeOK, PCs, sources
<1>7. pc' = "done" <=> result' # None
    BY <1>1 DEF TypeInv, PlaceInv
<1>8. PlaceInv'
    BY <1>1, <1>7, PlaceStays DEF Asking, Early
<1> QED BY <1>1, <1>6, <1>8 DEF TypeInv

\* The changes that are shown, before the node is asked.
LEMMA MapCallsIs ==
    ASSUME TypeInv, MapCalls
    PROVE  \/ Stop("error") /\ Fault /\ changes' = changes
           \/ /\ args.mode = "debug" /\ changes' = changes /\ Stop("shown") /\ NoFault
           \/ /\ args.mode = "simple" /\ pc' = "before" /\ result' = result /\ NoFault
              /\ changes' = [i \in Written |-> [contract |-> calls[i].contract,
                                                before |-> Known(calls[i].contract),
                                                after |-> calls[i].writes]]
<1>1. args.mode \in {"simple", "debug"}
    BY DEF TypeInv, TypeOK, Args
<1> QED BY <1>1 DEF MapCalls, Stop, Written

LEMMA KnownType ==
    ASSUME TypeInv, NEW c \in Contracts
    PROVE  Known(c) \in Values \cup {None}
<1>1. PICK s : s = cache.storage
    OBVIOUS
<1>2. s \in Partial(Contracts, Values)
    BY <1>1, CacheIs
<1>3. c \in DOMAIN s => s[c] \in Values
    BY <1>2, PartialIs
<1> QED BY <1>1, <1>3 DEF Known

LEMMA CallIs ==
    ASSUME TypeInv, NEW i \in DOMAIN calls
    PROVE  /\ calls[i].contract \in Contracts /\ calls[i].class \in Classes \cup {None}
           /\ calls[i].build \in Build \cup {None} /\ calls[i].writes \in Values \cup {None}
<1>1. calls[i] \in Call
    BY LenProperties DEF TypeInv, TypeOK
<1> QED BY <1>1 DEF Call

LEMMA MapCallsTypes ==
    ASSUME TypeInv, MapCalls
    PROVE  TypeInv'
<1>1. /\ pc = "map" /\ Run /\ chain' = chain
      /\ UNCHANGED <<args, block, index, replayed, cache, calls, data, reads>>
    BY DEF MapCalls, Run
<1>2. result = None
    BY <1>1 DEF TypeInv, PlaceInv
<1>3. /\ pc' \in {"done", "before"} /\ result' \in Results /\ (pc' = "done" <=> result' # None)
      /\ (Fault \/ NoFault)
    BY <1>2, MapCallsIs, NoneAssumption DEF Stop, Results
<1>4. faults' \in 0..MaxFaults
    BY <1>3, FaultsType DEF TypeInv
<1>5. changes' \in [DOMAIN changes' -> Change] /\ DOMAIN changes' \subseteq DOMAIN calls
    <2>1. CASE changes' = changes
        BY <2>1 DEF TypeInv, TypeOK
    <2>2. CASE changes' = [i \in Written |-> [contract |-> calls[i].contract,
                                              before |-> Known(calls[i].contract),
                                              after |-> calls[i].writes]]
        <3>1. \A i \in Written : [contract |-> calls[i].contract, before |-> Known(calls[i].contract),
                                  after |-> calls[i].writes] \in Change
            BY CallIs, KnownType DEF Written, Change
        <3>2. Written \subseteq DOMAIN calls
            BY DEF Written
        <3> QED BY <2>2, <3>1, <3>2
    <2> QED BY <2>1, <2>2, MapCallsIs
<1>6. TypeOK'
    BY <1>1, <1>3, <1>4, <1>5 DEF TypeInv, TypeOK, PCs, Results, Run, sources
<1>7. PlaceInv'
    BY <1>1, <1>3, PlaceStays DEF Asking, Early
<1> QED BY <1>1, <1>6, <1>7 DEF TypeInv

LEMMA FilledIs ==
    ASSUME TypeInv, pc = "before", NEW change \in Change
    PROVE  Filled(change) \in Change
<1>1. BlockEnd \in State
    <2>1. BlockEnd = Was(Len(chain[block])) /\ Len(chain[block]) \in 0..Len(chain[block])
        BY InBlock DEF Asking
    <2> QED BY <2>1, InBlock DEF Asking
<1>2. change.contract \in Contracts /\ BlockEnd.storage[change.contract] \in Values
    BY <1>1 DEF Change, State
<1>3. PICK v \in Values : v = BlockEnd.storage[change.contract]
    BY <1>2
<1> QED BY <1>3 DEF Filled, Change

LEMMA FetchBeforeTypes ==
    ASSUME TypeInv, FetchBefore
    PROVE  TypeInv'
<1>1. /\ pc = "before" /\ pc' = "done" /\ result' = "shown" /\ Run /\ chain' = chain
      /\ UNCHANGED <<args, block, index, replayed, cache, calls, data, reads>>
    BY DEF FetchBefore, Run, Stop
<1>2. PICK fails \in BOOLEAN :
          LET filled == [i \in DOMAIN changes |-> IF fails THEN changes[i] ELSE Filled(changes[i])]
          IN /\ changes' = [i \in {i \in DOMAIN changes :
                                      filled[i].before \notin {None, filled[i].after}} |-> filled[i]]
             /\ IF fails THEN Fault ELSE NoFault
    BY DEF FetchBefore
<1>3. faults' \in 0..MaxFaults
    BY <1>2, FaultsType DEF TypeInv
<1>4. changes' \in [DOMAIN changes' -> Change] /\ DOMAIN changes' \subseteq DOMAIN calls
    <2> DEFINE filled == [i \in DOMAIN changes |-> IF fails THEN changes[i] ELSE Filled(changes[i])]
               shown == {i \in DOMAIN changes : filled[i].before \notin {None, filled[i].after}}
    <2>1. \A i \in DOMAIN changes : filled[i] \in Change
        <3>1. \A i \in DOMAIN changes : changes[i] \in Change
            BY DEF TypeInv, TypeOK
        <3> QED BY <1>1, <3>1, FilledIs
    <2>2. changes' = [i \in shown |-> filled[i]]
        BY <1>2
    <2>3. shown \subseteq DOMAIN changes
        OBVIOUS
    <2> HIDE DEF shown, filled
    <2> QED BY <2>1, <2>2, <2>3 DEF TypeInv, TypeOK
<1>5. TypeOK'
    BY <1>1, <1>3, <1>4 DEF TypeInv, TypeOK, PCs, Run, sources
<1>6. PlaceInv'
    BY <1>1, NoneAssumption, PlaceStays DEF Asking, Early
<1> QED BY <1>1, <1>5, <1>6 DEF TypeInv

\* What others do to the sources is not a matter of the run.
LEMMA OthersTypes ==
    ASSUME TypeInv, Others \/ UNCHANGED vars
    PROVE  TypeInv'
<1>1. UNCHANGED <<chain, pc, args, block, index, replayed, cache, calls, data, changes, result, reads, faults>>
    BY DEF Others, vars
<1>2. inCache' \in SUBSET Sierra /\ inTables' \in SUBSET Sierra /\ changed' \in SUBSET Sierra
    BY DEF Others, Compiled, Lapsed, Verified, vars, TypeInv, TypeOK
<1>3. TypeOK'
    BY <1>1, <1>2 DEF TypeInv, TypeOK
<1>4. PlaceInv'
    BY <1>1 DEF TypeInv, PlaceInv, Placed, Submitted
<1> QED BY <1>1, <1>3, <1>4 DEF TypeInv

LEMMA StepTypes == TypeInv /\ [Next]_vars => TypeInv'
<1> SUFFICES ASSUME TypeInv, [Next]_vars PROVE TypeInv'
    OBVIOUS
<1>1. CASE AskByHash \/ AskDebug \/ AskByArguments \/ AskByMessage
    BY <1>1, AskTypes
<1>2. CASE FindBlockOfMessage \/ FetchTransaction \/ FetchReceipt
    BY <1>2, FetchTypes
<1>3. CASE ExtractBlock
    BY <1>3, ExtractTypes
<1>4. CASE PrepareStorageView \/ EndReplay \/ EndExecution \/ PostExec
    BY <1>4, LateTypes
<1>5. CASE ReplayTransaction
    BY <1>5, ReplayTypes
<1>6. CASE \E c \in Contracts : CallContract(c)
    BY <1>6, CallContractTypes
<1>7. CASE \E c \in Contracts, x \in Classes : DeployContract(c, x)
    BY <1>7, DeployContractTypes
<1>8. CASE \E v \in Values : Write(v)
    BY <1>8, WriteTypes
<1>9. CASE FetchClasses
    BY <1>9, FetchClassesTypes
<1>10. CASE MapCalls
    BY <1>10, MapCallsTypes
<1>11. CASE FetchBefore
    BY <1>11, FetchBeforeTypes
<1>12. CASE Others \/ UNCHANGED vars
    BY <1>12, OthersTypes
<1> QED BY <1>1, <1>2, <1>3, <1>4, <1>5, <1>6, <1>7, <1>8, <1>9, <1>10, <1>11, <1>12 DEF Next

\* The types of the state, with the transaction and the block that are asked
\* for (simulate.rs, debugger.rs: what each stage is entered with).
THEOREM TypeInvCorrect == Spec => []TypeInv
BY InitTypes, StepTypes, PTL DEF Spec

-----------------------------------------------------------------------------
(* The place of the transaction *)

\* The fields of a transaction that is run by its hash, but for a declaration
\* and one without a nonce, match its own place in the block and no other.
LEMMA OwnMatches ==
    ASSUME TypeInv, pc = "block", args.by = "hash", args.kind # "declare", TxNonce(args) # None
    PROVE  /\ args.own[2] \in 1..Len(chain[block])
           /\ \A j \in 1..Len(chain[block]) :
                 match_transaction(chain[block][j]) <=> j = args.own[2]
<1>0. /\ args.own \in Placed /\ args = Submitted(args.mode, args.by, args.own)
      /\ args.kind # "deploy_account" /\ block = args.own[1] /\ chain \in Chains
    BY DEF TypeInv, PlaceInv, Asking
<1>1. PICK i \in 1..Len(chain[block]) : i = args.own[2]
    BY <1>0, PlacedIs
<1>2. block \in 1..Len(chain) /\ \A j \in 1..Len(chain[block]) : chain[block][j] \in Transaction
    BY InBlock DEF Asking
<1>3. PICK tx \in Transaction : tx = chain[block][i]
    BY <1>2
<1>4. /\ args.kind = tx.kind /\ args.version = tx.version /\ args.sender = tx.sender
      /\ args.nonce = tx.nonce /\ args.calldata = tx.calldata
    BY <1>0, <1>1, <1>3 DEF Submitted
<1>5. /\ tx.kind \in {"invoke", "l1_handler"} /\ tx.sender \in Contracts
      /\ tx.nonce # None /\ tx.calldata # None /\ tx.version \in {0, 1, 3}
      /\ tx.kind = "invoke" => tx.version # 0
    BY <1>0, <1>3, <1>4, ChainsAssumption DEF Transaction, Kinds, TxNonce
<1>6. match_transaction(tx)
    BY <1>4, <1>5 DEF match_transaction, TxVersion, TxSender, SameNonce, TxNonce, TxCalldata
<1>7. ASSUME NEW j \in 1..Len(chain[block]), j # i, match_transaction(chain[block][j])
      PROVE  FALSE
    <2>1. PICK other \in Transaction : other = chain[block][j]
        BY <1>2
    <2>2. /\ other.kind \in {"invoke", "declare", "l1_handler", "deploy_account"}
          /\ other.sender # None /\ other.nonce # None
        BY <2>1, ChainsAssumption DEF Transaction, Kinds
    <2>3. /\ TxVersion(other) = tx.version /\ TxSender(other) \in {None, tx.sender}
          /\ TxNonce(other) = tx.nonce /\ TxCalldata(other) = tx.calldata
        BY <1>4, <1>5, <1>7, <2>1 DEF match_transaction, SameNonce
    <2>4. /\ tx.kind = "l1_handler" => tx.version = 0
          /\ other.kind = "l1_handler" => other.version = 0
          /\ OfAccount(tx) /\ OfAccount(other) /\ tx.sender = other.sender => tx.nonce # other.nonce
          /\ tx.kind = "l1_handler" /\ other.kind = "l1_handler" => tx.nonce # other.nonce
          /\ other.kind = "deploy_account" /\ tx.kind = "invoke" => other.calldata # tx.calldata
        BY <1>0, <1>2, <1>3, <1>7, <2>1, NoncesAssumption
    <2>5. CASE other.kind = "declare"
        BY <1>5, <2>3, <2>5 DEF TxCalldata
    <2>6. CASE other.kind = "deploy_account"
        BY <1>5, <2>3, <2>4, <2>6 DEF TxVersion, TxCalldata
    <2>7. CASE other.kind = "invoke"
        BY <1>5, <2>2, <2>3, <2>4, <2>7 DEF TxVersion, TxSender, TxNonce, OfAccount
    <2>8. CASE other.kind = "l1_handler"
        BY <1>5, <2>2, <2>3, <2>4, <2>8 DEF TxVersion, TxNonce
    <2> QED BY <2>2, <2>5, <2>6, <2>7, <2>8
<1> QED BY <1>1, <1>3, <1>6, <1>7

LEMMA ExtractFinds ==
    ASSUME TypeInv, ExtractBlock
    PROVE  FindsItself'
<1> SUFFICES ASSUME pc' = "fork", args'.by = "hash", args'.kind # "declare", TxNonce(args') # None
             PROVE  index' = args'.own[2] - 1
    BY NoneAssumption DEF ExtractBlock, Stop, FindsItself
<1>1. pc = "block" /\ args' = args /\ index' = extract_transaction_index
    BY DEF ExtractBlock, Stop
<1> DEFINE hits == {i \in 1..Len(chain[block]) : match_transaction(chain[block][i])}
           first == CHOOSE i \in hits : \A j \in hits : i <= j
<1>2. hits = {args.own[2]} /\ args.own[2] \in Nat
    <2>1. /\ args.own[2] \in 1..Len(chain[block])
          /\ \A j \in 1..Len(chain[block]) :
                 match_transaction(chain[block][j]) <=> j = args.own[2]
        BY <1>1, OwnMatches
    <2>2. Len(chain[block]) \in Nat
        BY <1>1, InBlock DEF Asking
    <2> QED BY <2>1, <2>2
<1>3. index' = first - 1
    BY <1>1, <1>2 DEF extract_transaction_index
<1> HIDE DEF hits
<1>4. args.own[2] \in hits /\ \A j \in hits : args.own[2] <= j
    BY <1>2
<1>5. first = args.own[2]
    BY <1>2, <1>4
<1> QED BY <1>1, <1>3, <1>5

LEMMA StepFinds == TypeInv /\ FindsItself /\ [Next]_vars => FindsItself'
<1> SUFFICES ASSUME TypeInv, FindsItself, [Next]_vars PROVE FindsItself'
    OBVIOUS
<1>1. CASE AskByHash \/ AskDebug \/ AskByArguments \/ AskByMessage
    BY <1>1, NoneAssumption DEF AskByHash, AskDebug, AskByArguments, AskByMessage, Stop, FindsItself
<1>2. CASE FindBlockOfMessage \/ FetchTransaction \/ FetchReceipt
    BY <1>2, NoneAssumption DEF FindBlockOfMessage, FetchTransaction, FetchReceipt, Stop, FindsItself
<1>3. CASE ExtractBlock
    BY <1>3, ExtractFinds
<1>4. CASE PrepareStorageView \/ EndReplay \/ EndExecution \/ PostExec \/ ReplayTransaction
              \/ FetchClasses \/ MapCalls \/ FetchBefore
    <2>1. /\ pc \notin {"ask", "transaction", "receipt", "message", "block", "done"}
          /\ UNCHANGED <<args, index>>
        BY <1>4 DEF PrepareStorageView, EndReplay, EndExecution, PostExec, ReplayTransaction,
                    FetchClasses, MapCalls, FetchBefore, NotRun, Executing
    <2>2. result = None
        BY <2>1 DEF TypeInv, PlaceInv, TypeOK, PCs
    <2> QED BY <2>1, <2>2 DEF FindsItself
<1>5. CASE (\E c \in Contracts : CallContract(c)) \/ (\E c \in Contracts, x \in Classes : DeployContract(c, x))
              \/ (\E v \in Values : Write(v)) \/ Others \/ UNCHANGED vars
    <2>1. UNCHANGED <<pc, args, index, result>>
        BY <1>5 DEF CallContract, DeployContract, Write, Others, vars
    <2> QED BY <2>1 DEF FindsItself
<1> QED BY <1>1, <1>2, <1>3, <1>4, <1>5 DEF Next

\* A transaction that is run by its hash finds its own place in its block
\* (transaction_info.rs), whatever else is in the block, as long as nonces
\* differ as the protocol has them.
THEOREM FindsItselfCorrect == Spec => []FindsItself
<1>1. Init => FindsItself
    BY DEF Init, FindsItself
<1> QED BY <1>1, TypeInvCorrect, StepFinds, PTL DEF Spec

-----------------------------------------------------------------------------
(* The fork *)

\* How far the fork is; what has been executed was read from it.
ReadInv ==
    /\ pc \in Early \cup {"fork"} =>
          replayed = 0 /\ DOMAIN cache.storage = {} /\ DOMAIN cache.class = {}
    /\ pc \in Early \cup {"fork", "replay"} => calls = <<>> /\ reads = {}
    /\ pc = "replay" => ForkedAt(replayed)
    /\ pc \in Late \/ result = "shown" => ForkedAt(index)
    /\ ReadsAreBefore /\ DeclaredClassesRun
ForkingInv == TypeInv /\ ReadInv

\* Classes stay declared.
LEMMA DeclaredStays ==
    ASSUME TypeInv, pc \notin Asking, pc # "done", NEW k \in 0..Len(chain[block])
    PROVE  Was(k).declared \subseteq Was(Len(chain[block])).declared
<1>1. PICK n \in Nat : n = Len(chain[block])
    BY InBlock
<1>2. \A i \in 1..n : Was(i - 1).declared \subseteq Was(i).declared
    <2> TAKE i \in 1..n
    <2>1. i - 1 \in 0..n /\ i \in 1..Len(chain[block]) /\ i - 1 \in 0..Len(chain[block])
        BY <1>1
    <2>2. PICK state \in State, tx \in Transaction :
              state = Was(i - 1) /\ tx = chain[block][i] /\ Was(i) = After(state, tx)
        BY <2>1, InBlock
    <2> QED BY <2>2, AfterIs
<1> DEFINE T == {m \in 0..n : ~(Was(n - m).declared \subseteq Was(n).declared)}
<1>3. T = {}
    <2> SUFFICES ASSUME T # {} PROVE FALSE
        OBVIOUS
    <2>1. T \subseteq Nat
        BY <1>1
    <2>2. PICK m \in T : \A l \in T : m <= l
        <3> HIDE DEF T
        <3> QED BY <2>1, Least
    <2>3. m \in 0..n /\ m # 0 /\ ~(Was(n - m).declared \subseteq Was(n).declared)
        BY <1>1
    <2>4. m - 1 \in 0..n /\ n - (m - 1) \in 1..n /\ (n - (m - 1)) - 1 = n - m /\ ~(m <= m - 1)
        BY <1>1, <2>3
    <2>5. m - 1 \notin T
        BY <2>2, <2>4
    <2>6. Was(n - (m - 1)).declared \subseteq Was(n).declared
        BY <2>4, <2>5
    <2>7. Was((n - (m - 1)) - 1).declared \subseteq Was(n - (m - 1)).declared
        BY <1>2, <2>4
    <2> QED BY <2>3, <2>4, <2>6, <2>7
<1>4. n - k \in 0..n /\ n - (n - k) = k
    BY <1>1
<1> QED BY <1>1, <1>3, <1>4

LEMMA ReplacedStep ==
    ASSUME NEW k \in Nat
    PROVE  ReplacedBy(k + 1) = ReplacedBy(k) \cup DOMAIN chain[block][k + 1].effect.replace
<1>1. 1..(k + 1) = (1..k) \cup {k + 1}
    OBVIOUS
<1> QED BY <1>1 DEF ReplacedBy

\* A step that only asks, counts or answers leaves the fork as it is.
LEMMA ForkedStays ==
    ASSUME UNCHANGED <<chain, block, cache>>, faults \in Nat, Fault \/ NoFault, NEW k, ForkedAt(k)
    PROVE  ForkedAt(k)'
<1>1. faults' = 0 => faults = 0
    BY DEF Fault, NoFault
<1> QED BY <1>1 DEF ForkedAt, Was, ReplacedBy

LEMMA ReadsStay ==
    ASSUME UNCHANGED <<chain, block, index, calls, reads>>, faults \in Nat, Fault \/ NoFault,
           ReadsAreBefore, DeclaredClassesRun
    PROVE  ReadsAreBefore' /\ DeclaredClassesRun'
<1>1. faults' = 0 => faults = 0
    BY DEF Fault, NoFault
<1> QED BY <1>1 DEF ReadsAreBefore, DeclaredClassesRun, NotReplayed, Adjusted, Before, Upgraded

LEMMA FaultsNat == ASSUME TypeInv PROVE faults \in Nat
BY BoundsAssumption DEF TypeInv, TypeOK

LEMMA InitReads == Init => ReadInv
<1> SUFFICES ASSUME Init PROVE ReadInv
    OBVIOUS
<1>1. /\ pc = "ask" /\ replayed = 0 /\ calls = <<>> /\ reads = {} /\ result = None
      /\ DOMAIN cache.storage = {} /\ DOMAIN cache.class = {}
    BY DEF Init, Empty
<1>2. DOMAIN calls = {}
    BY <1>1
<1> QED BY <1>1, <1>2, NoneAssumption DEF ReadInv, ReadsAreBefore, DeclaredClassesRun, Late

\* Nothing is read before the place of the transaction is known.
LEMMA EarlyReads ==
    ASSUME ForkingInv, AskByHash \/ AskDebug \/ AskByArguments \/ AskByMessage
                       \/ FindBlockOfMessage \/ FetchTransaction \/ FetchReceipt \/ ExtractBlock
    PROVE  ReadInv'
<1>1. /\ pc \in Early /\ UNCHANGED <<replayed, cache, calls, reads>>
      /\ pc' \in Early \cup {"fork"} \/ pc' = "done"
      /\ result' = result \/ result' \in {"error", "messages", "unsupported", "resources"}
    BY DEF AskByHash, AskDebug, AskByArguments, AskByMessage, FindBlockOfMessage, FetchTransaction,
           FetchReceipt, ExtractBlock, NotRun, Stop, Early
<1>2. /\ calls = <<>> /\ reads = {} /\ replayed = 0
      /\ DOMAIN cache.storage = {} /\ DOMAIN cache.class = {}
    BY <1>1 DEF ForkingInv, ReadInv
<1>3. result = None
    BY <1>1 DEF ForkingInv, TypeInv, PlaceInv, Early
<1>4. DOMAIN calls = {} /\ result' # "shown"
    BY <1>1, <1>2, <1>3, NoneAssumption
<1> QED BY <1>1, <1>2, <1>4 DEF ReadInv, ReadsAreBefore, DeclaredClassesRun, Late, Early

\* With nothing replayed the fork is the chain before the block.
LEMMA ForkedAtStart ==
    ASSUME TypeInv, DOMAIN cache.storage = {}, DOMAIN cache.class = {}
    PROVE  ForkedAt(0)
BY DEF ForkedAt

LEMMA PrepareReads ==
    ASSUME ForkingInv, PrepareStorageView
    PROVE  ReadInv'
<1>1. /\ pc = "fork" /\ UNCHANGED <<chain, block, index, replayed, cache, calls, reads>>
      /\ (Fault \/ NoFault) /\ pc' \in {"done", "replay", "validate"}
      /\ \/ result' = "error" /\ pc' = "done"
         \/ result' = result /\ pc' = IF Len(chain[block]) > 1 THEN "replay" ELSE "validate"
    BY DEF PrepareStorageView, NotRun, Run, Stop
<1>2. /\ calls = <<>> /\ reads = {} /\ replayed = 0
      /\ DOMAIN cache.storage = {} /\ DOMAIN cache.class = {} /\ result = None
    BY <1>1 DEF ForkingInv, ReadInv, TypeInv, PlaceInv
<1>3. ForkedAt(0)'
    BY <1>1, <1>2, ForkedAtStart, FaultsNat, ForkedStays DEF ForkingInv
<1>4. pc' = "validate" => index = 0
    <2>1. Len(chain[block]) \in Nat
        BY <1>1, InBlock DEF ForkingInv, Asking
    <2> QED BY <1>1, <2>1 DEF ForkingInv, TypeInv, TypeOK
<1>5. ReadsAreBefore' /\ DeclaredClassesRun'
    BY <1>1, FaultsNat, ReadsStay DEF ForkingInv, ReadInv
<1>6. result' # "shown"
    BY <1>1, <1>2, NoneAssumption
<1> QED BY <1>1, <1>2, <1>3, <1>4, <1>5, <1>6 DEF ReadInv, Late, Early

\* The replay of a transaction brings the fork to the chain after it.
LEMMA ReplayForks ==
    ASSUME ForkingInv, ReplayTransaction
    PROVE  ForkedAt(replayed)'
<1>1. /\ pc = "replay" /\ replayed < index /\ UNCHANGED <<chain, block, index>> /\ ForkedAt(replayed)
      /\ replayed' = replayed + 1
    BY DEF ReplayTransaction, Run, ForkingInv, ReadInv
<1>2. PICK k : k = replayed
    OBVIOUS
<1>3. /\ k \in Nat /\ k + 1 \in 1..Len(chain[block]) /\ k \in 0..Len(chain[block])
      /\ k + 1 \in 0..Len(chain[block]) /\ (k + 1) - 1 = k
    <2>1. index \in 0..Len(chain[block]) /\ Len(chain[block]) \in Nat
        BY <1>1, InBlock DEF ForkingInv, Asking
    <2>2. replayed \in 0..index
        BY DEF ForkingInv, TypeInv, TypeOK
    <2> QED BY <1>1, <1>2, <2>1, <2>2
<1>4. PICK state \in State, tx \in Transaction :
          state = Was(k) /\ tx = chain[block][k + 1] /\ Was(k + 1) = After(state, tx)
    BY <1>1, <1>3, InBlock DEF ForkingInv, Asking
<1> DEFINE fetched == {x \in tx.effect.declare \ Deprecated : x \in BlockEnd.declared}
<1>5. PICK got \in {fetched, {}} :
          /\ cache' = [storage |-> Over(cache.storage, tx.effect.storage),
                       class |-> Over(cache.class, tx.effect.deploy),
                       compiled |-> Over(cache.compiled, [x \in got |-> "original"])]
          /\ IF got = fetched THEN NoFault ELSE Fault
    BY <1>2, <1>4 DEF ReplayTransaction, DeclaredAt
<1>6. PICK s, d, p, t, e, g :
          /\ s = cache.storage /\ d = cache.class /\ p = cache.compiled
          /\ t = tx.effect.storage /\ e = tx.effect.deploy /\ g = [x \in got |-> "original"]
    OBVIOUS
<1>7. cache'.storage = Over(s, t) /\ cache'.class = Over(d, e) /\ cache'.compiled = Over(p, g)
    BY <1>5, <1>6
<1>8. /\ s \in Partial(Contracts, Values) /\ d \in Partial(Contracts, Classes)
      /\ t \in Partial(Contracts, Values) /\ e \in Partial(Contracts, Classes)
    BY <1>6, CacheIs DEF ForkingInv, Transaction, Effect
<1>9. /\ DOMAIN cache'.storage = DOMAIN s \cup DOMAIN t
      /\ \A c \in DOMAIN t : cache'.storage[c] = t[c]
      /\ \A c \in DOMAIN s \ DOMAIN t : cache'.storage[c] = s[c]
    <2>1. /\ DOMAIN Over(s, t) = DOMAIN s \cup DOMAIN t
          /\ \A c \in DOMAIN t : Over(s, t)[c] = t[c]
          /\ \A c \in DOMAIN s \ DOMAIN t : Over(s, t)[c] = s[c]
        BY DEF Over
    <2> QED BY <1>7, <2>1
<1>10. /\ DOMAIN cache'.class = DOMAIN d \cup DOMAIN e
       /\ \A c \in DOMAIN e : cache'.class[c] = e[c]
       /\ \A c \in DOMAIN d \ DOMAIN e : cache'.class[c] = d[c]
    <2>1. /\ DOMAIN Over(d, e) = DOMAIN d \cup DOMAIN e
          /\ \A c \in DOMAIN e : Over(d, e)[c] = e[c]
          /\ \A c \in DOMAIN d \ DOMAIN e : Over(d, e)[c] = d[c]
        BY DEF Over
    <2> QED BY <1>7, <2>1
<1>11. Was(k)' = Was(k) /\ Was(k + 1)' = Was(k + 1) /\ Was(0)' = Was(0)
       /\ ReplacedBy(k)' = ReplacedBy(k) /\ ReplacedBy(k + 1)' = ReplacedBy(k + 1)
    BY <1>1 DEF Was, ReplacedBy
<1>12. \A c \in Contracts : Was(k + 1).storage[c] = IF c \in DOMAIN cache'.storage
                                                   THEN cache'.storage[c] ELSE Was(0).storage[c]
    <2> TAKE c \in Contracts
    <2>1. Was(k).storage[c] = IF c \in DOMAIN s THEN s[c] ELSE Was(0).storage[c]
        BY <1>1, <1>2, <1>6 DEF ForkedAt
    <2>2. Was(k + 1).storage[c] = IF c \in DOMAIN t THEN t[c] ELSE Was(k).storage[c]
        BY <1>4, <1>6, AfterIs
    <2> QED BY <1>9, <2>1, <2>2
<1>13. \A c \in Contracts \ ReplacedBy(k + 1) :
           IF c \in DOMAIN cache'.class
           THEN c \in DOMAIN Was(k + 1).class /\ Was(k + 1).class[c] = cache'.class[c]
           ELSE /\ c \in DOMAIN Was(k + 1).class <=> c \in DOMAIN Was(0).class
                /\ c \in DOMAIN Was(k + 1).class => Was(k + 1).class[c] = Was(0).class[c]
    <2> TAKE c \in Contracts \ ReplacedBy(k + 1)
    <2>1. c \notin ReplacedBy(k) /\ c \notin DOMAIN tx.effect.replace
        BY <1>3, <1>4, ReplacedStep
    <2>2. IF c \in DOMAIN d
          THEN c \in DOMAIN Was(k).class /\ Was(k).class[c] = d[c]
          ELSE /\ c \in DOMAIN Was(k).class <=> c \in DOMAIN Was(0).class
               /\ c \in DOMAIN Was(k).class => Was(k).class[c] = Was(0).class[c]
        BY <1>1, <1>2, <1>6, <2>1 DEF ForkedAt
    <2>3. /\ c \in DOMAIN Was(k + 1).class <=> c \in DOMAIN Was(k).class \/ c \in DOMAIN e
          /\ c \in DOMAIN e => Was(k + 1).class[c] = e[c]
          /\ c \notin DOMAIN e /\ c \in DOMAIN Was(k).class => Was(k + 1).class[c] = Was(k).class[c]
        BY <1>4, <1>6, <2>1, AfterIs
    <2>4. CASE c \in DOMAIN e
        BY <1>10, <2>3, <2>4
    <2>5. CASE c \notin DOMAIN e
        BY <1>10, <2>2, <2>3, <2>5
    <2> QED BY <2>4, <2>5
<1>14. faults' = 0 => Was(k + 1).declared \ Deprecated \subseteq Was(0).declared \cup DOMAIN cache'.compiled
    <2> SUFFICES ASSUME faults' = 0
                 PROVE  Was(k + 1).declared \ Deprecated \subseteq Was(0).declared \cup DOMAIN cache'.compiled
        OBVIOUS
    <2>1. faults = 0 /\ got = fetched
        BY <1>5, FaultsNat DEF Fault, NoFault, ForkingInv
    <2>2. DOMAIN cache'.compiled = DOMAIN p \cup got
        BY <1>6, <1>7 DEF Over
    <2>3. Was(k).declared \ Deprecated \subseteq Was(0).declared \cup DOMAIN p
        BY <1>1, <1>2, <1>6, <2>1 DEF ForkedAt
    <2>4. Was(k + 1).declared = Was(k).declared \cup tx.effect.declare
        BY <1>4, AfterIs
    <2>5. Was(k + 1).declared \subseteq BlockEnd.declared
        BY <1>1, <1>3, DeclaredStays, InBlock DEF ForkingInv, Asking
    <2> QED BY <2>1, <2>2, <2>3, <2>4, <2>5
<1>15. ForkedAt(k + 1)'
    BY <1>11, <1>12, <1>13, <1>14 DEF ForkedAt
<1>16. k + 1 = replayed'
    BY <1>1, <1>2
<1> QED BY <1>15, <1>16

LEMMA ReplayReads ==
    ASSUME ForkingInv, ReplayTransaction
    PROVE  ReadInv'
<1>1. /\ pc = "replay" /\ pc' = pc /\ UNCHANGED <<chain, block, index, calls, reads, result>>
      /\ (Fault \/ NoFault)
    BY DEF ReplayTransaction, Run
<1>2. calls = <<>> /\ reads = {} /\ result = None
    BY <1>1 DEF ForkingInv, ReadInv, TypeInv, PlaceInv
<1>3. ReadsAreBefore' /\ DeclaredClassesRun'
    BY <1>1, FaultsNat, ReadsStay DEF ForkingInv, ReadInv
<1> QED BY <1>1, <1>2, <1>3, ReplayForks, NoneAssumption DEF ReadInv, Late, Early

\* Steps after the fork that leave it alone.
LEMMA LateReads ==
    ASSUME ForkingInv, EndReplay \/ EndExecution \/ PostExec \/ FetchClasses \/ MapCalls \/ FetchBefore
    PROVE  ReadInv'
<1>1. /\ pc \in Late \cup {"replay"} /\ pc' \in Late \cup {"done"}
      /\ UNCHANGED <<chain, block, index, replayed, cache, calls, reads>>
      /\ pc = "replay" => replayed = index
      /\ (Fault \/ NoFault)
    BY DEF EndReplay, EndExecution, PostExec, FetchClasses, MapCalls, FetchBefore, NotRun, Run, Stop,
           Executing, Late
<1>2. ForkedAt(index)
    BY <1>1 DEF ForkingInv, ReadInv
<1>3. ForkedAt(index)'
    BY <1>1, <1>2, FaultsNat, ForkedStays DEF ForkingInv
<1>4. ReadsAreBefore' /\ DeclaredClassesRun'
    BY <1>1, FaultsNat, ReadsStay DEF ForkingInv, ReadInv
<1> QED BY <1>1, <1>3, <1>4 DEF ReadInv, Late, Early

LEMMA OthersReads ==
    ASSUME ForkingInv, Others \/ UNCHANGED vars
    PROVE  ReadInv'
<1>1. UNCHANGED <<chain, pc, block, index, replayed, cache, calls, result, reads, faults>>
    BY DEF Others, vars
<1> QED BY <1>1 DEF ForkingInv, ReadInv, ForkedAt, Was, ReplacedBy, ReadsAreBefore,
           DeclaredClassesRun, NotReplayed, Adjusted, Before, Upgraded

-----------------------------------------------------------------------------
(* What the execution reads of the fork *)

LEMMA ClassRead ==
    ASSUME ForkingInv, pc \in Late, NEW c \in Contracts, c \notin Upgraded
    PROVE  ClassHashAt(c) = IF c \in DOMAIN Before.class THEN Before.class[c] ELSE None
<1>1. /\ ForkedAt(index) /\ Before = Was(index) /\ Adjusted = Was(0) /\ Upgraded = ReplacedBy(index)
    BY InBlock DEF ForkingInv, ReadInv, Late, Asking, Upgraded, ReplacedBy
<1> QED BY <1>1 DEF ForkedAt, ClassHashAt

LEMMA StorageRead ==
    ASSUME ForkingInv, pc \in Late, NEW c \in Contracts
    PROVE  StorageAt(c) = Before.storage[c]
<1>1. /\ ForkedAt(index) /\ Before = Was(index) /\ Adjusted = Was(0)
    BY InBlock DEF ForkingInv, ReadInv, Late, Asking
<1>2. c \notin DOMAIN Adjusted.class => Was(0).storage[c] = Zero
    <2>1. chain \in Chains /\ block \in 1..Len(chain) /\ 0 \in 0..Len(chain[block])
        BY InBlock DEF ForkingInv, TypeInv, Late, Asking
    <2> QED BY <1>1, <2>1, StorageExists DEF Was
<1> QED BY <1>1, <1>2 DEF ForkedAt, StorageAt

\* A class that was declared before can be had, but for Cairo 0 classes of the
\* block itself.
LEMMA ClassRuns ==
    ASSUME ForkingInv, pc \in Late, faults = 0, NEW x \in Before.declared \ NotReplayed
    PROVE  CompiledClass(x) # None /\ x # None
<1>1. /\ ForkedAt(index) /\ Before = Was(index) /\ Adjusted = Was(0)
    BY InBlock DEF ForkingInv, ReadInv, Late, Asking
<1>2. x \in Adjusted.declared \cup DOMAIN cache.compiled
    BY <1>1 DEF ForkedAt, NotReplayed
<1>3. x \in DOMAIN cache.compiled => cache.compiled[x] # None
    <2>1. PICK p : p = cache.compiled
        OBVIOUS
    <2>2. p \in Partial(Classes, Build)
        BY <2>1, CacheIs DEF ForkingInv
    <2>3. x \in DOMAIN p => p[x] \in Build
        BY <2>2, PartialIs
    <2> QED BY <2>1, <2>3, NoneAssumption
<1>4. x \in Classes
    <2>1. Was(index) \in State
        BY InBlock DEF ForkingInv, Late, Asking
    <2> QED BY <1>1, <2>1 DEF State
<1>5. None \notin {"original", "walnut", "voyager"}
    BY NoneAssumption DEF Build
<1> QED BY <1>2, <1>3, <1>4, <1>5, ChainsAssumption DEF CompiledClass

\* The execution keeps the fork where it is if what it adds to the cache is
\* what it has read.
LEMMA ForkedKept ==
    ASSUME ForkingInv, pc \in Late, UNCHANGED <<chain, block, index>>, Fault \/ NoFault,
           NEW c \in Contracts,
           cache'.storage = cache.storage \/ cache'.storage = StorageKept(c),
           NEW class, cache'.class = Given(cache.class, c, class),
           class # None => class = ClassHashAt(c),
           DOMAIN cache.compiled \subseteq DOMAIN cache'.compiled
    PROVE  ForkedAt(index)'
<1>1. /\ ForkedAt(index) /\ Before = Was(index) /\ Adjusted = Was(0)
    BY InBlock DEF ForkingInv, ReadInv, Late, Asking
<1>2. PICK s, d, t, e : /\ s = cache.storage /\ d = cache.class
                        /\ t = cache'.storage /\ e = cache'.class
    OBVIOUS
<1>3. /\ DOMAIN s \subseteq DOMAIN t
      /\ \A x \in DOMAIN t : x # c => x \in DOMAIN s /\ t[x] = s[x]
      /\ c \in DOMAIN t => t[c] = StorageAt(c)
    <2>1. CASE cache'.storage = cache.storage
        BY <1>2, <2>1 DEF StorageAt
    <2>2. CASE cache'.storage = StorageKept(c)
        BY <1>2, <2>2 DEF StorageKept, StorageAt, Over
    <2> QED BY <2>1, <2>2
<1>4. /\ DOMAIN d \subseteq DOMAIN e
      /\ \A x \in DOMAIN e : x # c => x \in DOMAIN d /\ e[x] = d[x]
      /\ c \in DOMAIN e => e[c] = ClassHashAt(c)
      /\ c \in DOMAIN e /\ c \notin DOMAIN d => class # None
    <2>1. CASE class = None
        BY <1>2, <2>1 DEF Given, ClassHashAt
    <2>2. CASE class # None
        BY <1>2, <2>2 DEF Given, Over
    <2> QED BY <2>1, <2>2
<1>5. Was(index)' = Was(index) /\ Was(0)' = Was(0) /\ ReplacedBy(index)' = ReplacedBy(index)
    BY DEF Was, ReplacedBy
<1>6. \A x \in Contracts : Was(index).storage[x] = IF x \in DOMAIN t THEN t[x] ELSE Was(0).storage[x]
    <2> TAKE x \in Contracts
    <2>1. Was(index).storage[x] = IF x \in DOMAIN s THEN s[x] ELSE Was(0).storage[x]
        BY <1>1, <1>2 DEF ForkedAt
    <2>2. x = c /\ x \in DOMAIN t => t[x] = Was(index).storage[x]
        BY <1>1, <1>3, StorageRead
    <2> QED BY <1>3, <2>1, <2>2
<1>7. \A x \in Contracts \ ReplacedBy(index) :
          IF x \in DOMAIN e
          THEN x \in DOMAIN Was(index).class /\ Was(index).class[x] = e[x]
          ELSE /\ x \in DOMAIN Was(index).class <=> x \in DOMAIN Was(0).class
               /\ x \in DOMAIN Was(index).class => Was(index).class[x] = Was(0).class[x]
    <2> TAKE x \in Contracts \ ReplacedBy(index)
    <2>1. IF x \in DOMAIN d
          THEN x \in DOMAIN Was(index).class /\ Was(index).class[x] = d[x]
          ELSE /\ x \in DOMAIN Was(index).class <=> x \in DOMAIN Was(0).class
               /\ x \in DOMAIN Was(index).class => Was(index).class[x] = Was(0).class[x]
        BY <1>1, <1>2 DEF ForkedAt
    <2>2. CASE x # c \/ x \notin DOMAIN e \/ x \in DOMAIN d
        <3>1. x = c /\ x \in DOMAIN d => ClassHashAt(c) = d[x]
            BY <1>2 DEF ClassHashAt
        <3> QED BY <1>4, <2>1, <2>2, <3>1
    <2>3. CASE x = c /\ x \in DOMAIN e /\ x \notin DOMAIN d
        <3>1. e[x] = ClassHashAt(c) /\ ClassHashAt(c) # None
            BY <1>4, <2>3
        <3>2. x \in DOMAIN Was(0).class /\ ClassHashAt(c) = Was(0).class[x]
            BY <1>1, <1>2, <2>3, <3>1 DEF ClassHashAt
        <3> QED BY <2>1, <2>3, <3>1, <3>2
    <2> QED BY <2>2, <2>3
<1>8. faults' = 0 =>
          Was(index).declared \ Deprecated \subseteq Was(0).declared \cup DOMAIN cache'.compiled
    <2>1. faults' = 0 => faults = 0
        BY FaultsNat DEF Fault, NoFault, ForkingInv
    <2> QED BY <1>1, <2>1 DEF ForkedAt
<1> QED BY <1>2, <1>5, <1>6, <1>7, <1>8 DEF ForkedAt

\* A step of the execution keeps the invariant if the fork stays, the read is
\* of the chain before, and the new call has code if the chain has.
LEMMA ExecutionReads ==
    ASSUME ForkingInv, pc \in {"validate", "execute"}, Fault \/ NoFault,
           UNCHANGED <<chain, pc, args, block, index, replayed, result>>,
           ForkedAt(index)',
           \A r \in reads' \ reads :
               IF r.kind = "storage" THEN r.value = Before.storage[r.contract]
               ELSE r.contract \in Upgraded
                    \/ r.value = IF r.contract \in DOMAIN Before.class
                                 THEN Before.class[r.contract] ELSE None,
           faults' = 0 => \A i \in DOMAIN calls' :
               \/ i \in DOMAIN calls /\ calls'[i].class = calls[i].class /\ calls'[i].build = calls[i].build
               \/ calls'[i].class \in Before.declared \ NotReplayed => calls'[i].build # None
    PROVE  ReadInv'
<1>1. Before' = Before /\ Upgraded' = Upgraded /\ NotReplayed' = NotReplayed
    BY DEF Before, Upgraded, NotReplayed, Adjusted
<1>2. ReadsAreBefore'
    BY <1>1 DEF ForkingInv, ReadInv, ReadsAreBefore
<1>3. faults' = 0 => faults = 0
    BY FaultsNat DEF Fault, NoFault, ForkingInv
<1>4. DeclaredClassesRun'
    BY <1>1, <1>3 DEF ForkingInv, ReadInv, DeclaredClassesRun
<1> QED BY <1>2, <1>4 DEF ReadInv, Early

\* As long as nothing has failed, the class of a call that is added has code if
\* the chain has.
LEMMA CodeFound ==
    ASSUME ForkingInv, pc \in Late, NEW c \in Contracts, NEW class \in Classes \cup {None},
           NEW made \in Build \cup {None}, calls' = Append(calls, CallMade(c, class, made)),
           Fault \/ Lookup(class, made), faults' = 0
    PROVE  \A i \in DOMAIN calls' :
              \/ i \in DOMAIN calls /\ calls'[i].class = calls[i].class /\ calls'[i].build = calls[i].build
              \/ calls'[i].class \in Before.declared \ NotReplayed => calls'[i].build # None
<1>1. ~Fault
    BY FaultsNat DEF Fault, ForkingInv
<1>2. faults = 0 /\ made = CompiledClass(class)
    BY <1>1 DEF Lookup, NoFault
<1>3. class \in Before.declared \ NotReplayed => made # None
    BY <1>2, ClassRuns
<1>4. calls \in Seq(Call) /\ CallMade(c, class, made) \in Call
    BY MadeIs DEF ForkingInv, TypeInv, TypeOK
<1>5. \A i \in DOMAIN calls' :
          (i \in DOMAIN calls /\ calls'[i] = calls[i]) \/ calls'[i] = CallMade(c, class, made)
    BY <1>4, CallAppended
<1> QED BY <1>3, <1>5, MadeIs

LEMMA CallContractReads ==
    ASSUME ForkingInv, NEW c \in Contracts, CallContract(c)
    PROVE  ReadInv'
<1>1. /\ pc \in {"validate", "execute"} /\ pc \in Late
      /\ UNCHANGED <<chain, pc, args, block, index, replayed, result>>
    BY DEF CallContract, Executing, Late
<1>2. PICK class \in Classes \cup {None}, made \in Build \cup {None} : CallStep(c, class, made)
    BY CallContractIs DEF ForkingInv
<1>3. /\ class # None => class = ClassHashAt(c)
      /\ Fault \/ Lookup(class, made)
      /\ Fault \/ NoFault
    BY <1>2 DEF CallStep, Lookup
<1>4. ForkedAt(index)'
    <2>1. /\ cache'.storage = cache.storage
          /\ cache'.class = Given(cache.class, c, class)
          /\ cache'.compiled = Given(cache.compiled, class, made)
        BY <1>2 DEF CallStep
    <2>2. DOMAIN cache.compiled \subseteq DOMAIN cache'.compiled
        BY <2>1 DEF Given, Over
    <2> QED BY <1>1, <1>3, <2>1, <2>2, ForkedKept
<1>5. \A r \in reads' \ reads :
          r.kind = "class" /\ r.contract = c /\ r.value = ClassHashAt(c)
    BY <1>2 DEF CallStep
<1>6. \A r \in reads' \ reads :
          IF r.kind = "storage" THEN r.value = Before.storage[r.contract]
          ELSE r.contract \in Upgraded
               \/ r.value = IF r.contract \in DOMAIN Before.class THEN Before.class[r.contract] ELSE None
    BY <1>1, <1>5, ClassRead
<1>7. calls' = Append(calls, CallMade(c, class, made))
    BY <1>2 DEF CallStep
<1>8. faults' = 0 => \A i \in DOMAIN calls' :
          \/ i \in DOMAIN calls /\ calls'[i].class = calls[i].class /\ calls'[i].build = calls[i].build
          \/ calls'[i].class \in Before.declared \ NotReplayed => calls'[i].build # None
    BY <1>1, <1>3, <1>7, CodeFound
<1> QED BY <1>1, <1>3, <1>4, <1>6, <1>8, ExecutionReads

LEMMA DeployContractReads ==
    ASSUME ForkingInv, NEW c \in Contracts, NEW x \in Classes, DeployContract(c, x)
    PROVE  ReadInv'
<1>1. /\ pc \in {"validate", "execute"} /\ pc \in Late
      /\ UNCHANGED <<chain, pc, args, block, index, replayed, result, reads>>
    BY DEF DeployContract, Executing, Late
<1>2. PICK build \in Build \cup {None} :
          /\ Lookup(x, build)
          /\ calls' = Append(calls, CallMade(c, x, build))
          /\ cache'.storage = cache.storage /\ cache'.class = Given(cache.class, c, None)
          /\ cache'.compiled = Given(cache.compiled, x, build)
    BY DeployContractIs DEF ForkingInv
<1>3. Fault \/ NoFault
    BY <1>2 DEF Lookup
<1>4. ForkedAt(index)'
    <2>1. DOMAIN cache.compiled \subseteq DOMAIN cache'.compiled
        BY <1>2 DEF Given, Over
    <2> QED BY <1>1, <1>2, <1>3, <2>1, ForkedKept
<1>5. faults' = 0 => \A i \in DOMAIN calls' :
          \/ i \in DOMAIN calls /\ calls'[i].class = calls[i].class /\ calls'[i].build = calls[i].build
          \/ calls'[i].class \in Before.declared \ NotReplayed => calls'[i].build # None
    BY <1>1, <1>2, CodeFound
<1>6. reads' \ reads = {}
    BY <1>1
<1> QED BY <1>1, <1>3, <1>4, <1>5, <1>6, ExecutionReads

LEMMA WriteReads ==
    ASSUME ForkingInv, NEW v \in Values, Write(v)
    PROVE  ReadInv'
<1>1. /\ pc \in {"validate", "execute"} /\ pc \in Late /\ Run /\ (Fault \/ NoFault)
      /\ UNCHANGED <<pc, args, block, index, replayed, result>>
      /\ UNCHANGED <<chain, block, index>>
    BY DEF Write, Executing, Late, Run
<1>2. PICK i \in DOMAIN calls, call \in Call :
          /\ call.class = calls[i].class /\ call.build = calls[i].build
          /\ DOMAIN calls' = DOMAIN calls
          /\ calls'[i] = call /\ \A j \in DOMAIN calls \ {i} : calls'[j] = calls[j]
          /\ cache'.storage = StorageKept(calls[i].contract)
          /\ cache'.class = cache.class /\ cache'.compiled = cache.compiled
          /\ reads' = reads \cup {[kind |-> "storage", contract |-> calls[i].contract,
                                   value |-> StorageAt(calls[i].contract)]}
    BY WriteIs DEF ForkingInv
<1>3. PICK c \in Contracts : c = calls[i].contract
    BY CallIs DEF ForkingInv
<1>4. ForkedAt(index)'
    <2>1. cache'.class = Given(cache.class, c, None)
        BY <1>2 DEF Given
    <2> QED BY <1>1, <1>2, <1>3, <2>1, ForkedKept
<1>5. \A r \in reads' \ reads :
          r.kind = "storage" /\ r.value = Before.storage[r.contract]
    BY <1>1, <1>2, <1>3, StorageRead
<1>6. \A j \in DOMAIN calls' :
          j \in DOMAIN calls /\ calls'[j].class = calls[j].class /\ calls'[j].build = calls[j].build
    BY <1>2
<1> QED BY <1>1, <1>4, <1>5, <1>6, ExecutionReads

LEMMA StepReads == ForkingInv /\ [Next]_vars => ReadInv'
<1> SUFFICES ASSUME ForkingInv, [Next]_vars PROVE ReadInv'
    OBVIOUS
<1>1. CASE AskByHash \/ AskDebug \/ AskByArguments \/ AskByMessage \/ FindBlockOfMessage
              \/ FetchTransaction \/ FetchReceipt \/ ExtractBlock
    BY <1>1, EarlyReads
<1>2. CASE PrepareStorageView
    BY <1>2, PrepareReads
<1>3. CASE ReplayTransaction
    BY <1>3, ReplayReads
<1>4. CASE EndReplay \/ EndExecution \/ PostExec \/ FetchClasses \/ MapCalls \/ FetchBefore
    BY <1>4, LateReads
<1>5. CASE \E c \in Contracts : CallContract(c)
    BY <1>5, CallContractReads
<1>6. CASE \E c \in Contracts, x \in Classes : DeployContract(c, x)
    BY <1>6, DeployContractReads
<1>7. CASE \E v \in Values : Write(v)
    BY <1>7, WriteReads
<1>8. CASE Others \/ UNCHANGED vars
    BY <1>8, OthersReads
<1> QED BY <1>1, <1>2, <1>3, <1>4, <1>5, <1>6, <1>7, <1>8 DEF Next

\* The inductive invariant: the cache of the fork over the block before is the
\* chain at the place of the replay, then before the transaction.
THEOREM ForkingInvCorrect == Spec => []ForkingInv
<1>1. Init => ForkingInv
    BY InitTypes, InitReads DEF ForkingInv
<1>2. ForkingInv /\ [Next]_vars => ForkingInv'
    BY StepTypes, StepReads DEF ForkingInv
<1> QED BY <1>1, <1>2, PTL DEF Spec

\* The fork and its cache are the chain before the transaction (state.rs,
\* ForkStateReader): whatever was replayed, fetched or kept on the way, for
\* any chain in which only contracts that exist have storage.
THEOREM ForkIsBeforeCorrect == Spec => []ForkIsBefore
<1>1. ForkingInv => ForkIsBefore
    BY DEF ForkingInv, TypeInv, ReadInv, ForkIsBefore
<1> QED BY <1>1, ForkingInvCorrect, PTL

-----------------------------------------------------------------------------
(* The changes *)

\* What the calls have written is in the fork, and so are the changes.
WrittenKept ==
    \A i \in Written : Kept(calls[i].contract) => calls[i].contract \in DOMAIN cache.storage
WrittenInv ==
    /\ WrittenKept
    /\ pc \notin {"before", "done"} => DOMAIN changes = {}
    /\ pc = "before" =>
          /\ args.mode = "simple"
          /\ changes = [i \in Written |-> [contract |-> calls[i].contract,
                                           before |-> Known(calls[i].contract),
                                           after |-> calls[i].writes]]
    /\ ChangesAreTrue

LEMMA InitChanges == Init => WrittenInv
<1> SUFFICES ASSUME Init PROVE WrittenInv
    OBVIOUS
<1>1. /\ pc = "ask" /\ calls = <<>> /\ DOMAIN changes = {} /\ result = None
    BY DEF Init, Empty
<1>2. DOMAIN calls = {}
    BY <1>1
<1> QED BY <1>1, <1>2, NoneAssumption DEF WrittenInv, WrittenKept, ChangesAreTrue, Written

\* A step before the trace is mapped: nothing is shown yet.
LEMMA UnshownStep ==
    ASSUME ForkingInv, WrittenInv, pc \notin {"before", "done"}, UNCHANGED changes,
           pc' # "before", result' # "shown",
           WrittenKept'
    PROVE  WrittenInv'
BY DEF WrittenInv, ChangesAreTrue

LEMMA EarlyChanges ==
    ASSUME ForkingInv, WrittenInv,
           AskByHash \/ AskDebug \/ AskByArguments \/ AskByMessage \/ FindBlockOfMessage
              \/ FetchTransaction \/ FetchReceipt \/ ExtractBlock \/ PrepareStorageView
              \/ ReplayTransaction \/ EndReplay
    PROVE  WrittenInv'
<1>1. /\ pc \in Early \cup {"fork", "replay"} /\ UNCHANGED <<calls, changes>> /\ pc' # "before"
      /\ result' = result \/ result' \in {"error", "messages", "unsupported", "resources"}
    BY DEF AskByHash, AskDebug, AskByArguments, AskByMessage, FindBlockOfMessage, FetchTransaction,
           FetchReceipt, ExtractBlock, PrepareStorageView, ReplayTransaction, EndReplay,
           NotRun, Stop, Early
<1>2. calls = <<>> /\ result = None
    BY <1>1 DEF ForkingInv, ReadInv, TypeInv, PlaceInv, Early
<1>3. DOMAIN calls' = {}
    BY <1>1, <1>2
<1>4. result' # "shown"
    BY <1>1, <1>2, NoneAssumption
<1> QED BY <1>1, <1>3, <1>4, UnshownStep DEF Early, Written, WrittenKept

LEMMA AdjustedStays == ASSUME UNCHANGED <<chain, block>> PROVE Adjusted' = Adjusted
BY DEF Adjusted

LEMMA IdleChanges ==
    ASSUME ForkingInv, WrittenInv, EndExecution \/ PostExec \/ FetchClasses
    PROVE  WrittenInv'
<1>1. /\ pc \in Late \ {"before"} /\ UNCHANGED <<chain, block, calls, cache, changes>> /\ pc' # "before"
      /\ result' = result \/ result' = "error"
    BY DEF EndExecution, PostExec, FetchClasses, NotRun, Run, Stop, Executing, Late
<1>2. result' # "shown"
    BY <1>1, NoneAssumption DEF ForkingInv, TypeInv, PlaceInv, Late
<1>3. WrittenKept'
    BY <1>1, AdjustedStays DEF WrittenInv, WrittenKept, Written, Kept
<1> QED BY <1>1, <1>2, <1>3, UnshownStep DEF Late

\* A call or a deployment writes nothing.
LEMMA CalledChanges ==
    ASSUME ForkingInv, WrittenInv, pc \in {"validate", "execute"},
           UNCHANGED <<chain, pc, block, changes, result>>,
           cache'.storage = cache.storage,
           NEW call \in Call, call.writes = None, calls' = Append(calls, call)
    PROVE  WrittenInv'
<1>1. Written' = Written /\ \A i \in Written : calls'[i] = calls[i]
    <2>1. calls \in Seq(Call)
        BY DEF ForkingInv, TypeInv, TypeOK
    <2>2. /\ DOMAIN calls = 1..Len(calls) /\ DOMAIN calls' = 1..Len(calls) + 1 /\ Len(calls) \in Nat
          /\ \A i \in DOMAIN calls : calls'[i] = calls[i]
          /\ calls'[Len(calls) + 1] = call
        BY <2>1, CallAppended
    <2> QED BY <2>2 DEF Written
<1>2. result' # "shown"
    BY NoneAssumption DEF ForkingInv, TypeInv, PlaceInv
<1>3. WrittenKept'
    BY <1>1, AdjustedStays DEF WrittenInv, WrittenKept, Kept
<1> QED BY <1>2, <1>3, UnshownStep

LEMMA WriteChanges ==
    ASSUME ForkingInv, WrittenInv, NEW v \in Values, Write(v)
    PROVE  WrittenInv'
<1>1. /\ pc \in {"validate", "execute"} /\ UNCHANGED <<chain, pc, block, changes, result>>
    BY DEF Write, Executing, Run
<1>2. PICK i \in DOMAIN calls, call \in Call :
          /\ call.contract = calls[i].contract
          /\ DOMAIN calls' = DOMAIN calls
          /\ calls'[i] = call /\ \A j \in DOMAIN calls \ {i} : calls'[j] = calls[j]
          /\ cache'.storage = StorageKept(calls[i].contract)
    BY WriteIs DEF ForkingInv
<1>3. PICK c : c = calls[i].contract
    OBVIOUS
<1>4. /\ DOMAIN cache.storage \subseteq DOMAIN cache'.storage
      /\ DOMAIN cache'.storage \subseteq DOMAIN cache.storage \cup {c}
      /\ c \in DOMAIN cache.storage \cup DOMAIN Adjusted.class => c \in DOMAIN cache'.storage
    BY <1>2, <1>3 DEF StorageKept, Over
<1>5. WrittenKept'
    <2> SUFFICES ASSUME NEW j \in Written', Kept(calls[j].contract)'
                 PROVE  calls'[j].contract \in DOMAIN cache'.storage
        BY DEF WrittenKept
    <2>1. calls'[j].contract \in DOMAIN Adjusted.class \cup DOMAIN cache'.storage
        BY <1>1, AdjustedStays DEF Kept
    <2>2. CASE j = i
        BY <1>2, <1>3, <1>4, <2>1, <2>2
    <2>3. CASE j # i
        <3>1. j \in Written /\ calls'[j] = calls[j]
            BY <1>2, <2>3 DEF Written
        <3> QED BY <1>3, <1>4, <2>1, <3>1 DEF WrittenInv, WrittenKept, Kept
    <2> QED BY <2>2, <2>3
<1>6. result' # "shown"
    BY <1>1, NoneAssumption DEF ForkingInv, TypeInv, PlaceInv
<1> QED BY <1>1, <1>5, <1>6, UnshownStep

LEMMA ExecutionChanges ==
    ASSUME ForkingInv, WrittenInv,
           \/ \E c \in Contracts : CallContract(c)
           \/ \E c \in Contracts, x \in Classes : DeployContract(c, x)
    PROVE  WrittenInv'
<1>1. ASSUME NEW c \in Contracts, CallContract(c)
      PROVE  WrittenInv'
    <2>1. /\ pc \in {"validate", "execute"} /\ UNCHANGED <<chain, pc, block, changes, result>>
        BY <1>1 DEF CallContract, Executing
    <2>2. PICK class \in Classes \cup {None}, made \in Build \cup {None} : CallStep(c, class, made)
        BY <1>1, CallContractIs DEF ForkingInv
    <2>3. PICK call \in Call : call = CallMade(c, class, made)
        BY MadeIs
    <2>4. /\ cache'.storage = cache.storage /\ calls' = Append(calls, call) /\ call.writes = None
        BY <2>2, <2>3, MadeIs DEF CallStep
    <2> QED BY <2>1, <2>4, CalledChanges
<1>2. ASSUME NEW c \in Contracts, NEW x \in Classes, DeployContract(c, x)
      PROVE  WrittenInv'
    <2>1. /\ pc \in {"validate", "execute"} /\ UNCHANGED <<chain, pc, block, changes, result>>
        BY <1>2 DEF DeployContract, Executing
    <2>2. PICK build \in Build \cup {None} :
              calls' = Append(calls, CallMade(c, x, build)) /\ cache'.storage = cache.storage
        BY <1>2, DeployContractIs DEF ForkingInv
    <2>3. PICK call \in Call : call = CallMade(c, x, build)
        BY MadeIs
    <2>4. call.writes = None
        BY <2>3, MadeIs
    <2> QED BY <2>1, <2>2, <2>3, <2>4, CalledChanges
<1> QED BY <1>1, <1>2

LEMMA MapChanges ==
    ASSUME ForkingInv, WrittenInv, MapCalls
    PROVE  WrittenInv'
<1>1. /\ pc = "map" /\ UNCHANGED <<chain, args, block, calls, cache>>
    BY DEF MapCalls, Run
<1>2. WrittenKept'
    BY <1>1, AdjustedStays DEF WrittenInv, WrittenKept, Written, Kept
<1>3. CASE Stop("error") /\ changes' = changes
    BY <1>2, <1>3, NoneAssumption DEF Stop, WrittenInv, ChangesAreTrue
<1>4. CASE args.mode = "debug" /\ changes' = changes /\ Stop("shown")
    BY <1>1, <1>2, <1>4 DEF Stop, WrittenInv, ChangesAreTrue
<1>5. CASE /\ args.mode = "simple" /\ pc' = "before" /\ result' = result
           /\ changes' = [i \in Written |-> [contract |-> calls[i].contract,
                                             before |-> Known(calls[i].contract),
                                             after |-> calls[i].writes]]
    <2>1. result' # "shown"
        BY <1>1, <1>5, NoneAssumption DEF ForkingInv, TypeInv, PlaceInv
    <2>2. (pc = "before" =>
              /\ args.mode = "simple"
              /\ changes = [i \in Written |-> [contract |-> calls[i].contract,
                                               before |-> Known(calls[i].contract),
                                               after |-> calls[i].writes]])'
        BY <1>1, <1>5 DEF Written, Known
    <2> QED BY <1>2, <1>5, <2>1, <2>2 DEF WrittenInv, ChangesAreTrue
<1> QED BY <1>3, <1>4, <1>5, MapCallsIs DEF ForkingInv

\* The changes that are shown: those with another value before, of the fork
\* where it has one.
LEMMA BeforeChanges ==
    ASSUME ForkingInv, WrittenInv, FetchBefore
    PROVE  WrittenInv'
<1>1. /\ pc = "before" /\ pc' = "done" /\ result' = "shown"
      /\ UNCHANGED <<chain, args, block, index, calls, cache>>
    BY DEF FetchBefore, Run, Stop
<1>2. WrittenKept'
    BY <1>1, AdjustedStays DEF WrittenInv, WrittenKept, Written, Kept
<1>3. PICK fails \in BOOLEAN :
          changes' = [i \in {i \in DOMAIN changes :
                                [j \in DOMAIN changes |-> IF fails THEN changes[j] ELSE Filled(changes[j])][i].before
                                   \notin {None, [j \in DOMAIN changes |-> IF fails THEN changes[j] ELSE Filled(changes[j])][i].after}}
                        |-> [j \in DOMAIN changes |-> IF fails THEN changes[j] ELSE Filled(changes[j])][i]]
    BY DEF FetchBefore
<1> DEFINE filled == [i \in DOMAIN changes |-> IF fails THEN changes[i] ELSE Filled(changes[i])]
           shown == {i \in DOMAIN changes : filled[i].before \notin {None, filled[i].after}}
<1>4. DOMAIN changes' = shown /\ \A i \in shown : changes'[i] = filled[i]
    BY <1>3
<1>5. /\ DOMAIN changes = Written
      /\ \A i \in Written : /\ changes[i].contract = calls[i].contract
                            /\ changes[i].before = Known(calls[i].contract)
                            /\ changes[i].after = calls[i].writes
    BY <1>1 DEF WrittenInv
<1>6. \A i \in Written : /\ filled[i].contract = calls[i].contract
                         /\ filled[i].after = calls[i].writes
    <2> TAKE i \in Written
    <2>1. changes[i] \in Change
        BY <1>5 DEF ForkingInv, TypeInv, TypeOK
    <2>2. PICK v : v = BlockEnd.storage[changes[i].contract]
        OBVIOUS
    <2>3. filled[i] = changes[i] \/ filled[i] = [changes[i] EXCEPT !.before = v]
        BY <1>5, <2>2 DEF Filled
    <2> HIDE DEF filled
    <2> QED BY <1>5, <2>1, <2>3 DEF Change
<1>7. \A i \in Written : Kept(calls[i].contract) => filled[i].before = Before.storage[calls[i].contract]
                                                  /\ filled[i].before # None
    <2> SUFFICES ASSUME NEW i \in Written, Kept(calls[i].contract)
                 PROVE  filled[i].before = Before.storage[calls[i].contract] /\ filled[i].before # None
        OBVIOUS
    <2>1. PICK c \in Contracts : c = calls[i].contract
        BY CallIs DEF ForkingInv, Written
    <2>2. c \in DOMAIN cache.storage
        BY <2>1 DEF WrittenInv, WrittenKept
    <2>3. Known(c) = Before.storage[c]
        BY <1>1, <2>2, StorageRead DEF Known, StorageAt, Late
    <2>4. Known(c) \in Values
        BY <1>1, <2>2, <2>3, ReaderTypes, StorageRead DEF ForkingInv, Late
    <2>5. filled[i] = changes[i]
        BY <1>5, <2>1, <2>4, ChainsAssumption DEF Filled
    <2> HIDE DEF filled
    <2> QED BY <1>5, <2>1, <2>3, <2>4, <2>5, ChainsAssumption
<1> HIDE DEF filled
<1>8. \A i \in DOMAIN changes' : /\ changes'[i].contract = calls[i].contract /\ i \in Written
                                 /\ changes'[i].before = filled[i].before
    BY <1>4, <1>5, <1>6
<1>9. \A i \in Written : Kept(calls[i].contract) =>
          (i \in DOMAIN changes' <=> calls[i].writes # Before.storage[calls[i].contract])
    BY <1>4, <1>5, <1>6, <1>7
<1>10. Before' = Before /\ \A c : Kept(c)' <=> Kept(c)
    BY <1>1, AdjustedStays DEF Before, Kept
<1>11. \A i \in DOMAIN changes' : Kept(changes'[i].contract)
                                    => changes'[i].before = Before.storage[changes'[i].contract]
    BY <1>7, <1>8
<1>12. ChangesAreTrue'
    BY <1>1, <1>9, <1>10, <1>11 DEF ChangesAreTrue, Written
<1> QED BY <1>1, <1>2, <1>12 DEF WrittenInv

LEMMA StillChanges ==
    ASSUME ForkingInv, WrittenInv, Others \/ UNCHANGED vars
    PROVE  WrittenInv'
<1>1. UNCHANGED <<chain, pc, args, block, index, cache, calls, changes, result>>
    BY DEF Others, vars
<1>2. Adjusted' = Adjusted /\ Before' = Before /\ Written' = Written /\ WrittenKept'
    BY <1>1, AdjustedStays DEF Before, Written, WrittenInv, WrittenKept, Kept
<1>3. ChangesAreTrue'
    BY <1>1, <1>2 DEF WrittenInv, ChangesAreTrue, Kept
<1> QED BY <1>1, <1>2, <1>3 DEF WrittenInv, Known

LEMMA StepChanges == ForkingInv /\ WrittenInv /\ [Next]_vars => WrittenInv'
<1> SUFFICES ASSUME ForkingInv, WrittenInv, [Next]_vars PROVE WrittenInv'
    OBVIOUS
<1>1. CASE AskByHash \/ AskDebug \/ AskByArguments \/ AskByMessage \/ FindBlockOfMessage
              \/ FetchTransaction \/ FetchReceipt \/ ExtractBlock \/ PrepareStorageView
              \/ ReplayTransaction \/ EndReplay
    BY <1>1, EarlyChanges
<1>2. CASE EndExecution \/ PostExec \/ FetchClasses
    BY <1>2, IdleChanges
<1>3. CASE MapCalls
    BY <1>3, MapChanges
<1>4. CASE FetchBefore
    BY <1>4, BeforeChanges
<1>5. CASE (\E c \in Contracts : CallContract(c))
              \/ (\E c \in Contracts, x \in Classes : DeployContract(c, x))
    BY <1>5, ExecutionChanges
<1>6. CASE \E v \in Values : Write(v)
    BY <1>6, WriteChanges
<1>7. CASE Others \/ UNCHANGED vars
    BY <1>7, StillChanges
<1> QED BY <1>1, <1>2, <1>3, <1>4, <1>5, <1>6, <1>7 DEF Next

\* A change of storage is shown with the value from before the transaction,
\* and none is left out (simulate.rs, fetch_before_storage_changes), for the
\* contracts that the block before has or that were written to in the block.
THEOREM ChangesAreTrueCorrect == Spec => []ChangesAreTrue
<1>1. Init => WrittenInv
    BY InitChanges
<1>2. WrittenInv => ChangesAreTrue
    BY DEF WrittenInv
<1> QED BY <1>1, <1>2, ForkingInvCorrect, StepChanges, PTL DEF Spec
=============================================================================
