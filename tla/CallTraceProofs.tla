-------------------------- MODULE CallTraceProofs --------------------------
(***************************************************************************)
(* The function calls of CallTrace form a tree and, where the builder can  *)
(* know it, follow the frames of the VM, blame the first panic and come    *)
(* back to loops, for any functions, traces and bounds.                    *)
(*                                                                         *)
(* TreeInv is inductive by itself.  CallsMatchFrames is inductive with it, *)
(* since a trace that is no longer straight never becomes so again; the    *)
(* invariants about panics and loops rest on both.                         *)
(***************************************************************************)
EXTENDS CallTrace, SequenceTheorems, FiniteSetTheorems, WellFoundedInduction, TLAPS

FrameType == [fp: Nat, fn: Functions, call: DOMAIN nodes]

\* Children are calls with ids of their own or the inner calls linked so far.
KidsInv ==
    \A i \in DOMAIN nodes :
        nodes[i].kids \subseteq DOMAIN nodes \cup {Children[q] : q \in 1..childIndex}

\* What may become the current call is a function call.
ParentsInv ==
    /\ \A k \in 1..Len(stack) : IsFunction(stack[k].call)
    /\ \A l \in DOMAIN loopParent : IsFunction(loopParent[l])

TreeInv == TreeOK /\ KidsInv /\ ParentsInv

-----------------------------------------------------------------------------
(* The stack *)

LEMMA StackType ==
    ASSUME TypeOK
    PROVE  /\ Len(stack) \in Nat \ {0}
           /\ DOMAIN stack = 1..Len(stack)
           /\ \A k \in 1..Len(stack) : stack[k] \in FrameType
           /\ Top \in FrameType
<1>1. stack \in Seq(FrameType) /\ Len(stack) > 0
    BY DEF TypeOK, FrameType
<1> QED BY <1>1, LenProperties, ElementOfSeq DEF Top

\* Entering a frame leaves those below as they are.
LEMMA PushStack ==
    ASSUME TypeOK, DOMAIN nodes \subseteq DOMAIN nodes',
           NEW fn \in Functions, NEW call \in DOMAIN nodes', Push(fn, call)
    PROVE  /\ stack' \in Seq(FrameType') /\ Len(stack') = Len(stack) + 1
           /\ \A k \in 1..Len(stack) : stack'[k] = stack[k]
           /\ stack'[Len(stack')] = [fp |-> frames + 1, fn |-> fn, call |-> call]
           /\ Top' = [fp |-> frames + 1, fn |-> fn, call |-> call]
<1> DEFINE new == [fp |-> frames + 1, fn |-> fn, call |-> call]
<1>1. FrameType \subseteq FrameType'
    BY DEF FrameType, Functions
<1>2. stack \in Seq(FrameType')
    BY <1>1, SeqMonotonic DEF TypeOK, FrameType
<1>3. new \in FrameType'
    BY DEF TypeOK, FrameType, Functions
<1>4. stack' = Append(stack, new)
    BY DEF Push
<1> HIDE DEF new
<1> QED BY <1>2, <1>3, <1>4, AppendProperties DEF new, Top

\* Returning from a frame leaves those below as they are.
LEMMA PopStack ==
    ASSUME TypeOK, DOMAIN nodes' = DOMAIN nodes, Len(stack) > 1,
           stack' = SubSeq(stack, 1, Len(stack) - 1)
    PROVE  /\ stack' \in Seq(FrameType') /\ Len(stack') = Len(stack) - 1
           /\ \A k \in 1..Len(stack) - 1 : stack'[k] = stack[k]
           /\ Top' = stack[Len(stack) - 1]
<1>1. FrameType' = FrameType
    BY DEF FrameType, Functions
<1>2. stack' \in Seq(FrameType) /\ Len(stack') = Len(stack) - 1
      /\ \A k \in 1..Len(stack) - 1 : stack'[k] = stack[k]
    <2>1. \A k \in 1..Len(stack) - 1 : stack[k] \in FrameType
        BY StackType
    <2> HIDE DEF FrameType
    <2> QED BY <2>1, StackType, SubSeqProperties
<1> QED BY <1>1, <1>2, StackType DEF Top

\* An entry that adds no frame may still add calls.
LEMMA KeepStack ==
    ASSUME TypeOK, DOMAIN nodes \subseteq DOMAIN nodes', UNCHANGED stack
    PROVE  stack' \in Seq(FrameType')
<1>1. FrameType \subseteq FrameType'
    BY DEF FrameType, Functions
<1> QED BY <1>1, SeqMonotonic DEF TypeOK, FrameType

\* The same for the record of the inner calls.
LEMMA KeepMade ==
    ASSUME TypeOK, DOMAIN nodes \subseteq DOMAIN nodes', UNCHANGED made
    PROVE  made' \in Seq([kind: {"call_contract", "library_call"}, call: DOMAIN nodes'])
<1>1. [kind: {"call_contract", "library_call"}, call: DOMAIN nodes]
        \subseteq [kind: {"call_contract", "library_call"}, call: DOMAIN nodes']
    OBVIOUS
<1> QED BY <1>1, SeqMonotonic DEF TypeOK

LEMMA MakesOne ==
    ASSUME TypeOK, NEW kind \in {"call_contract", "library_call"}, Makes(kind),
           DOMAIN nodes' = DOMAIN nodes
    PROVE  /\ made' \in Seq([kind: {"call_contract", "library_call"}, call: DOMAIN nodes'])
           /\ Len(made') = Len(made) + 1 /\ Len(made) < Len(Children)
           /\ Len(made) \in Nat
<1> DEFINE M == [kind: {"call_contract", "library_call"}, call: DOMAIN nodes]
           new == [kind |-> kind, call |-> Top.call]
<1>1. new \in M
    BY StackType DEF FrameType
<1>2. made \in Seq(M) /\ made' = Append(made, new) /\ Len(made) < Len(Children)
    BY DEF TypeOK, Makes
<1>3. Len(made) \in Nat
    BY <1>2, LenProperties
<1> HIDE DEF new
<1>4. made' \in Seq(M) /\ Len(made') = Len(made) + 1
    BY <1>1, <1>2, AppendProperties
<1> QED BY <1>2, <1>3, <1>4

-----------------------------------------------------------------------------
(* The tree *)

\* What TreeOK says of the calls, whatever the rest of the state is.
Tree ==
    /\ next_call_id \in Nat /\ Root < next_call_id
    /\ nodes \in [Root..next_call_id - 1 -> Node]
    /\ Parent(Root) = 0 /\ IsFunction(Root)
    /\ \A i \in DOMAIN nodes \ {Root} :
          Parent(i) \in DOMAIN nodes /\ Parent(i) < i /\ IsFunction(Parent(i))
    /\ \A i, j \in DOMAIN nodes : j \in nodes[i].kids <=> Parent(j) = i
    /\ \A i, j \in DOMAIN nodes :
          nodes[i].kids \cap nodes[j].kids # {} => i = j
    /\ KidsInv

LEMMA TreeIsTree ==
    ASSUME TreeInv
    PROVE  Tree /\ current \in DOMAIN nodes /\ IsFunction(current)
<1>1. Root \in DOMAIN nodes
    BY FirstAssumption DEF TreeInv, TreeOK, TypeOK, Root
<1>2. Root < next_call_id
    BY <1>1, FirstAssumption DEF TreeInv, TreeOK, TypeOK, Root
<1> QED BY <1>2 DEF TreeInv, TreeOK, TypeOK, Tree

\* A call that gets children.
LEMMA WithKids ==
    ASSUME NEW n \in Node, NEW kids \in SUBSET Nat
    PROVE  /\ [n EXCEPT !.kids = kids] \in Node
           /\ [n EXCEPT !.kids = kids].kids = kids
           /\ [n EXCEPT !.kids = kids].kind = n.kind
           /\ [n EXCEPT !.kids = kids].fn = n.fn
           /\ [n EXCEPT !.kids = kids].fp = n.fp
           /\ [n EXCEPT !.kids = kids].parent = n.parent
           /\ [n EXCEPT !.kids = kids].result = n.result
           /\ [n EXCEPT !.kids = kids].from = n.from
BY DEF Node

\* Inner contract calls have other ids than the calls of this trace.
LEMMA ChildrenApart ==
    ASSUME Tree, NEW q \in 1..Len(Children)
    PROVE  /\ Children[q] \in 1..First - 1
           /\ Children[q] \notin DOMAIN nodes
<1>1. Children[q] \in 1..First - 1
    BY ChildrenAssumption, ElementOfSeq
<1> QED BY <1>1, FirstAssumption DEF Tree, Root

\* The new call, its parent and the others.
LEMMA AttachNodes ==
    ASSUME Tree, NEW parent \in DOMAIN nodes, NEW node \in Node, Attach(parent, node),
           next_call_id' = next_call_id + 1
    PROVE  /\ DOMAIN nodes' = DOMAIN nodes \cup {next_call_id}
           /\ DOMAIN nodes' = Root..next_call_id' - 1
           /\ next_call_id \notin DOMAIN nodes
           /\ nodes' \in [Root..next_call_id' - 1 -> Node]
           /\ nodes'[next_call_id] = node
           /\ nodes'[parent] = [nodes[parent] EXCEPT !.kids = @ \cup {next_call_id}]
           /\ \A i \in DOMAIN nodes \ {parent} : nodes'[i] = nodes[i]
<1>1. DOMAIN nodes = Root..next_call_id - 1 /\ Root \in Nat /\ Root < next_call_id
      /\ next_call_id \in Nat
    BY FirstAssumption DEF Tree, Root
<1>2. DOMAIN nodes' = DOMAIN nodes \cup {next_call_id}
    BY DEF Attach
<1>3. DOMAIN nodes \cup {next_call_id} = Root..next_call_id' - 1
      /\ next_call_id \notin DOMAIN nodes
    BY <1>1
<1>4. /\ nodes'[next_call_id] = node
      /\ nodes'[parent] = [nodes[parent] EXCEPT !.kids = @ \cup {next_call_id}]
      /\ \A i \in DOMAIN nodes \ {parent} : nodes'[i] = nodes[i]
    BY <1>3 DEF Attach
<1>5. \A i \in DOMAIN nodes : nodes[i] \in Node
    BY DEF Tree
<1>6. nodes'[parent] \in Node
    <2>1. nodes[parent].kids \cup {next_call_id} \in SUBSET Nat
        BY <1>1, <1>5 DEF Node
    <2> QED BY <1>4, <1>5, <2>1, WithKids
<1>7. \A i \in DOMAIN nodes' : nodes'[i] \in Node
    BY <1>2, <1>4, <1>5, <1>6
<1>8. nodes' = [i \in DOMAIN nodes' |-> nodes'[i]]
    BY DEF Attach
<1> QED BY <1>2, <1>3, <1>4, <1>7, <1>8

LEMMA AttachTree ==
    ASSUME Tree, childIndex \in Nat, childIndex <= Len(Children),
           NEW parent \in DOMAIN nodes, IsFunction(parent),
           NEW node \in Node, node.parent = parent, node.kids = {},
           Attach(parent, node), next_call_id' = next_call_id + 1, UNCHANGED childIndex
    PROVE  Tree' /\ \A i \in DOMAIN nodes : IsFunction(i)' = IsFunction(i)
<1>0. PICK new \in Nat : new = next_call_id
    BY DEF Tree
<1>1. /\ DOMAIN nodes' = DOMAIN nodes \cup {new}
      /\ DOMAIN nodes' = Root..next_call_id' - 1
      /\ new \notin DOMAIN nodes
      /\ nodes' \in [Root..next_call_id' - 1 -> Node]
      /\ nodes'[new] = node
      /\ nodes'[parent] = [nodes[parent] EXCEPT !.kids = @ \cup {new}]
      /\ \A i \in DOMAIN nodes \ {parent} : nodes'[i] = nodes[i]
    BY <1>0, AttachNodes
<1>2. /\ new \in Nat /\ Root \in DOMAIN nodes /\ Root < new /\ Root \in Nat
      /\ DOMAIN nodes = Root..new - 1
      /\ \A i \in DOMAIN nodes : i < new
      /\ \A i \in DOMAIN nodes : nodes[i] \in Node
    BY <1>0, FirstAssumption DEF Tree, Root
<1>3. \A i \in DOMAIN nodes : /\ nodes'[i].kind = nodes[i].kind
                              /\ nodes'[i].parent = nodes[i].parent
                              /\ nodes'[i].kids = IF i = parent THEN nodes[i].kids \cup {new}
                                                  ELSE nodes[i].kids
    <2>1. nodes[parent].kids \cup {new} \in SUBSET Nat
        BY <1>2 DEF Node
    <2>2. /\ nodes'[parent].kind = nodes[parent].kind
          /\ nodes'[parent].parent = nodes[parent].parent
          /\ nodes'[parent].kids = nodes[parent].kids \cup {new}
        BY <1>1, <1>2, <2>1, WithKids
    <2> QED BY <1>1, <2>2
<1>11. /\ DOMAIN nodes' = DOMAIN nodes \cup {new} /\ new \notin DOMAIN nodes
       /\ nodes'[new].parent = parent /\ nodes'[new].kids = {}
    BY <1>1
<1>12. /\ \A i, j \in DOMAIN nodes : j \in nodes[i].kids <=> nodes[j].parent = i
       /\ \A i, j \in DOMAIN nodes : nodes[i].kids \cap nodes[j].kids # {} => i = j
       /\ \A i \in DOMAIN nodes :
            nodes[i].kids \subseteq DOMAIN nodes \cup {Children[q] : q \in 1..childIndex}
       /\ \A i \in DOMAIN nodes \ {Root} :
            nodes[i].parent \in DOMAIN nodes /\ nodes[i].parent < i
            /\ nodes[nodes[i].parent].kind = "function"
    BY DEF Tree, KidsInv, Parent, IsFunction
<1>4. \A i \in DOMAIN nodes : new \notin nodes[i].kids
    <2>1. \A q \in 1..childIndex : Children[q] # new
        BY <1>2, ChildrenApart, FirstAssumption DEF Root
    <2> QED BY <1>1, <2>1 DEF Tree, KidsInv
<1>13. \A i \in DOMAIN nodes : /\ nodes[i].kids = nodes'[i].kids \ {new}
                               /\ new \in nodes'[i].kids <=> i = parent
    <2> TAKE i \in DOMAIN nodes
    <2>1. new \notin nodes[i].kids
        BY <1>4
    <2>2. nodes'[i].kids = IF i = parent THEN nodes[i].kids \cup {new} ELSE nodes[i].kids
        BY <1>3
    <2> QED BY <2>1, <2>2
<1>5. \A i \in DOMAIN nodes : IsFunction(i)' = IsFunction(i)
    BY <1>3 DEF IsFunction
<1>6. Parent(Root)' = 0 /\ IsFunction(Root)'
    BY <1>2, <1>3, <1>5 DEF Tree, Parent, Root
<1>7. \A i \in DOMAIN nodes' \ {Root} :
          Parent(i)' \in DOMAIN nodes' /\ Parent(i)' < i /\ IsFunction(Parent(i))'
    <2>2. ASSUME NEW i \in DOMAIN nodes \ {Root}
          PROVE  Parent(i)' \in DOMAIN nodes' /\ Parent(i)' < i /\ IsFunction(Parent(i))'
        <3>1. nodes'[i].parent = nodes[i].parent
            BY <1>3
        <3>2. nodes[i].parent \in DOMAIN nodes /\ nodes[i].parent < i
              /\ nodes[nodes[i].parent].kind = "function"
            BY <1>12
        <3>3. nodes'[nodes[i].parent].kind = "function"
            BY <1>3, <3>2
        <3> QED BY <1>11, <3>1, <3>2, <3>3 DEF Parent, IsFunction
    <2>3. Parent(new)' \in DOMAIN nodes' /\ Parent(new)' < new /\ IsFunction(Parent(new))'
        BY <1>1, <1>2, <1>3 DEF Parent, IsFunction
    <2> QED BY <1>1, <2>2, <2>3
<1>8. \A i, j \in DOMAIN nodes' : j \in nodes'[i].kids <=> nodes'[j].parent = i
    <2>1. \A i, j \in DOMAIN nodes : j \in nodes'[i].kids <=> nodes'[j].parent = i
        <3> TAKE i, j \in DOMAIN nodes
        <3>1. j # new
            BY <1>11
        <3>2. j \in nodes'[i].kids <=> j \in nodes[i].kids
            BY <1>13, <3>1
        <3>3. j \in nodes[i].kids <=> nodes[j].parent = i
            BY <1>12
        <3>4. nodes'[j].parent = nodes[j].parent
            BY <1>3
        <3> QED BY <3>2, <3>3, <3>4
    <2>2. \A i \in DOMAIN nodes : new \in nodes'[i].kids <=> nodes'[new].parent = i
        BY <1>3, <1>4, <1>11
    <2>3. \A j \in DOMAIN nodes : nodes[j].parent # new
        BY <1>1, <1>2, FirstAssumption DEF Tree, Parent, Root
    <2>4. \A j \in DOMAIN nodes' : j \in nodes'[new].kids <=> nodes'[j].parent = new
        BY <1>3, <1>11, <2>3
    <2> QED BY <1>1, <2>1, <2>2, <2>4
<1>9. \A i, j \in DOMAIN nodes' : nodes'[i].kids \cap nodes'[j].kids # {} => i = j
    <2>1. \A i, j \in DOMAIN nodes : nodes[i].kids \cap nodes[j].kids # {} => i = j
        BY <1>12
    <2>2. \A i, j \in DOMAIN nodes : nodes'[i].kids \cap nodes'[j].kids # {} => i = j
        <3> TAKE i, j \in DOMAIN nodes
        <3> HAVE nodes'[i].kids \cap nodes'[j].kids # {}
        <3>1. PICK k \in nodes'[i].kids : k \in nodes'[j].kids
            OBVIOUS
        <3>2. CASE k = new
            BY <1>13, <3>1, <3>2
        <3>3. CASE k # new
            <4>1. k \in nodes[i].kids /\ k \in nodes[j].kids
                BY <1>13, <3>1, <3>3
            <4> QED BY <2>1, <4>1
        <3> QED BY <3>2, <3>3
    <2> QED BY <1>1, <2>2
<1>10. KidsInv'
    <2>1. \A i \in DOMAIN nodes :
            nodes'[i].kids \subseteq DOMAIN nodes' \cup {Children[q] : q \in 1..childIndex'}
        <3> TAKE i \in DOMAIN nodes
        <3>1. nodes[i].kids \subseteq DOMAIN nodes \cup {Children[q] : q \in 1..childIndex}
            BY <1>12
        <3>2. nodes'[i].kids \subseteq nodes[i].kids \cup {new}
            BY <1>13
        <3> QED BY <1>11, <3>1, <3>2
    <2>2. nodes'[new].kids = {}
        BY <1>11
    <2> QED BY <1>11, <2>1, <2>2 DEF KidsInv
<1> QED BY <1>1, <1>2, <1>5, <1>6, <1>7, <1>8, <1>9, <1>10, <1>0 DEF Tree, Parent, Root

\* A step that leaves ids, parents, children and kinds alone.
LEMMA SameTree ==
    ASSUME Tree, UNCHANGED <<next_call_id, childIndex>>,
           nodes' \in [DOMAIN nodes -> Node],
           \A i \in DOMAIN nodes : /\ nodes'[i].kids = nodes[i].kids
                                   /\ nodes'[i].parent = nodes[i].parent
                                   /\ nodes'[i].kind = nodes[i].kind
    PROVE  Tree' /\ DOMAIN nodes' = DOMAIN nodes
           /\ \A i \in DOMAIN nodes : IsFunction(i)' = IsFunction(i)
<1>1. DOMAIN nodes' = DOMAIN nodes /\ Root \in DOMAIN nodes
    BY FirstAssumption DEF Tree, Root
<1>2. nodes' \in [Root..next_call_id' - 1 -> Node]
    BY DEF Tree
<1>3. \A i \in DOMAIN nodes : Parent(i)' = Parent(i) /\ IsFunction(i)' = IsFunction(i)
    BY DEF Parent, IsFunction
<1>4. \A i \in DOMAIN nodes \ {Root} :
          Parent(i)' \in DOMAIN nodes' /\ Parent(i)' < i /\ IsFunction(Parent(i))'
    <2> TAKE i \in DOMAIN nodes \ {Root}
    <2>1. Parent(i) \in DOMAIN nodes /\ Parent(i) < i /\ nodes[Parent(i)].kind = "function"
        BY DEF Tree, IsFunction
    <2>2. Parent(i)' = Parent(i)
        BY <1>3
    <2>3. nodes'[Parent(i)].kind = "function"
        BY <2>1
    <2> QED BY <1>1, <2>1, <2>2, <2>3 DEF IsFunction
<1>5. \A i, j \in DOMAIN nodes' : j \in nodes'[i].kids <=> Parent(j)' = i
    BY <1>1, <1>3 DEF Tree
<1>6. \A i, j \in DOMAIN nodes' : nodes'[i].kids \cap nodes'[j].kids # {} => i = j
    BY <1>1 DEF Tree
<1>7. KidsInv'
    BY <1>1 DEF Tree, KidsInv
<1>8. Root' = Root
    BY DEF Root
<1> QED BY <1>1, <1>2, <1>3, <1>4, <1>5, <1>6, <1>7, <1>8 DEF Tree

\* The next inner call becomes a child of the current call.
LEMMA LinkTree ==
    ASSUME Tree, current \in DOMAIN nodes, childIndex \in Nat, childIndex < Len(Children),
           nodes' = [nodes EXCEPT ![current].kids = @ \cup {Children[childIndex + 1]}],
           childIndex' = childIndex + 1, UNCHANGED next_call_id
    PROVE  Tree' /\ DOMAIN nodes' = DOMAIN nodes
           /\ \A i \in DOMAIN nodes : IsFunction(i)' = IsFunction(i)
<1>a. childIndex + 1 \in 1..Len(Children)
    BY ChildrenAssumption, LenProperties
<1>b. PICK child \in 1..First - 1 : child = Children[childIndex + 1] /\ child \notin DOMAIN nodes
    BY <1>a, ChildrenApart
<1>1. child \in Nat /\ child \notin DOMAIN nodes
    BY <1>b, FirstAssumption
<1>2. /\ DOMAIN nodes' = DOMAIN nodes /\ Root \in DOMAIN nodes
      /\ \A i \in DOMAIN nodes : nodes[i] \in Node
      /\ nodes'[current] = [nodes[current] EXCEPT !.kids = @ \cup {child}]
      /\ \A i \in DOMAIN nodes \ {current} : nodes'[i] = nodes[i]
    BY <1>b, FirstAssumption DEF Tree, Root
<1>3. /\ nodes'[current] \in Node
      /\ nodes'[current].kids = nodes[current].kids \cup {child}
      /\ nodes'[current].parent = nodes[current].parent
      /\ nodes'[current].kind = nodes[current].kind
    <2>1. PICK n \in Node : n = nodes[current]
        BY <1>2
    <2>2. PICK kids \in SUBSET Nat : kids = n.kids \cup {child}
        BY <1>1 DEF Node
    <2>3. nodes'[current] = [n EXCEPT !.kids = kids]
        BY <1>2, <2>1, <2>2
    <2>4. /\ nodes'[current] \in Node /\ nodes'[current].kids = kids
          /\ nodes'[current].parent = n.parent /\ nodes'[current].kind = n.kind
        BY <2>3 DEF Node
    <2> QED BY <2>1, <2>2, <2>4
<1>4. \A i \in DOMAIN nodes : /\ nodes'[i] \in Node
                              /\ nodes'[i].parent = nodes[i].parent
                              /\ nodes'[i].kind = nodes[i].kind
    BY <1>2, <1>3
<1>5. \A i \in DOMAIN nodes : child \notin nodes[i].kids
    <2>1. \A q \in 1..childIndex : Children[q] # child
        BY <1>b, ChildrenAssumption, LenProperties
    <2> QED BY <1>1, <2>1 DEF Tree, KidsInv
<1>6. \A i \in DOMAIN nodes : /\ nodes[i].kids = nodes'[i].kids \ {child}
                              /\ child \in nodes'[i].kids <=> i = current
    <2> TAKE i \in DOMAIN nodes
    <2>1. child \notin nodes[i].kids
        BY <1>5
    <2> QED BY <1>2, <1>3, <2>1
<1>7. nodes' \in [Root..next_call_id' - 1 -> Node]
    <2>1. nodes' = [i \in DOMAIN nodes |-> nodes'[i]]
        BY DEF Tree
    <2>2. DOMAIN nodes = Root..next_call_id' - 1
        BY DEF Tree
    <2> QED BY <1>4, <2>1, <2>2
<1>8. \A i \in DOMAIN nodes : Parent(i)' = Parent(i) /\ IsFunction(i)' = IsFunction(i)
    BY <1>4 DEF Parent, IsFunction
<1>9. \A i \in DOMAIN nodes \ {Root} :
          Parent(i)' \in DOMAIN nodes' /\ Parent(i)' < i /\ IsFunction(Parent(i))'
    <2> TAKE i \in DOMAIN nodes \ {Root}
    <2>1. Parent(i) \in DOMAIN nodes /\ Parent(i) < i /\ nodes[Parent(i)].kind = "function"
        BY DEF Tree, IsFunction
    <2>2. Parent(i)' = Parent(i)
        BY <1>8
    <2>3. nodes'[Parent(i)].kind = "function"
        BY <1>4, <2>1
    <2> QED BY <1>2, <2>1, <2>2, <2>3 DEF IsFunction
<1>10. \A i, j \in DOMAIN nodes' : j \in nodes'[i].kids <=> Parent(j)' = i
    <2> SUFFICES ASSUME NEW i \in DOMAIN nodes, NEW j \in DOMAIN nodes
                 PROVE  j \in nodes'[i].kids <=> Parent(j)' = i
        BY <1>2
    <2>1. j # child
        BY <1>1
    <2>2. j \in nodes'[i].kids <=> j \in nodes[i].kids
        BY <1>6, <2>1
    <2>3. j \in nodes[i].kids <=> Parent(j) = i
        BY DEF Tree
    <2> QED BY <1>8, <2>2, <2>3
<1>11. \A i, j \in DOMAIN nodes' : nodes'[i].kids \cap nodes'[j].kids # {} => i = j
    <2> SUFFICES ASSUME NEW i \in DOMAIN nodes, NEW j \in DOMAIN nodes,
                        NEW k \in nodes'[i].kids, k \in nodes'[j].kids
                 PROVE  i = j
        BY <1>2
    <2>1. CASE k = child
        BY <1>6, <2>1
    <2>2. CASE k # child
        <3>1. k \in nodes[i].kids /\ k \in nodes[j].kids
            BY <1>6, <2>2
        <3> QED BY <3>1 DEF Tree
    <2> QED BY <2>1, <2>2
<1>12. KidsInv'
    <2> SUFFICES ASSUME NEW i \in DOMAIN nodes
                 PROVE  nodes'[i].kids \subseteq
                            DOMAIN nodes \cup {Children[q] : q \in 1..childIndex + 1}
        BY <1>2 DEF KidsInv
    <2>1. nodes[i].kids \subseteq DOMAIN nodes \cup {Children[q] : q \in 1..childIndex}
        BY DEF Tree, KidsInv
    <2>2. nodes'[i].kids \subseteq nodes[i].kids \cup {child}
        BY <1>6
    <2>3. child \in {Children[q] : q \in 1..childIndex + 1}
        BY <1>b
    <2>4. 1..childIndex \subseteq 1..childIndex + 1
        OBVIOUS
    <2> QED BY <2>1, <2>2, <2>3, <2>4
<1>13. Root' = Root
    BY DEF Root
<1>14. Parent(Root)' = 0 /\ IsFunction(Root)'
    BY <1>2, <1>8, <1>13 DEF Tree
<1> QED BY <1>2, <1>7, <1>8, <1>9, <1>10, <1>11, <1>12, <1>13, <1>14 DEF Tree

\* The tree and the types of the rest make up the invariant.
LEMMA TreeInvFrom ==
    ASSUME Tree, TypeOK, IsFunction(current), ParentsInv
    PROVE  TreeInv
BY DEF TreeInv, TreeOK, Tree

LEMMA Indexes ==
    ASSUME TypeOK
    PROVE  /\ childIndex \in Nat /\ Len(made) \in Nat /\ Len(Children) \in Nat
           /\ childIndex <= Len(made) /\ childIndex <= Len(Children)
<1>1. Len(made) \in Nat /\ Len(Children) \in Nat
    BY ChildrenAssumption, LenProperties DEF TypeOK
<1> QED BY <1>1 DEF TypeOK

\* A new frame of a function call, and what loops remember.
LEMMA ParentsPush ==
    ASSUME TypeOK, ParentsInv, \A i \in DOMAIN nodes : IsFunction(i)' = IsFunction(i),
           Len(stack') = Len(stack) + 1,
           \A k \in 1..Len(stack) : stack'[k] = stack[k],
           nodes'[stack'[Len(stack')].call].kind = "function",
           \A l \in DOMAIN loopParent' : nodes'[loopParent'[l]].kind = "function"
    PROVE  ParentsInv'
<1>1. \A k \in 1..Len(stack) : nodes'[stack'[k].call].kind = "function"
    <2> TAKE k \in 1..Len(stack)
    <2>1. stack[k].call \in DOMAIN nodes /\ IsFunction(stack[k].call)
        BY StackType DEF FrameType, ParentsInv
    <2>2. nodes'[stack[k].call].kind = "function"
        BY <2>1 DEF IsFunction
    <2> QED BY <2>2
<1>2. \A k \in 1..Len(stack') : k \in 1..Len(stack) \/ k = Len(stack')
    BY StackType
<1>3. \A k \in 1..Len(stack') : nodes'[stack'[k].call].kind = "function"
    BY <1>1, <1>2
<1> QED BY <1>3 DEF ParentsInv, IsFunction

\* What loops remember stays a function call.
LEMMA LoopsKeep ==
    ASSUME TypeOK, ParentsInv, \A i \in DOMAIN nodes : IsFunction(i)' = IsFunction(i)
    PROVE  \A l \in DOMAIN loopParent : /\ loopParent[l] \in DOMAIN nodes
                                       /\ nodes'[loopParent[l]].kind = "function"
BY DEF TypeOK, ParentsInv, IsFunction

LEMMA InitTree == Init => TreeInv
<1> SUFFICES ASSUME Init PROVE TreeInv
    OBVIOUS
<1> USE FirstAssumption DEF Root
<1> DEFINE node == FunctionCall(Wrapper, 0, 1)
<1>1. node \in Node /\ node.kids = {} /\ node.parent = 0 /\ node.kind = "function"
    BY DEF FunctionCall, Node, Functions
<1>2. DOMAIN nodes = {Root} /\ nodes[Root] = node
    BY DEF Init
<1> HIDE DEF node
<1>3. Tree
    <2>1. next_call_id \in Nat /\ Root < next_call_id /\ {Root} = Root..next_call_id - 1
        BY DEF Init
    <2>2. nodes = [i \in {Root} |-> nodes[i]]
        BY DEF Init
    <2>3. nodes \in [Root..next_call_id - 1 -> Node]
        BY <1>1, <1>2, <2>1, <2>2
    <2> QED BY <1>1, <1>2, <2>1, <2>3 DEF Tree, KidsInv, Parent, IsFunction
<1>4. /\ stack \in Seq(FrameType) /\ Len(stack) = 1 /\ stack[1].call = Root
      /\ made \in Seq([kind: {"call_contract", "library_call"}, call: DOMAIN nodes])
      /\ Len(made) = 0
    <2>1. [fp |-> 1, fn |-> Wrapper, call |-> Root] \in FrameType
        BY <1>2 DEF FrameType, Functions
    <2> QED BY <2>1 DEF Init
<1>5. TypeOK
    <2>1. DOMAIN loopParent = {}
        BY DEF Init
    <2>2. Len(Children) \in Nat
        BY ChildrenAssumption, LenProperties
    <2> QED BY <1>2, <1>3, <1>4, <2>1, <2>2 DEF Init, TypeOK, Tree, FrameType
<1>6. ParentsInv
    BY <1>1, <1>2, <1>4 DEF Init, ParentsInv, IsFunction
<1>7. IsFunction(current)
    BY <1>1, <1>2 DEF Init, IsFunction
<1> QED BY <1>3, <1>5, <1>6, <1>7, TreeInvFrom

\* A function enters the tree below the current call.
LEMMA EnterFunctionTree ==
    ASSUME TreeInv, NEW fn \in Named \cup Core, EnterFunction(fn)
    PROVE  TreeInv'
<1> DEFINE node == FunctionCall(fn, current, frames + 1)
<1>0. TypeOK /\ Tree /\ ParentsInv /\ current \in DOMAIN nodes /\ IsFunction(current)
      /\ next_call_id \in Nat
    BY TreeIsTree DEF TreeInv, TreeOK, Tree
<1>1. current \in Nat /\ frames \in Nat
    BY <1>0, FirstAssumption DEF TypeOK, Root
<1>2. node \in Node /\ node.parent = current /\ node.kids = {} /\ node.kind = "function"
    BY <1>1 DEF FunctionCall, Node, Functions
<1> HIDE DEF node
<1>3. Attach(current, node) /\ next_call_id' = next_call_id + 1 /\ UNCHANGED childIndex
      /\ current' = next_call_id /\ UNCHANGED made
    BY DEF EnterFunction, Enter, node
<1>4. Tree' /\ \A i \in DOMAIN nodes : IsFunction(i)' = IsFunction(i)
    BY <1>0, <1>2, <1>3, AttachTree, Indexes
<1>5. DOMAIN nodes' = DOMAIN nodes \cup {next_call_id} /\ nodes'[next_call_id] = node
    BY <1>0, <1>2, <1>3, AttachNodes
<1>6. current' \in DOMAIN nodes' /\ IsFunction(current)'
    BY <1>2, <1>3, <1>5 DEF IsFunction
<1>7. /\ stack' \in Seq(FrameType') /\ Len(stack') = Len(stack) + 1
      /\ \A k \in 1..Len(stack) : stack'[k] = stack[k]
      /\ stack'[Len(stack')].call = next_call_id
    <2>1. Push(fn, next_call_id) /\ fn \in Functions
        BY DEF EnterFunction, Functions
    <2>2. next_call_id \in DOMAIN nodes' /\ DOMAIN nodes \subseteq DOMAIN nodes'
        BY <1>5
    <2>3. /\ stack' \in Seq(FrameType') /\ Len(stack') = Len(stack) + 1
          /\ \A k \in 1..Len(stack) : stack'[k] = stack[k]
          /\ stack'[Len(stack')] = [fp |-> frames + 1, fn |-> fn, call |-> next_call_id]
        BY <1>0, <2>1, <2>2, PushStack
    <2> QED BY <2>3
<1>8. made' \in Seq([kind: {"call_contract", "library_call"}, call: DOMAIN nodes'])
    BY <1>0, <1>3, <1>5, KeepMade
<1>9. UNCHANGED <<childIndex, panicLevel, panicCall, panicked, loopParent, shape>>
      /\ frames' = frames + 1 /\ nesting' = nesting + 1
    BY DEF EnterFunction, Enter
<1>10. TypeOK'
    <2>1. Len(stack') > 0
        BY <1>0, <1>7, StackType
    <2>2. next_call_id' \in Nat /\ nodes' \in [Root..next_call_id' - 1 -> Node]
        BY <1>4 DEF Tree, Root
    <2>3. \A l \in DOMAIN loopParent : loopParent[l] \in DOMAIN nodes'
        BY <1>0, <1>5 DEF TypeOK
    <2> QED BY <1>0, <1>3, <1>5, <1>6, <1>7, <1>8, <1>9, <2>1, <2>2, <2>3, SMTT(30)
            DEF TypeOK, FrameType, Functions, Root
<1>11. ParentsInv'
    <2>1. nodes'[stack'[Len(stack')].call].kind = "function"
        BY <1>2, <1>5, <1>7
    <2>2. \A l \in DOMAIN loopParent' : nodes'[loopParent'[l]].kind = "function"
        BY <1>0, <1>4, <1>9, LoopsKeep
    <2>3. TypeOK /\ ParentsInv /\ \A i \in DOMAIN nodes : IsFunction(i)' = IsFunction(i)
        BY <1>0, <1>4
    <2>4. Len(stack') = Len(stack) + 1 /\ \A k \in 1..Len(stack) : stack'[k] = stack[k]
        BY <1>7
    <2> QED BY <2>1, <2>2, <2>3, <2>4, ParentsPush
<1> QED BY <1>4, <1>6, <1>10, <1>11 DEF TreeInv, TreeOK, Tree

\* An entry into a loop or an unnamed function adds a frame and no call.
LEMMA EnterFrameTree ==
    ASSUME TreeInv, Enter, UNCHANGED <<nodes, next_call_id, nesting>>,
           NEW fn \in Functions, Push(fn, Top.call),
           current' \in {current} \cup {loopParent[l] : l \in DOMAIN loopParent},
           DOMAIN loopParent' \subseteq Loops,
           \A l \in DOMAIN loopParent' :
               loopParent'[l] \in {current} \cup {loopParent[m] : m \in DOMAIN loopParent},
           shape' \in {"straight", "loops", "unnamed"}
    PROVE  TreeInv'
<1>0. TypeOK /\ Tree /\ ParentsInv /\ current \in DOMAIN nodes /\ IsFunction(current)
    BY TreeIsTree DEF TreeInv, TreeOK
<1>1. UNCHANGED <<childIndex, panicLevel, panicCall, panicked, made>> /\ frames' = frames + 1
    BY DEF Enter
<1>2. Tree' /\ \A i \in DOMAIN nodes : IsFunction(i)' = IsFunction(i)
    <2>1. nodes' \in [DOMAIN nodes -> Node]
        BY <1>0 DEF Tree
    <2> QED BY <1>0, <1>1, <2>1, SameTree
<1>3. \A i \in {current} \cup {loopParent[m] : m \in DOMAIN loopParent} :
          i \in DOMAIN nodes /\ nodes[i].kind = "function"
    BY <1>0 DEF TypeOK, ParentsInv, IsFunction
<1>4. Top.call \in DOMAIN nodes /\ nodes[Top.call].kind = "function"
    BY <1>0, StackType DEF FrameType, ParentsInv, IsFunction, Top
<1>5. /\ stack' \in Seq(FrameType') /\ Len(stack') = Len(stack) + 1
      /\ \A k \in 1..Len(stack) : stack'[k] = stack[k]
      /\ stack'[Len(stack')].call = Top.call
    <2>1. /\ stack' \in Seq(FrameType') /\ Len(stack') = Len(stack) + 1
          /\ \A k \in 1..Len(stack) : stack'[k] = stack[k]
          /\ stack'[Len(stack')] = [fp |-> frames + 1, fn |-> fn, call |-> Top.call]
        BY <1>0, <1>4, PushStack
    <2> QED BY <2>1
<1>6. TypeOK'
    <2>1. Len(stack') > 0
        BY <1>0, <1>5, StackType
    <2>2. current' \in DOMAIN nodes' /\ \A l \in DOMAIN loopParent' : loopParent'[l] \in DOMAIN nodes'
        BY <1>3
    <2>3. /\ next_call_id' \in Nat /\ nodes' \in [Root..next_call_id' - 1 -> Node]
          /\ nesting' \in Int /\ panicLevel' \in Int /\ frames' \in Nat
          /\ panicCall' \in DOMAIN nodes' \cup {None} /\ panicked' \in DOMAIN nodes' \cup {None}
        BY <1>0, <1>1 DEF TypeOK, Root
    <2>4. /\ made' \in Seq([kind: {"call_contract", "library_call"}, call: DOMAIN nodes'])
          /\ childIndex' \in 0..Len(made') /\ Len(made') <= Len(Children)
        BY <1>0, <1>1 DEF TypeOK
    <2> QED BY <1>5, <2>1, <2>2, <2>3, <2>4 DEF TypeOK, FrameType, Functions, Root
<1>7. ParentsInv'
    <2>1. nodes'[stack'[Len(stack')].call].kind = "function"
        BY <1>4, <1>5
    <2>2. \A l \in DOMAIN loopParent' : nodes'[loopParent'[l]].kind = "function"
        BY <1>3
    <2>3. TypeOK /\ ParentsInv /\ \A i \in DOMAIN nodes : IsFunction(i)' = IsFunction(i)
        BY <1>0, <1>2
    <2>4. Len(stack') = Len(stack) + 1 /\ \A k \in 1..Len(stack) : stack'[k] = stack[k]
        BY <1>5
    <2> QED BY <2>1, <2>2, <2>3, <2>4, ParentsPush
<1>8. IsFunction(current)'
    BY <1>3 DEF IsFunction
<1> QED BY <1>2, <1>6, <1>7, <1>8 DEF TreeInv, TreeOK, Tree

LEMMA EnterLoopTree ==
    ASSUME TreeInv, NEW fn \in Loops, EnterLoop(fn)
    PROVE  TreeInv'
<1>1. TypeOK
    BY DEF TreeInv, TreeOK
<1>2. /\ Enter /\ UNCHANGED <<nodes, next_call_id, nesting>> /\ Push(fn, Top.call)
      /\ shape' = IF shape = "straight" THEN "loops" ELSE shape
    BY DEF EnterLoop
<1>3. \/ /\ fn \in DOMAIN loopParent
         /\ current' = loopParent[fn] /\ loopParent' = loopParent
      \/ /\ fn \notin DOMAIN loopParent /\ current' = current
         /\ loopParent' = [l \in DOMAIN loopParent \cup {fn} |->
                              IF l = fn THEN current ELSE loopParent[l]]
    BY DEF EnterLoop
<1>4. /\ current' \in {current} \cup {loopParent[l] : l \in DOMAIN loopParent}
      /\ DOMAIN loopParent' \subseteq Loops
      /\ \A l \in DOMAIN loopParent' :
            loopParent'[l] \in {current} \cup {loopParent[m] : m \in DOMAIN loopParent}
    BY <1>1, <1>3 DEF TypeOK
<1>5. shape' \in {"straight", "loops", "unnamed"} /\ fn \in Functions
    BY <1>1, <1>2 DEF TypeOK, Functions
<1> QED BY <1>2, <1>4, <1>5, EnterFrameTree

LEMMA EnterUnnamedTree ==
    ASSUME TreeInv, EnterUnnamed
    PROVE  TreeInv'
<1>1. TypeOK
    BY DEF TreeInv, TreeOK
<1>2. /\ Enter /\ UNCHANGED <<nodes, next_call_id, nesting>> /\ Push(Unnamed, Top.call)
      /\ shape' \in {"straight", "loops", "unnamed"} /\ Unnamed \in Functions
      /\ UNCHANGED <<current, loopParent>>
    BY DEF EnterUnnamed, Functions
<1>3. /\ current' \in {current} \cup {loopParent[l] : l \in DOMAIN loopParent}
      /\ DOMAIN loopParent' \subseteq Loops
      /\ \A l \in DOMAIN loopParent' :
            loopParent'[l] \in {current} \cup {loopParent[m] : m \in DOMAIN loopParent}
    BY <1>1, <1>2 DEF TypeOK
<1> QED BY <1>2, <1>3, EnterFrameTree

\* Only a call below the root is left, for its parent.
LEMMA ReturnTree ==
    ASSUME TreeInv, NEW panics \in BOOLEAN, Return(panics)
    PROVE  TreeInv'
<1>0. TypeOK /\ Tree /\ ParentsInv /\ current \in DOMAIN nodes /\ IsFunction(current)
    BY TreeIsTree DEF TreeInv, TreeOK
<1>1. UNCHANGED <<next_call_id, loopParent, childIndex, frames, made, shape>>
    BY DEF Return
<1>2. /\ nodes' \in [DOMAIN nodes -> Node]
      /\ \A i \in DOMAIN nodes : /\ nodes'[i].kids = nodes[i].kids
                                /\ nodes'[i].parent = nodes[i].parent
                                /\ nodes'[i].kind = nodes[i].kind
      /\ current' \in DOMAIN nodes /\ IsFunction(current')
      /\ nesting' \in Int /\ panicLevel' \in Int /\ panicCall' \in DOMAIN nodes \cup {None}
    <2>1. CASE Leaves(stack[Len(stack) - 1].fp)
        <3> DEFINE result == IF panics THEN "panic" ELSE "ok"
        <3>1. nodes' = [nodes EXCEPT ![current].result = result, ![current].from = Top.fp]
              /\ current' = nodes[current].parent
              /\ nesting' = nesting - 1
              /\ panicLevel' \in {nesting, panicLevel} /\ panicCall' \in {current, panicCall}
            BY <2>1 DEF Return
        <3>2. current # Root /\ Parent(current) \in DOMAIN nodes /\ IsFunction(Parent(current))
            BY <1>0, <2>1 DEF Leaves, Tree, Parent
        <3>3. PICK n \in Node : n = nodes[current]
            BY <1>0 DEF Tree
        <3>4. Top.fp \in Nat /\ result \in {"ok", "panic"}
            BY <1>0, StackType DEF FrameType
        <3>5. nodes'[current] = [n EXCEPT !.result = result, !.from = Top.fp]
            BY <1>0, <3>1, <3>3
        <3> HIDE DEF result
        <3>6. nodes'[current] \in Node /\ nodes'[current].kids = n.kids
              /\ nodes'[current].parent = n.parent /\ nodes'[current].kind = n.kind
            BY <3>4, <3>5 DEF Node
        <3>7. \A i \in DOMAIN nodes \ {current} : nodes'[i] = nodes[i] /\ nodes[i] \in Node
            BY <1>0, <3>1 DEF Tree
        <3>8. nodes' = [i \in DOMAIN nodes |-> nodes'[i]]
            BY <1>0, <3>1 DEF Tree
        <3>9. nodes' \in [DOMAIN nodes -> Node]
            BY <3>6, <3>7, <3>8
        <3>10. nesting' \in Int /\ panicLevel' \in Int /\ panicCall' \in DOMAIN nodes \cup {None}
            BY <1>0, <3>1 DEF TypeOK
        <3> QED BY <3>1, <3>2, <3>3, <3>6, <3>7, <3>9, <3>10 DEF Parent
    <2>2. CASE ~Leaves(stack[Len(stack) - 1].fp)
        BY <1>0, <2>2 DEF Return, TypeOK, Tree
    <2> QED BY <2>1, <2>2
<1>3. Tree' /\ DOMAIN nodes' = DOMAIN nodes
      /\ \A i \in DOMAIN nodes : nodes'[i].kind = nodes[i].kind
    BY <1>0, <1>1, <1>2, SameTree
<1>4. /\ stack' \in Seq(FrameType') /\ Len(stack') = Len(stack) - 1 /\ Len(stack) > 1
      /\ \A k \in 1..Len(stack) - 1 : stack'[k] = stack[k]
    BY <1>0, <1>3, PopStack DEF Return
<1>5. IsFunction(current)'
    BY <1>2, <1>3 DEF IsFunction
<1>6. TypeOK'
    <2>1. panicked' \in DOMAIN nodes \cup {None}
        BY <1>0, StackType DEF Return, TypeOK, FrameType
    <2>2. Len(stack') > 0
        BY <1>0, <1>4, StackType
    <2>3. nodes' \in [Root..next_call_id' - 1 -> Node] /\ next_call_id' \in Nat
        BY <1>3 DEF Tree, Root
    <2>4. /\ made' \in Seq([kind: {"call_contract", "library_call"}, call: DOMAIN nodes'])
          /\ childIndex' \in 0..Len(made') /\ Len(made') <= Len(Children)
          /\ frames' \in Nat /\ shape' \in {"straight", "loops", "unnamed"}
          /\ DOMAIN loopParent' \subseteq Loops
          /\ \A l \in DOMAIN loopParent' : loopParent'[l] \in DOMAIN nodes'
        BY <1>0, <1>1, <1>3 DEF TypeOK
    <2> QED BY <1>2, <1>3, <1>4, <2>1, <2>2, <2>3, <2>4 DEF TypeOK, FrameType, Functions, Root
<1>7. ParentsInv'
    <2>1. \A k \in 1..Len(stack') : k \in 1..Len(stack) - 1 /\ k \in 1..Len(stack)
        BY <1>0, <1>4, StackType
    <2>2. \A k \in 1..Len(stack) : stack[k].call \in DOMAIN nodes
                                  /\ nodes[stack[k].call].kind = "function"
        BY <1>0, StackType DEF FrameType, ParentsInv, IsFunction
    <2>3. \A k \in 1..Len(stack') : nodes'[stack'[k].call].kind = "function"
        BY <1>3, <1>4, <2>1, <2>2
    <2>4. \A l \in DOMAIN loopParent' : nodes'[loopParent'[l]].kind = "function"
        BY <1>0, <1>1, <1>3 DEF TypeOK, ParentsInv, IsFunction
    <2> QED BY <2>3, <2>4 DEF ParentsInv, IsFunction
<1> QED BY <1>3, <1>5, <1>6, <1>7 DEF TreeInv, TreeOK, Tree

\* System calls stay in their frame.
LEMMA FrameParents ==
    ASSUME TypeOK, ParentsInv, \A i \in DOMAIN nodes : IsFunction(i)' = IsFunction(i),
           UNCHANGED <<stack, loopParent>>
    PROVE  ParentsInv'
<1>1. \A k \in 1..Len(stack) : stack[k].call \in DOMAIN nodes
    BY StackType DEF FrameType
<1> QED BY <1>1, LoopsKeep DEF ParentsInv, IsFunction

LEMMA CallContractTree ==
    ASSUME TreeInv, CallContract, Frame
    PROVE  TreeInv'
<1>0. TypeOK /\ Tree /\ ParentsInv /\ current \in DOMAIN nodes /\ IsFunction(current)
    BY TreeIsTree DEF TreeInv, TreeOK
<1>1. /\ UNCHANGED <<nesting, loopParent, panicLevel, panicCall, stack, frames, panicked, shape>>
      /\ UNCHANGED <<current, next_call_id>> /\ Makes("call_contract")
      /\ nodes' = [nodes EXCEPT ![current].kids = @ \cup {Children[childIndex + 1]}]
      /\ childIndex' = childIndex + 1
    BY DEF CallContract, Frame, SysCall, Advanced
<1>2. childIndex \in Nat /\ childIndex <= Len(made) /\ Len(made) < Len(Children)
      /\ Len(made) \in Nat /\ Len(Children) \in Nat
    BY <1>0, <1>1, Indexes DEF Makes
<1>3. Tree' /\ DOMAIN nodes' = DOMAIN nodes
      /\ \A i \in DOMAIN nodes : IsFunction(i)' = IsFunction(i)
    BY <1>0, <1>1, <1>2, LinkTree
<1>4. /\ made' \in Seq([kind: {"call_contract", "library_call"}, call: DOMAIN nodes'])
      /\ Len(made') = Len(made) + 1
    BY <1>0, <1>1, <1>3, MakesOne
<1>5. stack' \in Seq(FrameType')
    BY <1>0, <1>1, <1>3, KeepStack
<1>6. TypeOK'
    <2>1. nodes' \in [Root..next_call_id' - 1 -> Node] /\ next_call_id' \in Nat
        BY <1>3 DEF Tree, Root
    <2>2. childIndex' \in 0..Len(made') /\ Len(made') <= Len(Children)
        BY <1>1, <1>2, <1>4
    <2> QED BY <1>0, <1>1, <1>3, <1>4, <1>5, <2>1, <2>2 DEF TypeOK, FrameType, Functions, Root
<1>7. ParentsInv'
    BY <1>0, <1>1, <1>3, FrameParents
<1>8. IsFunction(current)'
    BY <1>0, <1>1, <1>3 DEF IsFunction
<1> QED BY <1>3, <1>6, <1>7, <1>8 DEF TreeInv, TreeOK, Tree

LEMMA LibraryCallTree ==
    ASSUME TreeInv, LibraryCall, Frame
    PROVE  TreeInv'
<1>0. TypeOK /\ Tree /\ ParentsInv /\ current \in DOMAIN nodes /\ IsFunction(current)
    BY TreeIsTree DEF TreeInv, TreeOK
<1>1. /\ UNCHANGED <<nesting, loopParent, panicLevel, panicCall, stack, frames, panicked, shape>>
      /\ UNCHANGED <<nodes, current, next_call_id, childIndex>> /\ Makes("library_call")
    BY DEF LibraryCall, Frame, SysCall
<1>2. /\ made' \in Seq([kind: {"call_contract", "library_call"}, call: DOMAIN nodes'])
      /\ Len(made') = Len(made) + 1 /\ Len(made) < Len(Children)
      /\ childIndex \in Nat /\ childIndex <= Len(made) /\ Len(made) \in Nat
      /\ Len(Children) \in Nat
    BY <1>0, <1>1, MakesOne, Indexes
<1>3. Tree' /\ DOMAIN nodes' = DOMAIN nodes
      /\ \A i \in DOMAIN nodes : IsFunction(i)' = IsFunction(i)
    <2>1. nodes' \in [DOMAIN nodes -> Node]
        BY <1>0, <1>1 DEF Tree
    <2> QED BY <1>0, <1>1, <2>1, SameTree
<1>4. TypeOK'
    <2>1. childIndex' \in 0..Len(made') /\ Len(made') <= Len(Children)
        BY <1>1, <1>2
    <2> QED BY <1>0, <1>1, <1>2, <2>1 DEF TypeOK, Functions, Root
<1>5. ParentsInv'
    BY <1>0, <1>1, <1>3, FrameParents
<1>6. IsFunction(current)'
    BY <1>0, <1>1 DEF IsFunction
<1> QED BY <1>3, <1>4, <1>5, <1>6 DEF TreeInv, TreeOK, Tree

LEMMA EmitEventTree ==
    ASSUME TreeInv, EmitEvent, Frame
    PROVE  TreeInv'
<1> DEFINE node == EventCall(current)
<1>0. TypeOK /\ Tree /\ ParentsInv /\ current \in DOMAIN nodes /\ IsFunction(current)
    BY TreeIsTree DEF TreeInv, TreeOK
<1>1. /\ UNCHANGED <<nesting, loopParent, panicLevel, panicCall, stack, frames, panicked, shape>>
      /\ UNCHANGED <<current, childIndex, made>>
      /\ Attach(current, node) /\ next_call_id' = next_call_id + 1
    BY DEF EmitEvent, Frame, SysCall
<1>2. node \in Node /\ node.parent = current /\ node.kids = {}
    <2>1. current \in Nat
        BY <1>0, FirstAssumption DEF TypeOK, Root
    <2> QED BY <2>1 DEF EventCall, Node, Functions
<1> HIDE DEF node
<1>3. Tree' /\ \A i \in DOMAIN nodes : IsFunction(i)' = IsFunction(i)
    BY <1>0, <1>1, <1>2, AttachTree, Indexes
<1>4. DOMAIN nodes' = DOMAIN nodes \cup {next_call_id}
    BY <1>0, <1>1, <1>2, AttachNodes
<1>5. /\ stack' \in Seq(FrameType')
      /\ made' \in Seq([kind: {"call_contract", "library_call"}, call: DOMAIN nodes'])
    BY <1>0, <1>1, <1>4, KeepStack, KeepMade
<1>6. TypeOK'
    <2>1. nodes' \in [Root..next_call_id' - 1 -> Node] /\ next_call_id' \in Nat
        BY <1>3 DEF Tree, Root
    <2>2. /\ panicCall' \in DOMAIN nodes' \cup {None} /\ panicked' \in DOMAIN nodes' \cup {None}
          /\ DOMAIN loopParent' \subseteq Loops /\ current' \in DOMAIN nodes'
          /\ \A l \in DOMAIN loopParent' : loopParent'[l] \in DOMAIN nodes'
        BY <1>0, <1>1, <1>4 DEF TypeOK
    <2> QED BY <1>0, <1>1, <1>5, <2>1, <2>2 DEF TypeOK, FrameType, Functions, Root
<1>7. ParentsInv'
    BY <1>0, <1>1, <1>3, FrameParents
<1>8. IsFunction(current)'
    BY <1>0, <1>1, <1>3 DEF IsFunction
<1> QED BY <1>3, <1>6, <1>7, <1>8 DEF TreeInv, TreeOK, Tree

\* Steps that change nothing of the calls.
LEMMA SameCallsTree ==
    ASSUME TreeInv,
           UNCHANGED <<nodes, next_call_id, current, nesting, loopParent, childIndex, panicLevel,
                       stack, frames, made, shape>>,
           panicCall' \in DOMAIN nodes \cup {None}, panicked' \in DOMAIN nodes \cup {None}
    PROVE  TreeInv'
<1>1. TypeOK'
    BY DEF TreeInv, TreeOK, TypeOK, Functions, Root
<1>2. KidsInv' /\ ParentsInv'
    BY DEF TreeInv, KidsInv, ParentsInv, IsFunction
<1>3. UNCHANGED <<Root, nodes, current>> /\ \A i : Parent(i)' = Parent(i) /\ IsFunction(i)' = IsFunction(i)
    BY DEF Parent, IsFunction, Root
<1> QED BY <1>1, <1>2, <1>3 DEF TreeInv, TreeOK

LEMMA FinishTree ==
    ASSUME TreeInv, NEW panics \in BOOLEAN, Finish(panics)
    PROVE  TreeInv'
<1>1. Top.call \in DOMAIN nodes /\ Root \in DOMAIN nodes
    BY StackType, FirstAssumption DEF TreeInv, TreeOK, TypeOK, FrameType, Root
<1>2. panicCall' \in DOMAIN nodes \cup {None} /\ panicked' \in DOMAIN nodes \cup {None}
    BY <1>1 DEF Finish, TreeInv, TreeOK, TypeOK
<1>3. UNCHANGED <<nodes, next_call_id, current, nesting, loopParent, childIndex, panicLevel,
                  stack, frames, made, shape>>
    BY DEF Finish
<1> QED BY <1>2, <1>3, SameCallsTree

LEMMA StayTree ==
    ASSUME TreeInv, \/ Stay /\ Frame
                    \/ UNCHANGED vars
    PROVE  TreeInv'
<1>1. UNCHANGED <<nodes, next_call_id, current, nesting, loopParent, childIndex, panicLevel,
                  stack, frames, made, shape>>
      /\ panicCall' = panicCall /\ panicked' = panicked
    BY DEF Stay, Frame, vars
<1>2. panicCall' \in DOMAIN nodes \cup {None} /\ panicked' \in DOMAIN nodes \cup {None}
    BY <1>1 DEF TreeInv, TreeOK, TypeOK
<1> QED BY <1>1, <1>2, SameCallsTree

LEMMA StepTree == TreeInv /\ [Next]_vars => TreeInv'
<1> SUFFICES ASSUME TreeInv, [Next]_vars PROVE TreeInv'
    OBVIOUS
<1>1. CASE \E fn \in Named \cup Core : EnterFunction(fn)
    BY <1>1, EnterFunctionTree
<1>2. CASE \E fn \in Loops : EnterLoop(fn)
    BY <1>2, EnterLoopTree
<1>3. CASE EnterUnnamed
    BY <1>3, EnterUnnamedTree
<1>4. CASE \E panics \in BOOLEAN : Return(panics)
    BY <1>4, ReturnTree
<1>5. CASE (Stay /\ Frame) \/ UNCHANGED vars
    BY <1>5, StayTree
<1>6. CASE CallContract /\ Frame
    BY <1>6, CallContractTree
<1>7. CASE LibraryCall /\ Frame
    BY <1>7, LibraryCallTree
<1>8. CASE EmitEvent /\ Frame
    BY <1>8, EmitEventTree
<1>9. CASE \E panics \in BOOLEAN : Finish(panics)
    BY <1>9, FinishTree
<1> QED BY <1>1, <1>2, <1>3, <1>4, <1>5, <1>6, <1>7, <1>8, <1>9 DEF Next

\* The inductive invariant: the calls form a tree, their children are calls
\* of the trace or inner calls that were linked, and whatever the builder may
\* go back to is a function call (call_trace.rs).
THEOREM TreeInvCorrect == Spec => []TreeInv
BY InitTree, StepTree, PTL DEF Spec

\* The calls that the front end walks form a tree under the root, for any
\* functions, loops, system calls and numbers of frames.
THEOREM TreeCorrect == Spec => []TreeOK
<1>1. TreeInv => TreeOK
    BY DEF TreeInv
<1> QED BY <1>1, TreeInvCorrect, PTL

-----------------------------------------------------------------------------
(* Calls and frames *)

\* What a call is about does not change when it gets children.
SameAbout ==
    \A i \in DOMAIN nodes : /\ nodes'[i].parent = nodes[i].parent
                           /\ nodes'[i].fp = nodes[i].fp
                           /\ nodes'[i].fn = nodes[i].fn
                           /\ nodes'[i].result = nodes[i].result
                           /\ nodes'[i].from = nodes[i].from

LEMMA AttachAbout ==
    ASSUME Tree, NEW parent \in DOMAIN nodes, NEW node \in Node, Attach(parent, node)
    PROVE  SameAbout
<1>1. next_call_id \notin DOMAIN nodes /\ DOMAIN nodes \subseteq Nat /\ next_call_id \in Nat
    BY FirstAssumption DEF Tree, Root
<1>2. PICK n \in Node : n = nodes[parent]
    BY DEF Tree
<1>3. nodes'[parent] = [n EXCEPT !.kids = @ \cup {next_call_id}]
    BY <1>1, <1>2 DEF Attach
<1>4. /\ nodes'[parent].parent = n.parent /\ nodes'[parent].fp = n.fp
      /\ nodes'[parent].fn = n.fn /\ nodes'[parent].result = n.result
      /\ nodes'[parent].from = n.from
    BY <1>3 DEF Node
<1>5. \A i \in DOMAIN nodes \ {parent} : nodes'[i] = nodes[i]
    BY <1>1 DEF Attach
<1> QED BY <1>2, <1>4, <1>5 DEF SameAbout

LEMMA LinkAbout ==
    ASSUME Tree, current \in DOMAIN nodes, NEW child,
           nodes' = [nodes EXCEPT ![current].kids = @ \cup {child}]
    PROVE  SameAbout
<1>2. PICK n \in Node : n = nodes[current]
    BY DEF Tree
<1>3. nodes'[current] = [n EXCEPT !.kids = @ \cup {child}]
    BY <1>2 DEF Tree
<1>4. /\ nodes'[current].parent = n.parent /\ nodes'[current].fp = n.fp
      /\ nodes'[current].fn = n.fn /\ nodes'[current].result = n.result
      /\ nodes'[current].from = n.from
    BY <1>3 DEF Node
<1>5. \A i \in DOMAIN nodes \ {current} : nodes'[i] = nodes[i]
    BY DEF Tree
<1> QED BY <1>2, <1>4, <1>5 DEF SameAbout

\* Which calls there are after each step, and what they are about.
LEMMA AboutStep ==
    ASSUME TreeInv, \/ \E fn \in Named \cup Core : EnterFunction(fn)
                    \/ EmitEvent
                    \/ CallContract
    PROVE  SameAbout
<1>0. TypeOK /\ Tree /\ current \in DOMAIN nodes /\ current \in Nat /\ frames \in Nat
    BY TreeIsTree, FirstAssumption DEF TreeInv, TreeOK, TypeOK, Root
<1>1. CASE \E fn \in Named \cup Core : EnterFunction(fn)
    <2>1. PICK fn \in Named \cup Core : EnterFunction(fn)
        BY <1>1
    <2>2. FunctionCall(fn, current, frames + 1) \in Node
        BY <1>0 DEF FunctionCall, Node, Functions
    <2> QED BY <1>0, <2>1, <2>2, AttachAbout DEF EnterFunction
<1>2. CASE EmitEvent
    <2>1. EventCall(current) \in Node
        BY <1>0 DEF EventCall, Node, Functions
    <2> QED BY <1>0, <1>2, <2>1, AttachAbout DEF EmitEvent
<1>3. CASE CallContract
    BY <1>0, <1>3, LinkAbout DEF CallContract
<1> QED BY <1>1, <1>2, <1>3

\* In a straight trace, and after the first call's frame.
FrameInv == CallsMatchFrames /\ stack[1].call = Root

LEMMA InitFrames == Init => FrameInv
BY DEF Init, FrameInv, CallsMatchFrames, Straight, Parent, Top, FunctionCall, Root

LEMMA EnterFunctionFrames ==
    ASSUME TreeInv, FrameInv, NEW fn \in Named \cup Core, EnterFunction(fn)
    PROVE  FrameInv'
<1> DEFINE node == FunctionCall(fn, current, frames + 1)
<1>0. TypeOK /\ Tree /\ current \in DOMAIN nodes /\ current \in Nat /\ frames \in Nat
    BY TreeIsTree, FirstAssumption DEF TreeInv, TreeOK, TypeOK, Root
<1>1. PICK id \in Nat : id = next_call_id
    BY <1>0 DEF Tree
<1>2. node \in Node /\ node.parent = current /\ node.fp = frames + 1 /\ node.from = 0
    BY <1>0 DEF FunctionCall, Node, Functions
<1> HIDE DEF node
<1>3. /\ Attach(current, node) /\ next_call_id' = next_call_id + 1 /\ Push(fn, id)
      /\ current' = id /\ nesting' = nesting + 1 /\ shape' = shape
    BY <1>1 DEF EnterFunction, node
<1>4. DOMAIN nodes' = DOMAIN nodes \cup {id} /\ nodes'[id] = node
    BY <1>0, <1>1, <1>2, <1>3, AttachNodes
<1>5. SameAbout
    BY AboutStep
<1>6. /\ Len(stack') = Len(stack) + 1
      /\ \A k \in 1..Len(stack) : stack'[k] = stack[k]
      /\ stack'[Len(stack')] = [fp |-> frames + 1, fn |-> fn, call |-> id]
      /\ Top' = [fp |-> frames + 1, fn |-> fn, call |-> id]
    BY <1>0, <1>3, <1>4, PushStack DEF Functions
<1>7. /\ Len(stack) \in Nat \ {0}
      /\ \A k \in 1..Len(stack) : stack[k].call \in DOMAIN nodes
    BY <1>0, StackType DEF FrameType
<1>8. ASSUME Straight'
      PROVE  CallsMatchFrames'
    <2>0. /\ current = stack[Len(stack)].call /\ nesting = Len(stack) - 1
          /\ \A k \in 2..Len(stack) : nodes[stack[k].call].parent = stack[k - 1].call
          /\ \A k \in 1..Len(stack) : nodes[stack[k].call].fp = stack[k].fp
          /\ \A i \in DOMAIN nodes : nodes[i].from \in {0, nodes[i].fp}
        BY <1>3, <1>8 DEF FrameInv, CallsMatchFrames, Straight, Parent, Top
    <2>1. current' = Top'.call /\ nesting' = Len(stack') - 1
        BY <1>3, <1>6, <1>7, <2>0
    <2>2. \A k \in 2..Len(stack') : nodes'[stack'[k].call].parent = stack'[k - 1].call
        <3>1. ASSUME NEW k \in 2..Len(stack)
              PROVE  nodes'[stack'[k].call].parent = stack'[k - 1].call
            <4>1. k \in 1..Len(stack) /\ k - 1 \in 1..Len(stack)
                BY <1>7
            <4>2. nodes'[stack[k].call].parent = nodes[stack[k].call].parent
                BY <1>5, <1>7, <4>1 DEF SameAbout
            <4> QED BY <1>6, <2>0, <4>1, <4>2
        <3>2. nodes'[stack'[Len(stack')].call].parent = stack'[Len(stack') - 1].call
            BY <1>2, <1>4, <1>6, <1>7, <2>0
        <3>3. \A k \in 2..Len(stack') : k \in 2..Len(stack) \/ k = Len(stack')
            BY <1>6, <1>7
        <3> QED BY <3>1, <3>2, <3>3
    <2>3. \A k \in 1..Len(stack') : nodes'[stack'[k].call].fp = stack'[k].fp
        <3>1. \A k \in 1..Len(stack) : nodes'[stack'[k].call].fp = stack'[k].fp
            BY <1>5, <1>6, <1>7, <2>0 DEF SameAbout
        <3>2. nodes'[stack'[Len(stack')].call].fp = stack'[Len(stack')].fp
            BY <1>2, <1>4, <1>6
        <3>3. \A k \in 1..Len(stack') : k \in 1..Len(stack) \/ k = Len(stack')
            BY <1>6, <1>7
        <3> QED BY <3>1, <3>2, <3>3
    <2>4. \A i \in DOMAIN nodes' : nodes'[i].from \in {0, nodes'[i].fp}
        BY <1>2, <1>4, <1>5, <2>0 DEF SameAbout
    <2> QED BY <2>1, <2>2, <2>3, <2>4 DEF CallsMatchFrames, Parent
<1>9. stack'[1].call = Root'
    BY <1>6, <1>7 DEF FrameInv, Root
<1> QED BY <1>8, <1>9 DEF FrameInv, CallsMatchFrames

\* A loop or an unnamed function ends the straight part of a trace.
LEMMA EnterFrameFrames ==
    ASSUME TreeInv, FrameInv, (\E fn \in Loops : EnterLoop(fn)) \/ EnterUnnamed
    PROVE  FrameInv'
<1>1. TypeOK /\ UNCHANGED nodes /\ shape' # "straight"
    BY DEF EnterLoop, EnterUnnamed, TreeInv, TreeOK
<1>2. PICK fn \in Functions : Push(fn, Top.call)
    BY DEF EnterLoop, EnterUnnamed, Functions
<1>3. Len(stack) \in Nat \ {0} /\ Top.call \in DOMAIN nodes'
    BY <1>1, StackType DEF FrameType
<1>4. \A k \in 1..Len(stack) : stack'[k] = stack[k]
    BY <1>1, <1>2, <1>3, PushStack
<1>5. stack'[1].call = Root'
    BY <1>3, <1>4 DEF FrameInv, Root
<1> QED BY <1>1, <1>5 DEF FrameInv, CallsMatchFrames, Straight

\* In a straight trace every return leaves the current call, whose frame it
\* is.
LEMMA StraightLeaves ==
    ASSUME TreeInv, FrameInv, Straight, Len(stack) > 1
    PROVE  /\ Leaves(stack[Len(stack) - 1].fp)
           /\ nodes[current].parent = stack[Len(stack) - 1].call
           /\ nodes[current].fp = Top.fp /\ current = Top.call
           /\ nesting = Len(stack) - 1
<1>1. /\ Len(stack) \in Nat
      /\ \A k \in 1..Len(stack) : stack[k].call \in DOMAIN nodes
    BY StackType DEF FrameType, TreeInv, TreeOK
<1>2. Len(stack) \in 2..Len(stack) /\ Len(stack) \in 1..Len(stack)
      /\ Len(stack) - 1 \in 1..Len(stack)
    BY <1>1
<1>3. /\ current = stack[Len(stack)].call /\ nesting = Len(stack) - 1
      /\ nodes[stack[Len(stack)].call].parent = stack[Len(stack) - 1].call
      /\ nodes[stack[Len(stack)].call].fp = stack[Len(stack)].fp
      /\ nodes[stack[Len(stack) - 1].call].fp = stack[Len(stack) - 1].fp
    BY <1>2 DEF FrameInv, CallsMatchFrames, Straight, Parent, Top
<1>4. stack[Len(stack) - 1].call # 0
    <2>1. stack[Len(stack) - 1].call \in DOMAIN nodes
        BY <1>1, <1>2
    <2>2. \A i \in DOMAIN nodes : i # 0
        BY FirstAssumption DEF TreeInv, TreeOK, TypeOK, Root
    <2> QED BY <2>1, <2>2
<1> QED BY <1>3, <1>4 DEF Leaves, Top

\* What a return changes of the current call.
LEMMA LeaveAbout ==
    ASSUME TreeInv, NEW panics \in BOOLEAN, Return(panics)
    PROVE  /\ DOMAIN nodes' = DOMAIN nodes
           /\ \A i \in DOMAIN nodes : /\ nodes'[i].parent = nodes[i].parent
                                     /\ nodes'[i].fp = nodes[i].fp
                                     /\ nodes'[i].fn = nodes[i].fn
           /\ \A i \in DOMAIN nodes \ {current} : nodes'[i] = nodes[i]
           /\ IF Leaves(stack[Len(stack) - 1].fp)
              THEN /\ nodes'[current].from = Top.fp
                   /\ nodes'[current].result = IF panics THEN "panic" ELSE "ok"
              ELSE nodes' = nodes
<1>0. TypeOK /\ Tree /\ current \in DOMAIN nodes
    BY TreeIsTree DEF TreeInv, TreeOK
<1>1. CASE Leaves(stack[Len(stack) - 1].fp)
    <2> DEFINE result == IF panics THEN "panic" ELSE "ok"
    <2>1. nodes' = [nodes EXCEPT ![current].result = result, ![current].from = Top.fp]
        BY <1>1 DEF Return
    <2>2. PICK n \in Node : n = nodes[current]
        BY <1>0 DEF Tree
    <2>3. nodes'[current] = [n EXCEPT !.result = result, !.from = Top.fp]
        BY <1>0, <2>1, <2>2
    <2> HIDE DEF result
    <2>4. /\ nodes'[current].parent = n.parent /\ nodes'[current].fp = n.fp
          /\ nodes'[current].fn = n.fn /\ nodes'[current].result = result
          /\ nodes'[current].from = Top.fp
        BY <2>3 DEF Node
    <2>5. /\ DOMAIN nodes' = DOMAIN nodes
          /\ \A i \in DOMAIN nodes \ {current} : nodes'[i] = nodes[i]
        BY <2>1
    <2> QED BY <1>1, <2>2, <2>4, <2>5 DEF result
<1>2. CASE ~Leaves(stack[Len(stack) - 1].fp)
    BY <1>2 DEF Return
<1> QED BY <1>1, <1>2

LEMMA ReturnFrames ==
    ASSUME TreeInv, FrameInv, NEW panics \in BOOLEAN, Return(panics)
    PROVE  FrameInv'
<1>0. TypeOK /\ Len(stack) > 1 /\ Len(stack) \in Nat
      /\ \A k \in 1..Len(stack) : stack[k].call \in DOMAIN nodes
    BY StackType DEF FrameType, TreeInv, TreeOK, Return
<1>1. /\ DOMAIN nodes' = DOMAIN nodes
      /\ \A i \in DOMAIN nodes : /\ nodes'[i].parent = nodes[i].parent
                                /\ nodes'[i].fp = nodes[i].fp
      /\ \A i \in DOMAIN nodes \ {current} : nodes'[i] = nodes[i]
    BY LeaveAbout
<1>2. /\ Len(stack') = Len(stack) - 1
      /\ \A k \in 1..Len(stack) - 1 : stack'[k] = stack[k]
      /\ Top' = stack[Len(stack) - 1]
    BY <1>0, <1>1, PopStack DEF Return
<1>3. shape' = shape
    BY DEF Return
<1>4. ASSUME Straight'
      PROVE  CallsMatchFrames'
    <2>1. Straight
        BY <1>3, <1>4 DEF Straight
    <2>2. /\ nesting = Len(stack) - 1
          /\ \A k \in 2..Len(stack) : nodes[stack[k].call].parent = stack[k - 1].call
          /\ \A k \in 1..Len(stack) : nodes[stack[k].call].fp = stack[k].fp
          /\ \A i \in DOMAIN nodes : nodes[i].from \in {0, nodes[i].fp}
        BY <2>1 DEF FrameInv, CallsMatchFrames, Parent
    <2>3. /\ Leaves(stack[Len(stack) - 1].fp)
          /\ nodes[current].parent = stack[Len(stack) - 1].call
          /\ nodes[current].fp = Top.fp
        BY <1>0, <2>1, StraightLeaves
    <2>4. current' = nodes[current].parent /\ nesting' = nesting - 1
        BY <2>3 DEF Return
    <2>5. current' = Top'.call /\ nesting' = Len(stack') - 1
        BY <1>2, <2>2, <2>3, <2>4
    <2>6. \A k \in 1..Len(stack') : nodes'[stack'[k].call].fp = stack'[k].fp
        <3> TAKE k \in 1..Len(stack')
        <3>1. k \in 1..Len(stack) - 1 /\ k \in 1..Len(stack)
            BY <1>0, <1>2
        <3>2. nodes'[stack[k].call].fp = nodes[stack[k].call].fp
            BY <1>0, <1>1, <3>1
        <3> QED BY <1>2, <2>2, <3>1, <3>2
    <2>7. \A k \in 2..Len(stack') : nodes'[stack'[k].call].parent = stack'[k - 1].call
        <3> TAKE k \in 2..Len(stack')
        <3>1. k \in 2..Len(stack) /\ k \in 1..Len(stack) - 1 /\ k - 1 \in 1..Len(stack) - 1
              /\ k \in 1..Len(stack)
            BY <1>0, <1>2
        <3>2. stack'[k] = stack[k] /\ stack'[k - 1] = stack[k - 1]
            BY <1>2, <3>1
        <3>3. nodes'[stack[k].call].parent = nodes[stack[k].call].parent
            BY <1>0, <1>1, <3>1
        <3> QED BY <2>2, <3>1, <3>2, <3>3
    <2>8. \A i \in DOMAIN nodes' : nodes'[i].from \in {0, nodes'[i].fp}
        <3>1. nodes'[current].from = Top.fp
            BY <2>3, LeaveAbout
        <3>2. nodes'[current].fp = nodes[current].fp
            BY <1>1 DEF TreeInv, TreeOK, TypeOK
        <3> QED BY <1>1, <2>2, <2>3, <3>1, <3>2
    <2> QED BY <2>5, <2>6, <2>7, <2>8 DEF CallsMatchFrames, Parent
<1>5. stack'[1].call = Root'
    BY <1>0, <1>2 DEF FrameInv, Root
<1> QED BY <1>4, <1>5 DEF FrameInv, CallsMatchFrames

\* Everything else leaves frames and calls as they are.
LEMMA OthersFrames ==
    ASSUME TreeInv, FrameInv,
           \/ (CallContract \/ LibraryCall \/ EmitEvent \/ Stay) /\ Frame
           \/ \E panics \in BOOLEAN : Finish(panics)
           \/ UNCHANGED vars
    PROVE  FrameInv'
<1>0. TypeOK /\ Tree /\ current \in DOMAIN nodes /\ current \in Nat
      /\ \A k \in 1..Len(stack) : stack[k].call \in DOMAIN nodes
    <2>1. TypeOK /\ Tree /\ current \in DOMAIN nodes
        BY TreeIsTree DEF TreeInv, TreeOK
    <2>2. current \in Nat
        BY <2>1, FirstAssumption DEF TypeOK, Root
    <2> QED BY <2>1, <2>2, StackType DEF FrameType
<1>1. UNCHANGED <<stack, shape, current, nesting>>
    BY DEF CallContract, LibraryCall, EmitEvent, SysCall, Stay, Frame, Finish, vars
<1>2. SameAbout
    <2>1. CASE (CallContract \/ EmitEvent) /\ Frame
        BY <2>1, AboutStep
    <2>2. CASE UNCHANGED nodes
        BY <2>2 DEF SameAbout
    <2> QED BY <2>1, <2>2 DEF LibraryCall, Stay, Finish, vars
<1>3. \A i \in DOMAIN nodes' : i \in DOMAIN nodes \/ nodes'[i].from = 0
    <2>1. CASE EmitEvent /\ Frame
        <3>1. EventCall(current) \in Node /\ EventCall(current).from = 0
            BY <1>0 DEF EventCall, Node, Functions
        <3>2. DOMAIN nodes' = DOMAIN nodes \cup {next_call_id}
              /\ nodes'[next_call_id] = EventCall(current)
            BY <1>0, <2>1, <3>1, AttachNodes DEF EmitEvent
        <3> QED BY <3>1, <3>2
    <2>2. CASE CallContract /\ Frame
        BY <2>2 DEF CallContract
    <2>3. CASE UNCHANGED nodes
        BY <2>3
    <2> QED BY <2>1, <2>2, <2>3 DEF LibraryCall, Stay, Finish, vars
<1>4. ASSUME Straight'
      PROVE  CallsMatchFrames'
    <2>0. /\ current = Top.call /\ nesting = Len(stack) - 1
          /\ \A k \in 2..Len(stack) : nodes[stack[k].call].parent = stack[k - 1].call
          /\ \A k \in 1..Len(stack) : nodes[stack[k].call].fp = stack[k].fp
          /\ \A i \in DOMAIN nodes : nodes[i].from \in {0, nodes[i].fp}
        BY <1>1, <1>4 DEF FrameInv, CallsMatchFrames, Straight, Parent
    <2>1. \A k \in 2..Len(stack) : nodes'[stack[k].call].parent = stack[k - 1].call
        BY <1>0, <1>2, <2>0, StackType DEF SameAbout
    <2>2. \A k \in 1..Len(stack) : nodes'[stack[k].call].fp = stack[k].fp
        BY <1>0, <1>2, <2>0 DEF SameAbout
    <2>3. \A i \in DOMAIN nodes' : nodes'[i].from \in {0, nodes'[i].fp}
        BY <1>2, <1>3, <2>0 DEF SameAbout
    <2> QED BY <1>1, <2>0, <2>1, <2>2, <2>3 DEF CallsMatchFrames, Parent, Top
<1>5. stack'[1].call = Root'
    BY <1>1 DEF FrameInv, Root
<1> QED BY <1>4, <1>5 DEF FrameInv, CallsMatchFrames

LEMMA StepFrames == TreeInv /\ FrameInv /\ [Next]_vars => FrameInv'
<1> SUFFICES ASSUME TreeInv, FrameInv, [Next]_vars PROVE FrameInv'
    OBVIOUS
<1>1. CASE \E fn \in Named \cup Core : EnterFunction(fn)
    BY <1>1, EnterFunctionFrames
<1>2. CASE (\E fn \in Loops : EnterLoop(fn)) \/ EnterUnnamed
    BY <1>2, EnterFrameFrames
<1>3. CASE \E panics \in BOOLEAN : Return(panics)
    BY <1>3, ReturnFrames
<1>4. CASE \/ (CallContract \/ LibraryCall \/ EmitEvent \/ Stay) /\ Frame
           \/ \E panics \in BOOLEAN : Finish(panics)
           \/ UNCHANGED vars
    BY <1>4, OthersFrames
<1> QED BY <1>1, <1>2, <1>3, <1>4 DEF Next

\* Without loops and unnamed functions the builder's current call, nesting
\* and parents are those of the VM's frames, however deep the calls nest and
\* wherever a panic unwinds them.
THEOREM CallsMatchFramesCorrect == Spec => []CallsMatchFrames
<1>1. Init => TreeInv /\ FrameInv
    BY InitTree, InitFrames
<1>2. (TreeInv /\ FrameInv) /\ [Next]_vars => (TreeInv /\ FrameInv)'
    BY StepTree, StepFrames
<1>3. FrameInv => CallsMatchFrames
    BY DEF FrameInv
<1> QED BY <1>1, <1>2, <1>3, PTL DEF Spec

-----------------------------------------------------------------------------
(* Panics *)

\* Once a frame has panicked, its level is the deepest until the root.
PanicInv ==
    /\ panicCall # None => panicked # None
    /\ panicCall \notin {None, Root} => nodes[panicCall].result = "panic"
    /\ panicked = None => panicLevel = -1
    /\ pc = "run" /\ Straight /\ panicked # None => panicCall = panicked /\ nesting < panicLevel
    /\ PanicIsFirst

LEMMA CallsAreNotNone ==
    ASSUME TypeOK
    PROVE  None \notin DOMAIN nodes /\ Root \in DOMAIN nodes /\ Root # None
BY NoneAssumption, FirstAssumption DEF TypeOK, Root

LEMMA ReturnPanics ==
    ASSUME TreeInv, FrameInv, PanicInv, NEW panics \in BOOLEAN, Return(panics)
    PROVE  PanicInv'
<1>0. TypeOK /\ Top.call \in DOMAIN nodes /\ current \in DOMAIN nodes
    BY TreeIsTree, StackType DEF TreeInv, TreeOK, FrameType
<1>1. Top.call # None /\ current # None /\ Root \in DOMAIN nodes
    BY <1>0, CallsAreNotNone
<1>2. /\ pc = "run" /\ pc' = "run" /\ shape' = shape /\ Len(stack) > 1
      /\ panicked # None => panics
      /\ panicked' = IF panics /\ panicked = None THEN Top.call ELSE panicked
    BY DEF Return
<1>3. CASE Leaves(stack[Len(stack) - 1].fp)
    <2>1. /\ panicLevel' = IF panics /\ nesting > panicLevel THEN nesting ELSE panicLevel
          /\ panicCall' = IF panics /\ nesting > panicLevel THEN current ELSE panicCall
          /\ nesting' = nesting - 1
        BY <1>3 DEF Return, IsDeepest
    <2>2. /\ nodes'[current].result = IF panics THEN "panic" ELSE "ok"
          /\ \A i \in DOMAIN nodes \ {current} : nodes'[i] = nodes[i]
        <3>1. \A i \in DOMAIN nodes \ {current} : nodes'[i] = nodes[i]
            BY LeaveAbout
        <3>2. nodes'[current].result = IF panics THEN "panic" ELSE "ok"
            BY <1>3, LeaveAbout
        <3> QED BY <3>1, <3>2
    <2>3. panicCall' # None => panicked' # None
        BY <1>1, <1>2, <2>1 DEF PanicInv
    <2>4. panicCall' \notin {None, Root} => nodes'[panicCall'].result = "panic"
        <3>1. CASE panicCall' = current /\ panics
            BY <2>2, <3>1
        <3>2. CASE panicCall' = panicCall /\ panicCall = current /\ panicCall # None
            BY <1>2, <2>2, <3>2 DEF PanicInv
        <3>3. CASE panicCall' = panicCall /\ panicCall # current
            <4>1. panicCall \in DOMAIN nodes \cup {None}
                BY <1>0 DEF TypeOK
            <4>2. CASE panicCall \in {None, Root}
                BY <3>3, <4>2
            <4>3. CASE panicCall \notin {None, Root}
                <5>1. panicCall \in DOMAIN nodes \ {current}
                    BY <3>3, <4>1, <4>3
                <5>2. nodes'[panicCall] = nodes[panicCall]
                    BY <2>2, <5>1
                <5>3. nodes[panicCall].result = "panic"
                    BY <4>3 DEF PanicInv
                <5> QED BY <3>3, <5>2, <5>3
            <4> QED BY <4>2, <4>3
        <3>4. (panicCall' = current /\ panics) \/ panicCall' = panicCall
            BY <2>1
        <3> QED BY <3>1, <3>2, <3>3, <3>4
    <2>5. panicked' = None => panicLevel' = -1
        BY <1>1, <1>2, <2>1 DEF PanicInv
    <2>6. ASSUME Straight, panicked' # None
          PROVE  panicCall' = panicked' /\ nesting' < panicLevel'
        <3>1. current = Top.call /\ nesting = Len(stack) - 1 /\ Len(stack) \in Nat
              /\ panicLevel \in Int
            BY <1>0, <1>2, <2>6, StraightLeaves, StackType DEF TypeOK
        <3>2. CASE panicked = None
            <4>1. panics /\ panicked' = current
                BY <1>2, <2>6, <3>1, <3>2
            <4>2. panicLevel = -1 /\ nesting > panicLevel
                BY <1>2, <3>1, <3>2 DEF PanicInv
            <4> QED BY <2>1, <3>1, <4>1, <4>2
        <3>3. CASE panicked # None
            <4>1. panicCall = panicked /\ nesting < panicLevel /\ panicked' = panicked
                BY <1>2, <2>6, <3>3 DEF PanicInv
            <4>2. ~(nesting > panicLevel)
                BY <3>1, <4>1
            <4> QED BY <2>1, <3>1, <4>1, <4>2
        <3> QED BY <3>2, <3>3
    <2> QED BY <1>2, <2>3, <2>4, <2>5, <2>6 DEF PanicInv, PanicIsFirst, Straight, Root
<1>4. CASE ~Leaves(stack[Len(stack) - 1].fp)
    <2>1. UNCHANGED <<nodes, current, nesting, panicLevel, panicCall>>
        BY <1>4 DEF Return
    <2>2. ~Straight
        BY <1>2, <1>4, StraightLeaves
    <2> QED BY <1>1, <1>2, <2>1, <2>2 DEF PanicInv, PanicIsFirst, Straight, Root
<1> QED BY <1>3, <1>4

LEMMA FinishPanics ==
    ASSUME TreeInv, FrameInv, PanicInv, NEW panics \in BOOLEAN, Finish(panics)
    PROVE  PanicInv'
<1>0. TypeOK /\ Top.call \in DOMAIN nodes
    BY StackType DEF TreeInv, TreeOK, FrameType
<1>1. Top.call # None /\ Root # None
    BY <1>0, CallsAreNotNone
<1>2. Top.call = Root
    BY DEF Finish, FrameInv, Top
<1>3. /\ pc = "run" /\ pc' = "done"
      /\ panicked # None => panics
      /\ panicked' = IF panics /\ panicked = None THEN Root ELSE panicked
      /\ panicCall' = IF panics /\ panicCall = None THEN Root ELSE panicCall
      /\ UNCHANGED <<nodes, panicLevel, shape>>
    BY <1>2 DEF Finish
<1>4. PanicIsFirst'
    <2>1. panicCall' = None <=> panicked' = None
        BY <1>1, <1>3 DEF PanicInv
    <2>2. panicCall' \notin {None, Root} => nodes'[panicCall'].result = "panic"
        BY <1>3 DEF PanicInv
    <2>3. Straight => panicCall' = panicked'
        BY <1>1, <1>3 DEF PanicInv
    <2> QED BY <1>3, <2>1, <2>2, <2>3 DEF PanicIsFirst, Straight, Root
<1> QED BY <1>1, <1>3, <1>4 DEF PanicInv, Root

\* As long as nothing has panicked, no call is blamed.
LEMMA OthersPanics ==
    ASSUME TreeInv, PanicInv, pc = "run", panicked = None,
           UNCHANGED <<panicLevel, panicCall, panicked, pc>>
    PROVE  PanicInv'
BY DEF PanicInv, PanicIsFirst, Root

LEMMA StepPanics == TreeInv /\ FrameInv /\ PanicInv /\ [Next]_vars => PanicInv'
<1> SUFFICES ASSUME TreeInv, FrameInv, PanicInv, [Next]_vars PROVE PanicInv'
    OBVIOUS
<1>1. CASE \E panics \in BOOLEAN : Return(panics)
    BY <1>1, ReturnPanics
<1>2. CASE \E panics \in BOOLEAN : Finish(panics)
    BY <1>2, FinishPanics
<1>3. CASE UNCHANGED vars
    BY <1>3 DEF vars, PanicInv, PanicIsFirst, Straight, Root
<1>4. CASE \/ \E fn \in Named \cup Core : EnterFunction(fn)
           \/ \E fn \in Loops : EnterLoop(fn)
           \/ EnterUnnamed
    BY <1>4, OthersPanics DEF EnterFunction, EnterLoop, EnterUnnamed, Enter
<1>5. CASE (CallContract \/ LibraryCall \/ EmitEvent \/ Stay) /\ Frame
    BY <1>5, OthersPanics DEF CallContract, LibraryCall, EmitEvent, SysCall, Stay, Frame
<1> QED BY <1>1, <1>2, <1>3, <1>4, <1>5 DEF Next

\* The call shown as the reason of a failure is the one whose frame panicked
\* first, for any number of frames; with loops and unnamed functions it is
\* still one that returned a panic.
THEOREM PanicIsFirstCorrect == Spec => []PanicIsFirst
<1>1. Init => TreeInv /\ FrameInv /\ PanicInv
    <2>1. Init => PanicInv
        BY DEF Init, PanicInv, PanicIsFirst
    <2> QED BY <2>1, InitTree, InitFrames
<1>2. (TreeInv /\ FrameInv /\ PanicInv) /\ [Next]_vars => (TreeInv /\ FrameInv /\ PanicInv)'
    BY StepTree, StepFrames, StepPanics
<1>3. PanicInv => PanicIsFirst
    BY DEF PanicInv
<1> QED BY <1>1, <1>2, <1>3, PTL DEF Spec

-----------------------------------------------------------------------------
(* Loops *)

\* A frame of a function or of its loop is part of the call of the function.
OfItsCall(frame) ==
    /\ frame.fn \in Named => nodes[frame.call].fn = frame.fn
    /\ frame.fn \in Loops /\ Owner[frame.fn] \in Named
          => nodes[frame.call].fn = Owner[frame.fn]

\* The first loop that is entered in a straight trace remembers the call of
\* its function.
LoopInv ==
    /\ \A i \in DOMAIN nodes : nodes[i].fn \notin Loops
    /\ \A k \in 1..Len(stack) : OfItsCall(stack[k])
    /\ \A l \in DOMAIN loopParent :
          DOMAIN loopParent = {l} /\ shape = "loops" /\ Owner[l] \in Named
              => nodes[loopParent[l]].fn = Owner[l]
    /\ shape = "straight" => DOMAIN loopParent = {}
    /\ shape = "loops" => DOMAIN loopParent # {}

LEMMA InitLoops == Init => LoopInv
<1> SUFFICES ASSUME Init PROVE LoopInv
    OBVIOUS
<1>1. /\ \A i \in DOMAIN nodes : nodes[i].fn = Wrapper
      /\ Len(stack) = 1 /\ stack[1].fn = Wrapper
      /\ DOMAIN loopParent = {} /\ shape = "straight"
    BY DEF Init, FunctionCall
<1>2. Wrapper \notin Named /\ Wrapper \notin Loops
    BY FunctionsAssumption
<1> QED BY <1>1, <1>2 DEF LoopInv, OfItsCall

\* A step whose calls keep their functions, and whose new calls and frames
\* are those of the functions entered.
LEMMA LoopInvKept ==
    ASSUME TypeOK, LoopInv, DOMAIN nodes \subseteq DOMAIN nodes',
           \A i \in DOMAIN nodes : nodes'[i].fn = nodes[i].fn,
           \A i \in DOMAIN nodes' \ DOMAIN nodes : nodes'[i].fn \notin Loops,
           \A k \in 1..Len(stack') : \/ k \in 1..Len(stack) /\ stack'[k] = stack[k]
                                    \/ OfItsCall(stack[k])',
           UNCHANGED loopParent,
           shape' = shape \/ shape' = "unnamed"
    PROVE  LoopInv'
<1>1. \A i \in DOMAIN nodes' : nodes'[i].fn \notin Loops
    BY DEF LoopInv
<1>2. \A k \in 1..Len(stack') : OfItsCall(stack[k])'
    <2> SUFFICES ASSUME NEW k \in 1..Len(stack), stack'[k] = stack[k]
                 PROVE  OfItsCall(stack[k])'
        OBVIOUS
    <2>1. stack[k].call \in DOMAIN nodes
        BY StackType DEF FrameType
    <2>2. nodes'[stack[k].call].fn = nodes[stack[k].call].fn
        BY <2>1
    <2> QED BY <2>2 DEF LoopInv, OfItsCall
<1>3. \A l \in DOMAIN loopParent : nodes'[loopParent[l]].fn = nodes[loopParent[l]].fn
    BY DEF TypeOK
<1> QED BY <1>1, <1>2, <1>3 DEF LoopInv

LEMMA EnterFunctionLoops ==
    ASSUME TreeInv, LoopInv, NEW fn \in Named \cup Core, EnterFunction(fn)
    PROVE  LoopInv'
<1> DEFINE node == FunctionCall(fn, current, frames + 1)
<1>0. TypeOK /\ Tree /\ current \in DOMAIN nodes /\ current \in Nat /\ frames \in Nat
    <2>1. TypeOK /\ Tree /\ current \in DOMAIN nodes
        BY TreeIsTree DEF TreeInv, TreeOK
    <2> QED BY <2>1, FirstAssumption DEF TypeOK, Root
<1>1. PICK id \in Nat : id = next_call_id
    BY <1>0 DEF Tree
<1>2. node \in Node /\ node.fn = fn
    BY <1>0 DEF FunctionCall, Node, Functions
<1> HIDE DEF node
<1>3. /\ Attach(current, node) /\ next_call_id' = next_call_id + 1 /\ Push(fn, id)
      /\ UNCHANGED <<loopParent, shape>>
    BY <1>1 DEF EnterFunction, node
<1>4. DOMAIN nodes' = DOMAIN nodes \cup {id} /\ nodes'[id] = node
    BY <1>0, <1>1, <1>2, <1>3, AttachNodes
<1>5. \A i \in DOMAIN nodes : nodes'[i].fn = nodes[i].fn
    BY AboutStep DEF SameAbout
<1>6. fn \notin Loops /\ fn \in Functions
    BY FunctionsAssumption DEF Functions
<1>7. /\ Len(stack') = Len(stack) + 1 /\ Len(stack) \in Nat
      /\ \A k \in 1..Len(stack) : stack'[k] = stack[k]
      /\ stack'[Len(stack')] = [fp |-> frames + 1, fn |-> fn, call |-> id]
    BY <1>0, <1>3, <1>4, <1>6, PushStack, StackType
<1>8. OfItsCall(stack[Len(stack)])'
    BY <1>2, <1>4, <1>6, <1>7 DEF OfItsCall
<1>9. \A k \in 1..Len(stack') : \/ k \in 1..Len(stack) /\ stack'[k] = stack[k]
                               \/ OfItsCall(stack[k])'
    BY <1>7, <1>8
<1>10. \A i \in DOMAIN nodes' \ DOMAIN nodes : nodes'[i].fn \notin Loops
    BY <1>2, <1>4, <1>6
<1> QED BY <1>0, <1>3, <1>4, <1>5, <1>9, <1>10, LoopInvKept

LEMMA EnterUnnamedLoops ==
    ASSUME TreeInv, LoopInv, EnterUnnamed
    PROVE  LoopInv'
<1>0. TypeOK
    BY DEF TreeInv, TreeOK
<1>1. /\ UNCHANGED <<nodes, loopParent>> /\ shape' = "unnamed" /\ Push(Unnamed, Top.call)
      /\ Unnamed \in Functions /\ Unnamed \notin Named /\ Unnamed \notin Loops
    BY FunctionsAssumption DEF EnterUnnamed, Functions
<1>2. /\ Len(stack') = Len(stack) + 1 /\ Len(stack) \in Nat
      /\ \A k \in 1..Len(stack) : stack'[k] = stack[k]
      /\ stack'[Len(stack')].fn = Unnamed
    <2>1. Top.call \in DOMAIN nodes'
        BY <1>0, <1>1, StackType DEF FrameType
    <2>2. /\ Len(stack') = Len(stack) + 1 /\ Len(stack) \in Nat
          /\ \A k \in 1..Len(stack) : stack'[k] = stack[k]
          /\ stack'[Len(stack')] = [fp |-> frames + 1, fn |-> Unnamed, call |-> Top.call]
        BY <1>0, <1>1, <2>1, PushStack, StackType
    <2> QED BY <2>2
<1>3. OfItsCall(stack[Len(stack)])'
    BY <1>1, <1>2 DEF OfItsCall
<1>4. \A k \in 1..Len(stack') : \/ k \in 1..Len(stack) /\ stack'[k] = stack[k]
                               \/ OfItsCall(stack[k])'
    BY <1>2, <1>3
<1> QED BY <1>0, <1>1, <1>4, LoopInvKept

\* The call of the function that a loop is entered from.
LEMMA LoopEntered ==
    ASSUME TypeOK, LoopInv, NEW fn \in Loops, Top.fn \in {fn, Owner[fn]}, Owner[fn] \in Named
    PROVE  nodes[Top.call].fn = Owner[fn]
<1>1. OfItsCall(Top)
    BY StackType DEF LoopInv, Top
<1> QED BY <1>1 DEF OfItsCall

LEMMA EnterLoopLoops ==
    ASSUME TreeInv, FrameInv, LoopInv, NEW fn \in Loops, EnterLoop(fn)
    PROVE  LoopInv'
<1>0. TypeOK
    BY DEF TreeInv, TreeOK
<1>1. /\ UNCHANGED nodes /\ Push(fn, Top.call) /\ Top.fn \in {fn, Owner[fn]}
      /\ shape' = IF shape = "straight" THEN "loops" ELSE shape
      /\ fn \in Functions /\ fn \notin Named
    BY FunctionsAssumption DEF EnterLoop, Functions
<1>2. /\ Len(stack') = Len(stack) + 1 /\ Len(stack) \in Nat
      /\ \A k \in 1..Len(stack) : stack'[k] = stack[k]
      /\ stack'[Len(stack')].fn = fn /\ stack'[Len(stack')].call = Top.call
    <2>1. Top.call \in DOMAIN nodes'
        BY <1>0, <1>1, StackType DEF FrameType
    <2>2. /\ Len(stack') = Len(stack) + 1 /\ Len(stack) \in Nat
          /\ \A k \in 1..Len(stack) : stack'[k] = stack[k]
          /\ stack'[Len(stack')] = [fp |-> frames + 1, fn |-> fn, call |-> Top.call]
        BY <1>0, <1>1, <2>1, PushStack, StackType
    <2> QED BY <2>2
<1>3. Owner[fn] \in Named => nodes[Top.call].fn = Owner[fn]
    BY <1>0, <1>1, LoopEntered
<1>4. \A k \in 1..Len(stack') : OfItsCall(stack[k])'
    <2>1. \A k \in 1..Len(stack) : OfItsCall(stack[k])'
        BY <1>1, <1>2 DEF LoopInv, OfItsCall
    <2>2. OfItsCall(stack[Len(stack)])'
        BY <1>1, <1>2, <1>3 DEF OfItsCall
    <2>3. \A k \in 1..Len(stack') : k \in 1..Len(stack) \/ k = Len(stack')
        BY <1>2
    <2> QED BY <2>1, <2>2, <2>3
<1>5. /\ \A l \in DOMAIN loopParent' :
            DOMAIN loopParent' = {l} /\ shape' = "loops" /\ Owner[l] \in Named
                => nodes'[loopParent'[l]].fn = Owner[l]
      /\ DOMAIN loopParent' # {}
    <2>1. CASE fn \in DOMAIN loopParent
        <3>1. loopParent' = loopParent
            BY <2>1 DEF EnterLoop
        <3>2. shape' = shape
            BY <1>1, <2>1 DEF LoopInv
        <3> QED BY <1>1, <2>1, <3>1, <3>2 DEF LoopInv
    <2>2. CASE fn \notin DOMAIN loopParent
        <3>1. /\ DOMAIN loopParent' = DOMAIN loopParent \cup {fn}
              /\ loopParent'[fn] = current
            BY <2>2 DEF EnterLoop
        <3>2. ASSUME NEW l \in DOMAIN loopParent', DOMAIN loopParent' = {l}, shape' = "loops",
                     Owner[l] \in Named
              PROVE  nodes'[loopParent'[l]].fn = Owner[l]
            <4>1. l = fn /\ DOMAIN loopParent = {}
                BY <2>2, <3>1, <3>2
            <4>2. Straight
                BY <1>1, <3>2, <4>1 DEF LoopInv, Straight
            <4>3. current = Top.call
                BY <4>2 DEF FrameInv, CallsMatchFrames
            <4> QED BY <1>1, <1>3, <3>1, <3>2, <4>1, <4>3
        <3> QED BY <3>1, <3>2
    <2> QED BY <2>1, <2>2
<1>6. shape' # "straight"
    BY <1>1
<1> QED BY <1>1, <1>4, <1>5, <1>6 DEF LoopInv

LEMMA OthersLoops ==
    ASSUME TreeInv, LoopInv,
           \/ (CallContract \/ LibraryCall \/ EmitEvent \/ Stay) /\ Frame
           \/ \E panics \in BOOLEAN : Return(panics) \/ Finish(panics)
           \/ UNCHANGED vars
    PROVE  LoopInv'
<1>0. TypeOK /\ Tree /\ current \in DOMAIN nodes /\ current \in Nat
    <2>1. TypeOK /\ Tree /\ current \in DOMAIN nodes
        BY TreeIsTree DEF TreeInv, TreeOK
    <2> QED BY <2>1, FirstAssumption DEF TypeOK, Root
<1>1. UNCHANGED <<loopParent, shape>>
    BY DEF CallContract, LibraryCall, EmitEvent, SysCall, Stay, Frame, Return, Finish, vars
<1>2. /\ DOMAIN nodes \subseteq DOMAIN nodes'
      /\ \A i \in DOMAIN nodes : nodes'[i].fn = nodes[i].fn
      /\ \A i \in DOMAIN nodes' \ DOMAIN nodes : nodes'[i].fn \notin Loops
    <2>1. CASE EmitEvent
        <3>1. EventCall(current) \in Node /\ EventCall(current).fn = Unnamed
            BY <1>0 DEF EventCall, Node, Functions
        <3>2. DOMAIN nodes' = DOMAIN nodes \cup {next_call_id}
              /\ nodes'[next_call_id] = EventCall(current)
            BY <1>0, <2>1, <3>1, AttachNodes DEF EmitEvent
        <3>3. Unnamed \notin Loops
            BY FunctionsAssumption
        <3>4. \A i \in DOMAIN nodes : nodes'[i].fn = nodes[i].fn
            BY <2>1, AboutStep DEF SameAbout
        <3> QED BY <3>1, <3>2, <3>3, <3>4
    <2>2. CASE CallContract
        <3>1. DOMAIN nodes' = DOMAIN nodes
            BY <2>2 DEF CallContract
        <3> QED BY <2>2, <3>1, AboutStep DEF SameAbout
    <2>3. CASE \E panics \in BOOLEAN : Return(panics)
        BY <2>3, LeaveAbout
    <2>4. CASE UNCHANGED nodes
        BY <2>4
    <2> QED BY <2>1, <2>2, <2>3, <2>4 DEF LibraryCall, Stay, Finish, vars
<1>3. \A k \in 1..Len(stack') : k \in 1..Len(stack) /\ stack'[k] = stack[k]
    <2>1. CASE \E panics \in BOOLEAN : Return(panics)
        <3>1. /\ Len(stack) \in Nat /\ Len(stack') = Len(stack) - 1
              /\ \A k \in 1..Len(stack) - 1 : stack'[k] = stack[k]
            BY <1>0, <2>1, LeaveAbout, PopStack, StackType DEF Return
        <3> QED BY <3>1
    <2>2. CASE UNCHANGED stack
        BY <2>2
    <2> QED BY <2>1, <2>2 DEF Frame, Finish, vars
<1> QED BY <1>0, <1>1, <1>2, <1>3, LoopInvKept

LEMMA StepLoops == TreeInv /\ FrameInv /\ LoopInv /\ [Next]_vars => LoopInv'
<1> SUFFICES ASSUME TreeInv, FrameInv, LoopInv, [Next]_vars PROVE LoopInv'
    OBVIOUS
<1>1. CASE \E fn \in Named \cup Core : EnterFunction(fn)
    BY <1>1, EnterFunctionLoops
<1>2. CASE \E fn \in Loops : EnterLoop(fn)
    BY <1>2, EnterLoopLoops
<1>3. CASE EnterUnnamed
    BY <1>3, EnterUnnamedLoops
<1>4. CASE \/ (CallContract \/ LibraryCall \/ EmitEvent \/ Stay) /\ Frame
           \/ \E panics \in BOOLEAN : Return(panics) \/ Finish(panics)
           \/ UNCHANGED vars
    BY <1>4, OthersLoops
<1> QED BY <1>1, <1>2, <1>3, <1>4 DEF Next

\* A loop that is entered again goes back to the only call of its function.
LEMMA LoopStep ==
    ASSUME TreeInv, LoopInv, [Next]_vars,
           NEW l \in DOMAIN loopParent,
           Len(stack') > Len(stack), stack'[Len(stack')].fn = l,
           DOMAIN loopParent = {l}, shape = "loops",
           Cardinality({i \in DOMAIN nodes : nodes[i].fn = Owner[l]}) = 1
    PROVE  current' = Top.call
<1> DEFINE Calls == {i \in DOMAIN nodes : nodes[i].fn = Owner[l]}
<1>0. TypeOK /\ l \in Loops /\ Len(stack) \in Nat /\ Top.call \in DOMAIN nodes
      /\ loopParent[l] \in DOMAIN nodes
    <2>1. TypeOK
        BY DEF TreeInv, TreeOK
    <2> QED BY <2>1, StackType DEF TypeOK, FrameType
<1>1. EnterLoop(l)
    <2>1. CASE \E fn \in Named \cup Core : EnterFunction(fn)
        <3>1. PICK fn \in Named \cup Core : EnterFunction(fn)
            BY <2>1
        <3>2. Attach(current, FunctionCall(fn, current, frames + 1)) /\ Push(fn, next_call_id)
            BY <3>1 DEF EnterFunction
        <3>3. stack'[Len(stack')].fn = fn
            <4>1. next_call_id \in DOMAIN nodes' /\ DOMAIN nodes \subseteq DOMAIN nodes'
                BY <3>2 DEF Attach
            <4>2. fn \in Functions
                BY DEF Functions
            <4>3. stack'[Len(stack')] = [fp |-> frames + 1, fn |-> fn, call |-> next_call_id]
                BY <1>0, <3>2, <4>1, <4>2, PushStack
            <4> QED BY <4>3
        <3> QED BY <1>0, <3>3, FunctionsAssumption
    <2>2. CASE EnterUnnamed
        <3>1. UNCHANGED nodes /\ Push(Unnamed, Top.call) /\ Unnamed \in Functions
            BY <2>2 DEF EnterUnnamed, Functions
        <3>2. stack'[Len(stack')] = [fp |-> frames + 1, fn |-> Unnamed, call |-> Top.call]
            BY <1>0, <3>1, PushStack
        <3> QED BY <1>0, <3>2, FunctionsAssumption
    <2>3. CASE \E fn \in Loops : EnterLoop(fn)
        <3>1. PICK fn \in Loops : EnterLoop(fn)
            BY <2>3
        <3>2. UNCHANGED nodes /\ Push(fn, Top.call) /\ fn \in Functions
            BY <3>1 DEF EnterLoop, Functions
        <3>3. stack'[Len(stack')] = [fp |-> frames + 1, fn |-> fn, call |-> Top.call]
            BY <1>0, <3>2, PushStack
        <3> QED BY <3>1, <3>3
    <2>4. CASE \E panics \in BOOLEAN : Return(panics)
        BY <1>0, <2>4, LeaveAbout, PopStack DEF Return
    <2>5. CASE UNCHANGED stack
        BY <1>0, <2>5
    <2> QED BY <2>1, <2>2, <2>3, <2>4, <2>5 DEF Next, Frame, Finish, vars
<1>2. current' = loopParent[l] /\ Top.fn \in {l, Owner[l]}
    BY <1>1 DEF EnterLoop
<1>3. PICK x : Calls = {x}
    <2>1. IsFiniteSet(DOMAIN nodes)
        <3>1. DOMAIN nodes = Root..next_call_id - 1 /\ Root \in Int /\ next_call_id - 1 \in Int
            BY <1>0, FirstAssumption DEF TypeOK, Root
        <3> QED BY <3>1, FS_Interval
    <2>2. IsFiniteSet(Calls)
        BY <2>1, FS_Subset
    <2> QED BY <2>2, FS_Singleton
<1>4. Owner[l] \in Named
    <2>1. x \in DOMAIN nodes /\ nodes[x].fn = Owner[l]
        BY <1>3
    <2> QED BY <1>0, <2>1, FunctionsAssumption DEF LoopInv
<1>5. nodes[Top.call].fn = Owner[l]
    BY <1>0, <1>2, <1>4, LoopEntered
<1>6. nodes[loopParent[l]].fn = Owner[l]
    BY <1>4 DEF LoopInv
<1>7. Top.call \in Calls /\ loopParent[l] \in Calls
    BY <1>0, <1>5, <1>6
<1> QED BY <1>2, <1>3, <1>7

\* Each iteration of the only loop begins at the call of its function, for
\* any other functions that the loop calls and leaves open.
THEOREM LoopsComeBackCorrect == Spec => LoopsComeBack
<1>1. Init => TreeInv /\ FrameInv /\ LoopInv
    BY InitTree, InitFrames, InitLoops
<1>2. (TreeInv /\ FrameInv /\ LoopInv) /\ [Next]_vars => (TreeInv /\ FrameInv /\ LoopInv)'
    BY StepTree, StepFrames, StepLoops
<1>3. TreeInv /\ LoopInv /\ [Next]_vars
        => [\A l \in DOMAIN loopParent :
                Len(stack') > Len(stack) /\ stack'[Len(stack')].fn = l
                /\ DOMAIN loopParent = {l} /\ shape = "loops"
                /\ Cardinality({i \in DOMAIN nodes : nodes[i].fn = Owner[l]}) = 1
                    => current' = Top.call]_vars
    BY LoopStep
<1> QED BY <1>1, <1>2, <1>3, PTL DEF Spec, LoopsComeBack

-----------------------------------------------------------------------------
(* The debugger's trace.  `Added` recurses over the locations of a statement; *)
(* that its recursion has a solution, and that what it keeps is kept to the   *)
(* end, is shown by the least counterexample.                                 *)

LEMMA Least ==
    ASSUME NEW T, T \subseteq Nat, T # {}
    PROVE  \E x \in T : \A y \in T : x <= y
<1> DEFINE R == {ss \in Nat \X Nat : ss[1] < ss[2]}
<1>1. IsWellFoundedOn(R, Nat)
    BY NatLessThanWellFounded DEF OpToRel
<1> HIDE DEF R
<1>2. PICK x \in T : \A y \in T : ~(<<y, x>> \in R)
    BY <1>1, WFMin
<1>3. \A y \in T : ~(y < x)
    BY <1>2 DEF R
<1> QED BY <1>3

\* A sequence of values, each made of the one before.
Follows(f, first, n, next) ==
    f[0] = first /\ \A j \in 1..n : f[j] = next[<<j, f[j - 1]>>]

LEMMA Iterated ==
    ASSUME NEW S, NEW first \in S, NEW N \in Nat, NEW next \in [(1..N) \X S -> S]
    PROVE  \E f \in [0..N -> S] : Follows(f, first, N, next)
<1> USE DEF Follows
<1> DEFINE Goes(f, n) == Follows(f, first, n, next)
           Upto(n) == \E f \in [0..n -> S] : Goes(f, n)
           T == {n \in 0..N : ~Upto(n)}
<1> SUFFICES ASSUME T # {} PROVE FALSE
    BY DEF Upto, Goes
<1>1. PICK n \in T : \A m \in T : n <= m
    <2>1. T \subseteq Nat
        OBVIOUS
    <2> HIDE DEF T
    <2> QED BY <2>1, Least
<1>2. n \in 0..N /\ ~Upto(n)
    OBVIOUS
<1>3. Upto(0)
    <2> DEFINE f == [j \in 0..0 |-> first]
    <2>1. f \in [0..0 -> S] /\ Goes(f, 0)
        OBVIOUS
    <2> QED BY <2>1
<1>4. n \in 1..N
    <2>1. n # 0
        BY <1>2, <1>3
    <2> QED BY <1>2, <2>1
<1>5. Upto(n - 1)
    <2>1. n - 1 \in 0..N /\ ~(n <= n - 1)
        BY <1>4
    <2>2. n - 1 \notin T
        BY <1>1, <2>1
    <2> QED BY <2>1, <2>2
<1>6. PICK f \in [0..n - 1 -> S] : Goes(f, n - 1)
    BY <1>5
<1> DEFINE g == [j \in 0..n |-> IF j = n THEN next[<<n, f[n - 1]>>] ELSE f[j]]
<1>7. g \in [0..n -> S]
    <2>1. next[<<n, f[n - 1]>>] \in S
        BY <1>4
    <2>2. \A j \in 0..n : j # n => f[j] \in S
        BY <1>4
    <2> HIDE DEF Goes, Upto, T
    <2> QED BY <2>1, <2>2
<1>8. Goes(g, n)
    <2>1. g[0] = first
        BY <1>4, <1>6
    <2>2. ASSUME NEW j \in 1..n PROVE g[j] = next[<<j, g[j - 1]>>]
        <3>1. j \in 0..n /\ j - 1 \in 0..n /\ j - 1 # n
            BY <1>4
        <3>2. g[j - 1] = f[j - 1]
            BY <3>1
        <3>3. CASE j = n
            BY <3>1, <3>2, <3>3
        <3>4. CASE j # n
            <4>1. j \in 1..n - 1
                BY <1>4, <3>4
            <4> QED BY <1>6, <3>1, <3>2, <3>4, <4>1
        <3> QED BY <3>3, <3>4
    <2> QED BY <2>1, <2>2
<1> HIDE DEF g, Goes
<1> QED BY <1>2, <1>7, <1>8

\* What the recursion of Added defines.
LEMMA AddedIs ==
    ASSUME NEW call, NEW locs, NEW N \in Nat, N = Len(locs), trace \in Seq(EntryType),
           \A i \in 1..N : AtLocation(call, locs[i]) \in EntryType
    PROVE  /\ Added(call, locs, 0) = trace
           /\ \A n \in 1..N : Added(call, locs, n) =
                 IF IsNew(locs, n) THEN Append(Added(call, locs, n - 1), AtLocation(call, locs[n]))
                 ELSE Added(call, locs, n - 1)
<1> DEFINE S == Seq(EntryType)
           next == [p \in (1..N) \X S |-> IF IsNew(locs, p[1])
                                          THEN Append(p[2], AtLocation(call, locs[p[1]])) ELSE p[2]]
           upto == CHOOSE f : f = [n \in 0..Len(locs) |->
                      IF n = 0 THEN trace
                      ELSE IF IsNew(locs, n) THEN Append(f[n - 1], AtLocation(call, locs[n]))
                      ELSE f[n - 1]]
<1>1. next \in [(1..N) \X S -> S]
    <2>1. ASSUME NEW i \in 1..N, NEW t \in S
          PROVE  Append(t, AtLocation(call, locs[i])) \in S
        BY <2>1, AppendProperties
    <2> QED BY <2>1
<1>2. PICK f \in [0..N -> S] : f[0] = trace /\ \A j \in 1..N : f[j] = next[<<j, f[j - 1]>>]
    <2>1. PICK step : step = next
        OBVIOUS
    <2>2. step \in [(1..N) \X S -> S]
        BY <1>1, <2>1
    <2> HIDE DEF next, S
    <2>3. \E f \in [0..N -> S] : Follows(f, trace, N, step)
        BY <2>2, Iterated DEF S
    <2> QED BY <2>1, <2>3 DEF Follows
<1>3. \A j \in 1..N : f[j] = IF IsNew(locs, j) THEN Append(f[j - 1], AtLocation(call, locs[j]))
                             ELSE f[j - 1]
    <2> TAKE j \in 1..N
    <2>1. f[j - 1] \in S
        BY <1>2
    <2> HIDE DEF S
    <2> QED BY <1>2, <2>1
<1> DEFINE Step(n, t) == IF IsNew(locs, n) THEN Append(t, AtLocation(call, locs[n])) ELSE t
<1>4. f = [n \in 0..Len(locs) |-> IF n = 0 THEN trace ELSE Step(n, f[n - 1])]
    <2>1. \A j \in 1..N : f[j] = Step(j, f[j - 1])
        BY <1>3
    <2> HIDE DEF Step, S, next
    <2>2. \A n \in 0..N : f[n] = IF n = 0 THEN trace ELSE Step(n, f[n - 1])
        BY <1>2, <2>1
    <2> QED BY <1>2, <2>2
<1>5. upto = [n \in 0..Len(locs) |-> IF n = 0 THEN trace ELSE Step(n, upto[n - 1])]
    BY <1>4
<1>6. \A i : Added(call, locs, i) = upto[i]
    BY DEF Added
<1> HIDE DEF upto, next
<1>7. upto[0] = trace
    <2> HIDE DEF Step
    <2> QED BY <1>5
<1>8. \A n \in 1..N : upto[n] = Step(n, upto[n - 1])
    <2> HIDE DEF Step
    <2> QED BY <1>5
<1> QED BY <1>6, <1>7, <1>8

\* A trace that never stops at a location twice in a row, the last time at
\* `last` unless it ends with a step into a call.
Stops(t, last) ==
    /\ t \in Seq(EntryType)
    /\ \A k \in 1..Len(t) - 1 :
          t[k].kind = "location" /\ t[k + 1].kind = "location" => t[k].loc # t[k + 1].loc
    /\ \A k \in 1..Len(t) : t[k].kind = "location" => t[k].loc # None
    /\ Len(t) > 0 /\ t[Len(t)].kind = "location" => t[Len(t)].loc = last

\* The trace so far with locations after it.
Longer(t) ==
    /\ Len(trace) <= Len(t)
    /\ \A k \in 1..Len(trace) : t[k] = trace[k]
    /\ \A k \in 1..Len(t) : k <= Len(trace) \/ t[k].kind = "location"

TraceInv ==
    /\ Stops(trace, prevLocation)
    /\ prevLocations # <<>> =>
          prevLocations \in LocationLists /\ prevLocation = prevLocations[Len(prevLocations)]

LEMMA StopsOnce ==
    ASSUME NEW t, NEW last, Stops(t, last), trace \in Seq(EntryType), Longer(t), NEW call, NEW loc,
           loc # None, last = None \/ loc # last, AtLocation(call, loc) \in EntryType
    PROVE  Stops(Append(t, AtLocation(call, loc)), loc) /\ Longer(Append(t, AtLocation(call, loc)))
<1>1. PICK e \in EntryType : e = AtLocation(call, loc)
    OBVIOUS
<1>2. e.kind = "location" /\ e.loc = loc
    BY <1>1 DEF AtLocation
<1>3. t \in Seq(EntryType) /\ Len(t) \in Nat /\ Len(trace) \in Nat
    BY LenProperties DEF Stops
<1>4. PICK u : u = Append(t, e)
    OBVIOUS
<1>5. /\ u \in Seq(EntryType) /\ Len(u) = Len(t) + 1 /\ u[Len(u)] = e
      /\ \A k \in 1..Len(t) : u[k] = t[k]
    BY <1>3, <1>4, AppendProperties
<1>6. \A k \in 1..Len(u) - 1 :
          u[k].kind = "location" /\ u[k + 1].kind = "location" => u[k].loc # u[k + 1].loc
    <2> TAKE k \in 1..Len(u) - 1
    <2>1. CASE k = Len(t)
        BY <1>2, <1>3, <1>5, <2>1 DEF Stops
    <2>2. CASE k # Len(t)
        <3>1. k \in 1..Len(t) - 1 /\ k \in 1..Len(t) /\ k + 1 \in 1..Len(t)
            BY <1>3, <1>5, <2>2
        <3> QED BY <1>5, <3>1 DEF Stops
    <2> QED BY <2>1, <2>2
<1>7. \A k \in 1..Len(u) : k \in 1..Len(t) \/ k = Len(u)
    BY <1>3, <1>5
<1>8. Stops(u, loc)
    BY <1>2, <1>5, <1>6, <1>7 DEF Stops
<1>9. Longer(u)
    BY <1>2, <1>3, <1>5, <1>7 DEF Longer
<1> QED BY <1>1, <1>4, <1>8, <1>9

LEMMA ListIs ==
    ASSUME NEW locs \in LocationLists
    PROVE  /\ Len(locs) \in Nat
           /\ locs # <<>> <=> Len(locs) > 0
           /\ \A i \in 1..Len(locs) :
                 locs[i] # None /\ \A call \in Nat : AtLocation(call, locs[i]) \in EntryType
<1> DEFINE L == {locs[i] : i \in DOMAIN locs} \ {None}
<1>1. locs \in Seq(L)
    BY LocationsAssumption
<1>2. Len(locs) \in Nat /\ DOMAIN locs = 1..Len(locs)
    BY <1>1, LenProperties
<1>3. \A i \in 1..Len(locs) : locs[i] \in L
    <2> HIDE DEF L
    <2> QED BY <1>1, ElementOfSeq
<1>4. locs # <<>> <=> Len(locs) > 0
    <2> HIDE DEF L
    <2> QED BY <1>1, EmptySeq, LenProperties
<1>5. \A i \in 1..Len(locs) :
          locs[i] \in UNION {{ls[j] : j \in DOMAIN ls} : ls \in LocationLists}
    BY <1>2
<1> QED BY <1>2, <1>3, <1>4, <1>5 DEF AtLocation, EntryType

LEMMA LocatedTrace ==
    ASSUME TraceInv, NEW locs \in LocationLists, current' \in Nat, Located(locs)
    PROVE  TraceInv' /\ Longer(trace')
<1>1. PICK N \in Nat : N = Len(locs)
    BY ListIs
<1>2. PICK call \in Nat : call = current'
    OBVIOUS
<1>3. /\ locs # <<>> <=> N > 0
      /\ \A i \in 1..N : locs[i] # None /\ AtLocation(call, locs[i]) \in EntryType
    BY <1>1, <1>2, ListIs
<1>4. Stops(trace, prevLocation) /\ trace \in Seq(EntryType) /\ Longer(trace)
    BY LenProperties DEF TraceInv, Stops, Longer
<1>5. PICK f : f = [n \in 0..N |-> Added(call, locs, n)]
    OBVIOUS
<1>6. /\ f[0] = trace
      /\ \A n \in 1..N : f[n] = IF IsNew(locs, n) THEN Append(f[n - 1], AtLocation(call, locs[n]))
                                ELSE f[n - 1]
    <2>1. /\ Added(call, locs, 0) = trace
          /\ \A n \in 1..N : Added(call, locs, n) =
                 IF IsNew(locs, n) THEN Append(Added(call, locs, n - 1), AtLocation(call, locs[n]))
                 ELSE Added(call, locs, n - 1)
        BY <1>1, <1>3, <1>4, AddedIs
    <2>2. f[0] = trace
        BY <1>5, <2>1
    <2>3. ASSUME NEW n \in 1..N
          PROVE  f[n] = Added(call, locs, n) /\ f[n - 1] = Added(call, locs, n - 1)
        BY <1>5
    <2> QED BY <2>1, <2>2, <2>3
<1>7. trace' = f[N] /\ prevLocations' = locs
      /\ prevLocation' = IF locs = <<>> THEN prevLocation ELSE locs[Len(locs)]
    BY <1>1, <1>2, <1>5 DEF Located
<1>8. PICK last : last = [n \in 0..N |-> IF n = 0 THEN prevLocation ELSE locs[n]]
    OBVIOUS
<1>9. \A n \in 1..N : IsNew(locs, n) <=>
          last[n - 1] = None \/ (locs[n] # last[n - 1] /\ locs # prevLocations)
    <2> TAKE n \in 1..N
    <2>1. last[n - 1] = IF n = 1 THEN prevLocation ELSE locs[n - 1]
        BY <1>8
    <2> QED BY <2>1 DEF IsNew
<1>10. last[0] = prevLocation /\ last[N] = prevLocation'
       /\ \A n \in 1..N : last[n] = locs[n] /\ last[n] # None
    BY <1>1, <1>3, <1>7, <1>8
<1>11. Stops(f[N], last[N]) /\ Longer(f[N])
    \* The list of the last statement once more: nothing is new.
    <2>1. CASE locs = prevLocations /\ locs # <<>>
        <3>1. prevLocation = locs[N] /\ prevLocation # None /\ prevLocation = last[N]
            BY <1>1, <1>3, <1>10, <2>1 DEF TraceInv
        <3>2. \A n \in 1..N : f[n] = f[n - 1]
            <4> TAKE n \in 1..N
            <4>1. last[n - 1] # None
                <5>1. CASE n = 1
                    BY <1>10, <3>1, <5>1
                <5>2. CASE n # 1
                    <6>1. n - 1 \in 1..N
                        BY <5>2
                    <6> QED BY <1>10, <6>1
                <5> QED BY <5>1, <5>2
            <4> QED BY <1>6, <1>9, <2>1, <4>1
        <3>3. f[N] = trace
            <4> DEFINE T == {n \in 0..N : f[n] # trace}
            <4> SUFFICES ASSUME T # {} PROVE FALSE
                OBVIOUS
            <4>1. PICK n \in T : \A m \in T : n <= m
                <5>1. T \subseteq Nat
                    OBVIOUS
                <5> HIDE DEF T
                <5> QED BY <5>1, Least
            <4>2. n \in 1..N
                BY <1>6
            <4>3. n - 1 \in 0..N /\ n - 1 \notin T
                BY <4>1, <4>2
            <4> QED BY <3>2, <4>2, <4>3
        <3> QED BY <1>4, <3>1, <3>3
    <2>2. CASE locs # prevLocations \/ locs = <<>>
        <3> DEFINE T == {n \in 0..N : ~(Stops(f[n], last[n]) /\ Longer(f[n]))}
        <3> SUFFICES ASSUME T # {} PROVE FALSE
            OBVIOUS
        <3>1. PICK n \in T : \A m \in T : n <= m
            <4>1. T \subseteq Nat
                OBVIOUS
            <4> HIDE DEF T
            <4> QED BY <4>1, Least
        <3>2. n \in 1..N /\ locs # prevLocations
            <4>1. n \in 0..N /\ n # 0
                BY <1>4, <1>6, <1>10
            <4> QED BY <1>3, <2>2, <4>1
        <3>3. n - 1 \in 0..N /\ n - 1 \notin T
            BY <3>1, <3>2
        <3>4. Stops(f[n - 1], last[n - 1]) /\ Longer(f[n - 1])
            BY <3>3
        <3>5. locs[n] # None /\ AtLocation(call, locs[n]) \in EntryType /\ last[n] = locs[n]
            BY <1>3, <1>10, <3>2
        <3>6. ~(Stops(f[n], last[n]) /\ Longer(f[n]))
            OBVIOUS
        <3> HIDE DEF T
        <3>7. CASE IsNew(locs, n)
            <4>1. f[n] = Append(f[n - 1], AtLocation(call, locs[n]))
                BY <1>6, <3>2, <3>7
            <4>2. last[n - 1] = None \/ locs[n] # last[n - 1]
                BY <1>9, <3>2, <3>7
            <4>3. Stops(Append(f[n - 1], AtLocation(call, locs[n])), locs[n])
                  /\ Longer(Append(f[n - 1], AtLocation(call, locs[n])))
                BY <1>4, <3>4, <3>5, <4>2, StopsOnce
            <4> QED BY <3>5, <3>6, <4>1, <4>3
        <3>8. CASE ~IsNew(locs, n)
            <4>1. f[n] = f[n - 1] /\ last[n - 1] = last[n]
                BY <1>6, <1>9, <3>2, <3>5, <3>8
            <4> QED BY <3>4, <3>6, <4>1
        <3> QED BY <3>7, <3>8
    <2> QED BY <2>1, <2>2
<1>12. prevLocations' # <<>> =>
          prevLocations' \in LocationLists /\ prevLocation' = prevLocations'[Len(prevLocations')]
    BY <1>7
<1>13. Stops(trace, prevLocation)'
    BY <1>7, <1>10, <1>11 DEF Stops
<1> QED BY <1>7, <1>11, <1>12, <1>13 DEF TraceInv

\* Steps into calls are added by call_contract only.
LEMMA StepTrace ==
    ASSUME TreeInv, TraceInv, [Next]_vars, current' \in Nat
    PROVE  /\ TraceInv'
           /\ CallContract \/ Longer(trace')
<1>1. ASSUME NEW locs \in LocationLists, Located(locs)
      PROVE  TraceInv' /\ Longer(trace')
    BY <1>1, LocatedTrace
<1>2. CASE UNCHANGED <<trace, prevLocation, prevLocations>>
    <2>1. Longer(trace')
        BY <1>2, LenProperties DEF Longer, TraceInv, Stops
    <2> QED BY <1>2, <2>1 DEF TraceInv, Stops
<1>3. CASE CallContract
    <2>1. PICK e : e = AtContractCall(Children[childIndex + 1])
        OBVIOUS
    <2>2. UNCHANGED <<prevLocation, prevLocations>> /\ trace' = Append(trace, e)
        BY <1>3, <2>1 DEF CallContract
    <2>3. childIndex + 1 \in 1..Len(Children)
        <3>1. Len(made) < Len(Children) /\ childIndex \in 0..Len(made)
            BY <1>3 DEF CallContract, Makes, TreeInv, TreeOK, TypeOK
        <3>2. Len(made) \in Nat /\ Len(Children) \in Nat
            BY LenProperties, ChildrenAssumption DEF TreeInv, TreeOK, TypeOK
        <3> QED BY <3>1, <3>2
    <2>4. Children[childIndex + 1] \in Nat
        BY <2>3, ElementOfSeq, ChildrenAssumption, FirstAssumption
    <2>5. e \in EntryType /\ e.kind = "contract"
        BY <2>1, <2>4 DEF AtContractCall, EntryType
    <2>6. trace \in Seq(EntryType) /\ Len(trace) \in Nat
        BY LenProperties DEF TraceInv, Stops
    <2>7. /\ trace' \in Seq(EntryType) /\ Len(trace') = Len(trace) + 1
          /\ \A k \in 1..Len(trace) : trace'[k] = trace[k]
          /\ trace'[Len(trace')] = e
        BY <2>2, <2>5, <2>6, AppendProperties
    <2>8. \A k \in 1..Len(trace') - 1 :
              trace'[k].kind = "location" /\ trace'[k + 1].kind = "location"
                  => trace'[k].loc # trace'[k + 1].loc
        <3> TAKE k \in 1..Len(trace') - 1
        <3>1. CASE k = Len(trace)
            BY <2>5, <2>7, <3>1
        <3>2. CASE k # Len(trace)
            <4>1. k \in 1..Len(trace) - 1 /\ k \in 1..Len(trace) /\ k + 1 \in 1..Len(trace)
                BY <2>6, <2>7, <3>2
            <4> QED BY <2>7, <4>1 DEF TraceInv, Stops
        <3> QED BY <3>1, <3>2
    <2>9. \A k \in 1..Len(trace') : trace'[k].kind = "location" => trace'[k].loc # None
        <3> TAKE k \in 1..Len(trace')
        <3>1. k \in 1..Len(trace) \/ k = Len(trace')
            BY <2>6, <2>7
        <3> QED BY <2>5, <2>7, <3>1 DEF TraceInv, Stops
    <2> QED BY <1>3, <2>2, <2>5, <2>7, <2>8, <2>9 DEF TraceInv, Stops
<1> QED BY <1>1, <1>2, <1>3 DEF Next, Unlocated, LibraryCall, EmitEvent, Finish, vars

-----------------------------------------------------------------------------
(* Inner calls and steps into them *)

\* A call keeps its children.
LEMMA KidsStay ==
    ASSUME TreeInv, [Next]_vars
    PROVE  \A i \in DOMAIN nodes : nodes[i].kids \subseteq nodes'[i].kids
<1>0. TypeOK /\ Tree /\ current \in DOMAIN nodes /\ current \in Nat /\ frames \in Nat
    BY TreeIsTree, FirstAssumption DEF TreeInv, TreeOK, TypeOK, Root
<1>1. next_call_id \notin DOMAIN nodes
    BY <1>0, FirstAssumption DEF Tree, Root
<1>2. PICK n \in Node : n = nodes[current]
    BY <1>0 DEF Tree
<1>3. ASSUME NEW node, Attach(current, node)
      PROVE  \A i \in DOMAIN nodes : nodes[i].kids \subseteq nodes'[i].kids
    <2>1. nodes'[current] = [n EXCEPT !.kids = @ \cup {next_call_id}]
        BY <1>0, <1>1, <1>2, <1>3 DEF Attach
    <2>2. n.kids \subseteq nodes'[current].kids
        BY <2>1 DEF Node
    <2>3. \A i \in DOMAIN nodes \ {current} : nodes'[i] = nodes[i]
        BY <1>1, <1>3 DEF Attach
    <2> QED BY <1>2, <2>2, <2>3
<1>4. CASE CallContract
    <2>1. PICK child : nodes' = [nodes EXCEPT ![current].kids = @ \cup {child}]
        BY <1>4 DEF CallContract
    <2>2. nodes'[current] = [n EXCEPT !.kids = @ \cup {child}]
        BY <1>0, <1>2, <2>1
    <2>3. n.kids \subseteq nodes'[current].kids
        BY <2>2 DEF Node
    <2>4. \A i \in DOMAIN nodes \ {current} : nodes'[i] = nodes[i]
        BY <2>1
    <2> QED BY <1>2, <2>3, <2>4
<1>5. CASE \E panics \in BOOLEAN : Return(panics)
    <2>1. PICK panics \in BOOLEAN : Return(panics)
        BY <1>5
    <2>2. CASE Leaves(stack[Len(stack) - 1].fp)
        <3> DEFINE result == IF panics THEN "panic" ELSE "ok"
        <3>1. nodes' = [nodes EXCEPT ![current].result = result, ![current].from = Top.fp]
            BY <2>1, <2>2 DEF Return
        <3>2. nodes'[current] = [n EXCEPT !.result = result, !.from = Top.fp]
            BY <1>0, <1>2, <3>1
        <3> HIDE DEF result
        <3>3. nodes'[current].kids = n.kids
            BY <3>2 DEF Node
        <3>4. \A i \in DOMAIN nodes \ {current} : nodes'[i] = nodes[i]
            BY <3>1
        <3> QED BY <1>2, <3>3, <3>4
    <2>3. CASE ~Leaves(stack[Len(stack) - 1].fp)
        BY <2>1, <2>3 DEF Return
    <2> QED BY <2>2, <2>3
<1>6. CASE UNCHANGED nodes
    BY <1>6
<1> QED BY <1>3, <1>4, <1>5, <1>6
        DEF Next, EnterFunction, EnterLoop, EnterUnnamed, Stay, EmitEvent, LibraryCall, Finish, vars

OnlyContractCalls == \A i \in DOMAIN made : made[i].kind = "call_contract"

\* The debugger has stepped into the inner calls made so far, in their order.
SteppedInto ==
    /\ \A k \in Steps : \E i \in DOMAIN made : StepsInto(k, Children[i])
    /\ \A i \in DOMAIN made : \E k \in Steps : StepsInto(k, Children[i])
    /\ \A i, j \in DOMAIN made : \A k, n \in Steps :
          StepsInto(k, Children[i]) /\ StepsInto(n, Children[j]) => (k < n <=> i < j)

\* Without other inner calls the index is that of the next inner call.
LinkInv ==
    OnlyContractCalls =>
        /\ childIndex = Len(made)
        /\ SteppedInto
        /\ Straight => \A i \in DOMAIN made : Children[i] \in nodes[made[i].call].kids

LEMMA InitLink == Init => TraceInv /\ LinkInv
<1> SUFFICES ASSUME Init PROVE TraceInv /\ LinkInv
    OBVIOUS
<1>1. trace = <<>> /\ made = <<>> /\ childIndex = 0 /\ prevLocations = <<>>
    BY DEF Init
<1>2. TraceInv
    <2>1. trace \in Seq(EntryType) /\ Len(trace) = 0
        BY <1>1, EmptySeq
    <2> QED BY <1>1, <2>1 DEF TraceInv, Stops
<1>3. DOMAIN made = {} /\ Steps = {} /\ Len(made) = 0
    BY <1>1 DEF Steps
<1> QED BY <1>1, <1>2, <1>3 DEF LinkInv, SteppedInto

\* As long as no inner call is made, what was linked stays.
LEMMA SameLinks ==
    ASSUME TreeInv, LinkInv, TraceInv, Longer(trace'), trace' \in Seq(EntryType),
           UNCHANGED <<made, childIndex>>,
           Straight' => Straight, \A i \in DOMAIN nodes : nodes[i].kids \subseteq nodes'[i].kids
    PROVE  LinkInv'
<1> SUFFICES ASSUME OnlyContractCalls PROVE LinkInv'
    BY DEF LinkInv, OnlyContractCalls
<1>1. trace \in Seq(EntryType) /\ Len(trace) \in Nat /\ DOMAIN trace = 1..Len(trace)
      /\ Len(trace') \in Nat /\ DOMAIN trace' = 1..Len(trace')
    BY LenProperties DEF TraceInv, Stops
<1>2. Steps' = Steps
    <2>1. ASSUME NEW k \in Steps' PROVE k \in Steps
        BY <1>1 DEF Steps, Longer
    <2>2. ASSUME NEW k \in Steps PROVE k \in Steps'
        BY <1>1 DEF Steps, Longer
    <2> QED BY <2>1, <2>2
<1>3. \A k, child : StepsInto(k, child)' <=> StepsInto(k, child)
    <2>1. \A k \in Steps : trace'[k] = trace[k]
        BY <1>1 DEF Steps, Longer
    <2> QED BY <1>2, <2>1 DEF StepsInto
<1>4. SteppedInto'
    <2>1. SteppedInto /\ made' = made
        BY DEF LinkInv
    <2>2. ASSUME NEW k \in Steps
          PROVE  \E i \in DOMAIN made : StepsInto(k, Children[i])'
        BY <1>3, <2>1 DEF SteppedInto
    <2>3. ASSUME NEW i \in DOMAIN made
          PROVE  \E k \in Steps : StepsInto(k, Children[i])'
        BY <1>3, <2>1 DEF SteppedInto
    <2>4. ASSUME NEW i \in DOMAIN made, NEW j \in DOMAIN made, NEW k \in Steps, NEW n \in Steps,
                 StepsInto(k, Children[i])', StepsInto(n, Children[j])'
          PROVE  k < n <=> i < j
        BY <1>3, <2>1, <2>4 DEF SteppedInto
    <2> QED BY <1>2, <2>1, <2>2, <2>3, <2>4 DEF SteppedInto
<1>5. \A i \in DOMAIN made : made[i].call \in DOMAIN nodes
    <2> DEFINE M == [kind: {"call_contract", "library_call"}, call: DOMAIN nodes]
    <2>1. made \in Seq(M)
        BY DEF TreeInv, TreeOK, TypeOK
    <2>2. \A i \in DOMAIN made : made[i] \in M
        <3> HIDE DEF M
        <3> QED BY <2>1, ElementOfSeq, LenProperties
    <2> QED BY <2>2
<1>6. Straight' => \A i \in DOMAIN made : Children[i] \in nodes'[made[i].call].kids
    BY <1>5 DEF LinkInv
<1> QED BY <1>4, <1>6 DEF LinkInv

LEMMA CallContractLinks ==
    ASSUME TreeInv, FrameInv, TraceInv, LinkInv, CallContract, Frame,
           \A i \in DOMAIN nodes : nodes[i].kids \subseteq nodes'[i].kids
    PROVE  LinkInv'
<1> DEFINE M == [kind: {"call_contract", "library_call"}, call: DOMAIN nodes]
<1>0. /\ current \in DOMAIN nodes /\ Top.call \in DOMAIN nodes
      /\ made \in Seq(M) /\ nodes \in [DOMAIN nodes -> Node]
    BY StackType DEF TreeInv, TreeOK, TypeOK, FrameType
<1>1. PICK m \in Nat : m = Len(made)
    BY <1>0, LenProperties
<1>2. m < Len(Children) /\ Len(Children) \in Nat
    BY <1>1, LenProperties, ChildrenAssumption DEF CallContract, Makes
<1>3. PICK one \in M : one = [kind |-> "call_contract", call |-> Top.call]
    BY <1>0
<1>4. made' = Append(made, one) /\ one.call = Top.call
    BY <1>3 DEF CallContract, Makes
<1> HIDE DEF M
<1>5. /\ DOMAIN made = 1..m /\ DOMAIN made' = 1..m + 1 /\ Len(made') = m + 1
      /\ \A i \in 1..m : made'[i] = made[i]
      /\ made'[m + 1] = one
    <2>1. made' \in Seq(M) /\ Len(made') = m + 1
          /\ (\A i \in 1..m : made'[i] = made[i]) /\ made'[m + 1] = one
        BY <1>0, <1>1, <1>3, <1>4, AppendProperties
    <2> QED BY <1>0, <1>1, <2>1, LenProperties
<1> SUFFICES ASSUME OnlyContractCalls' PROVE LinkInv'
    BY DEF LinkInv
<1>6. OnlyContractCalls
    BY <1>5 DEF OnlyContractCalls
<1>7. childIndex = m /\ childIndex' = m + 1 /\ SteppedInto
    BY <1>1, <1>6 DEF LinkInv, CallContract, Advanced
<1>8. PICK child : child = Children[m + 1]
    OBVIOUS
<1>9. PICK K : K = Len(trace) + 1
    OBVIOUS
<1>10. /\ Len(trace) \in Nat /\ DOMAIN trace = 1..Len(trace)
       /\ DOMAIN trace' = 1..K /\ \A k \in 1..Len(trace) : trace'[k] = trace[k]
       /\ trace'[K].kind = "contract" /\ trace'[K].call = child
    <2>1. PICK e : e = AtContractCall(child)
        OBVIOUS
    <2>2. trace' = Append(trace, e) /\ e.kind = "contract" /\ e.call = child
        BY <1>7, <1>8, <2>1 DEF CallContract, AtContractCall
    <2>3. trace \in Seq(EntryType)
        BY DEF TraceInv, Stops
    <2>4. Len(trace) \in Nat /\ DOMAIN trace = 1..Len(trace)
        BY <2>3, LenProperties
    <2>5. e \in EntryType
        <3>1. child \in Nat
            BY <1>2, <1>8, ElementOfSeq, ChildrenAssumption, FirstAssumption
        <3> QED BY <2>1, <3>1 DEF AtContractCall, EntryType
    <2>6. /\ trace' \in Seq(EntryType) /\ Len(trace') = K
          /\ \A k \in 1..Len(trace) : trace'[k] = trace[k]
          /\ trace'[K] = e
        BY <1>9, <2>2, <2>3, <2>5, AppendProperties
    <2>7. DOMAIN trace' = 1..K
        BY <2>6, LenProperties
    <2> QED BY <2>2, <2>4, <2>6, <2>7
<1>11. Steps' = Steps \cup {K} /\ K \notin Steps /\ \A k \in Steps : k < K /\ k \in Nat
    <2>1. ASSUME NEW k \in Steps' PROVE k \in Steps \cup {K}
        BY <1>9, <1>10 DEF Steps
    <2>2. ASSUME NEW k \in Steps PROVE k \in Steps' /\ k < K /\ k \in Nat
        BY <1>9, <1>10 DEF Steps
    <2>3. K \in Steps' /\ K \notin Steps
        BY <1>9, <1>10 DEF Steps
    <2> QED BY <2>1, <2>2, <2>3
<1>12. \A k \in Steps : \A c : StepsInto(k, c)' <=> StepsInto(k, c)
    BY <1>10, <1>11 DEF StepsInto, Steps
<1>13. \A c : StepsInto(K, c)' <=> c = child
    BY <1>10, <1>11 DEF StepsInto
<1>14. \A i \in 1..m + 1 : Children[i] = child <=> i = m + 1
    <2>1. DOMAIN Children = 1..Len(Children)
        BY LenProperties, ChildrenAssumption
    <2>2. 1..m + 1 \subseteq DOMAIN Children
        BY <1>2, <2>1
    <2> QED BY <1>8, <2>2, ChildrenAssumption
\* A step so far is not into the new inner call.
<1>15. \A k \in Steps, i \in 1..m + 1 :
           StepsInto(k, Children[i])' => i \in 1..m /\ StepsInto(k, Children[i])
    <2> SUFFICES ASSUME NEW k \in Steps, NEW i \in 1..m + 1, StepsInto(k, Children[i])'
                 PROVE  i \in 1..m /\ StepsInto(k, Children[i])
        OBVIOUS
    <2>1. StepsInto(k, Children[i])
        BY <1>12
    <2>2. PICK n \in 1..m : StepsInto(k, Children[n])
        BY <1>5, <1>7 DEF SteppedInto
    <2>3. Children[i] = Children[n] /\ n # m + 1 /\ n \in 1..m + 1
        BY <2>1, <2>2 DEF StepsInto
    <2>4. i # m + 1
        BY <1>8, <1>14, <2>3
    <2> QED BY <2>1, <2>4
<1>16. SteppedInto'
    <2>1. \A k \in Steps' : \E i \in 1..m + 1 : StepsInto(k, Children[i])'
        <3> TAKE k \in Steps'
        <3>1. CASE k = K
            BY <1>8, <1>13, <3>1
        <3>2. CASE k \in Steps
            <4>1. PICK i \in 1..m : StepsInto(k, Children[i])
                BY <1>5, <1>7, <3>2 DEF SteppedInto
            <4> QED BY <1>12, <3>2, <4>1
        <3> QED BY <1>11, <3>1, <3>2
    <2>2. \A i \in 1..m + 1 : \E k \in Steps' : StepsInto(k, Children[i])'
        <3> TAKE i \in 1..m + 1
        <3>1. CASE i = m + 1
            BY <1>8, <1>11, <1>13, <3>1
        <3>2. CASE i # m + 1
            <4>1. i \in 1..m
                BY <3>2
            <4>2. PICK k \in Steps : StepsInto(k, Children[i])
                BY <1>5, <1>7, <4>1 DEF SteppedInto
            <4> QED BY <1>11, <1>12, <4>2
        <3> QED BY <3>1, <3>2
    <2>3. \A i, j \in 1..m + 1 : \A k, n \in Steps' :
              StepsInto(k, Children[i])' /\ StepsInto(n, Children[j])' => (k < n <=> i < j)
        <3> SUFFICES ASSUME NEW i \in 1..m + 1, NEW j \in 1..m + 1, NEW k \in Steps',
                            NEW n \in Steps',
                            StepsInto(k, Children[i])', StepsInto(n, Children[j])'
                     PROVE  k < n <=> i < j
            OBVIOUS
        <3>1. k = K => i = m + 1
            BY <1>13, <1>14
        <3>2. n = K => j = m + 1
            BY <1>13, <1>14
        <3>3. k # K => k \in Steps /\ k < K /\ k \in Nat /\ i \in 1..m /\ StepsInto(k, Children[i])
            BY <1>11, <1>15
        <3>4. n # K => n \in Steps /\ n < K /\ n \in Nat /\ j \in 1..m /\ StepsInto(n, Children[j])
            BY <1>11, <1>15
        <3>5. K \in Nat
            BY <1>9, <1>10
        <3>6. CASE k = K \/ n = K
            BY <3>1, <3>2, <3>3, <3>4, <3>5, <3>6
        <3>7. CASE k # K /\ n # K
            BY <1>5, <1>7, <3>3, <3>4, <3>7 DEF SteppedInto
        <3> QED BY <3>6, <3>7
    <2> QED BY <1>5, <2>1, <2>2, <2>3 DEF SteppedInto
<1>17. ASSUME Straight'
       PROVE  \A i \in 1..m + 1 : Children[i] \in nodes'[made'[i].call].kids
    <2>1. Straight /\ current = Top.call
        BY <1>17 DEF Straight, Frame, FrameInv, CallsMatchFrames
    <2>2. \A i \in 1..m : made[i].call \in DOMAIN nodes
        <3>1. \A i \in 1..m : made[i] \in M
            BY <1>0, <1>1, ElementOfSeq
        <3> QED BY <3>1 DEF M
    <2>3. \A i \in 1..m : Children[i] \in nodes'[made'[i].call].kids
        BY <1>5, <1>6, <2>1, <2>2 DEF LinkInv
    <2>4. child \in nodes'[current].kids
        <3>1. PICK n \in Node : n = nodes[current]
            BY <1>0
        <3>2. nodes'[current] = [n EXCEPT !.kids = @ \cup {child}]
            BY <1>0, <1>7, <1>8, <3>1 DEF CallContract
        <3> QED BY <3>2 DEF Node
    <2>5. Children[m + 1] \in nodes'[made'[m + 1].call].kids
        BY <1>4, <1>5, <1>8, <2>1, <2>4
    <2>6. \A i \in 1..m + 1 : i \in 1..m \/ i = m + 1
        OBVIOUS
    <2> QED BY <2>3, <2>5, <2>6
<1> QED BY <1>5, <1>7, <1>16, <1>17 DEF LinkInv

LEMMA StepLinks ==
    TreeInv /\ FrameInv /\ TraceInv /\ LinkInv /\ [Next]_vars /\ TreeInv' => TraceInv' /\ LinkInv'
<1> SUFFICES ASSUME TreeInv, FrameInv, TraceInv, LinkInv, [Next]_vars, TreeInv'
             PROVE  TraceInv' /\ LinkInv'
    OBVIOUS
<1>1. current' \in Nat
    <2>1. DOMAIN nodes' = Root..next_call_id' - 1 /\ next_call_id' \in Nat /\ current' \in DOMAIN nodes'
        BY DEF TreeInv, TreeOK, TypeOK, Root
    <2> QED BY <2>1, FirstAssumption DEF Root
<1>2. TraceInv' /\ (CallContract \/ Longer(trace'))
    BY <1>1, StepTrace
<1>3. \A i \in DOMAIN nodes : nodes[i].kids \subseteq nodes'[i].kids
    BY KidsStay
<1>4. trace' \in Seq(EntryType)
    BY <1>2 DEF TraceInv, Stops
<1>5. CASE CallContract /\ Frame
    BY <1>2, <1>3, <1>5, CallContractLinks
<1>6. CASE LibraryCall /\ Frame
    <2> DEFINE M == [kind: {"call_contract", "library_call"}, call: DOMAIN nodes]
    <2>1. PICK one \in M : one = [kind |-> "library_call", call |-> Top.call]
        BY StackType DEF FrameType, TreeInv, TreeOK
    <2>2. made \in Seq(M) /\ made' = Append(made, one)
        BY <1>6, <2>1 DEF LibraryCall, Makes, TreeInv, TreeOK, TypeOK
    <2> HIDE DEF M
    <2>3. made'[Len(made) + 1] = one /\ Len(made) + 1 \in DOMAIN made'
        <3>1. made' \in Seq(M) /\ Len(made') = Len(made) + 1 /\ made'[Len(made) + 1] = one
              /\ Len(made) \in Nat
            BY <2>1, <2>2, AppendProperties, LenProperties
        <3> QED BY <3>1, LenProperties
    <2>4. ~OnlyContractCalls'
        BY <2>1, <2>3 DEF OnlyContractCalls
    <2> QED BY <1>2, <2>4 DEF LinkInv
<1>7. CASE UNCHANGED <<made, childIndex>> /\ (Straight' => Straight)
    <2>1. ~CallContract
        <3> SUFFICES ASSUME CallContract PROVE FALSE
            OBVIOUS
        <3> DEFINE M == [kind: {"call_contract", "library_call"}, call: DOMAIN nodes]
        <3>1. PICK one \in M : one = [kind |-> "call_contract", call |-> Top.call]
            BY StackType DEF FrameType, TreeInv, TreeOK
        <3>2. made \in Seq(M) /\ made' = Append(made, one) /\ made' = made
            BY <1>7, <3>1 DEF CallContract, Makes, TreeInv, TreeOK, TypeOK
        <3> HIDE DEF M
        <3> QED BY <3>1, <3>2, AppendProperties, LenProperties
    <2> QED BY <1>2, <1>3, <1>4, <1>7, <2>1, SameLinks
<1>8. \/ CallContract /\ Frame
      \/ LibraryCall /\ Frame
      \/ UNCHANGED <<made, childIndex>> /\ (Straight' => Straight)
    BY DEF Next, EnterFunction, EnterLoop, EnterUnnamed, Enter, Return, Stay, EmitEvent, SysCall,
           Frame, Finish, vars, Straight
<1> QED BY <1>2, <1>5, <1>6, <1>7, <1>8

\* Without library calls and deployments the debugger steps into every inner
\* call once and in order, and never stops at a location twice in a row, for
\* any number of calls, any lists of locations and any loops.
THEOREM InnerCallsLinkedCorrect == Spec => []InnerCallsLinked
<1>1. Init => TreeInv /\ FrameInv /\ TraceInv /\ LinkInv
    BY InitTree, InitFrames, InitLink
<1>2. (TreeInv /\ FrameInv /\ TraceInv /\ LinkInv) /\ [Next]_vars
        => (TreeInv /\ FrameInv /\ TraceInv /\ LinkInv)'
    BY StepTree, StepFrames, StepLinks
<1>3. TraceInv /\ LinkInv => InnerCallsLinked
    BY DEF TraceInv, Stops, LinkInv, OnlyContractCalls, SteppedInto, InnerCallsLinked
<1> QED BY <1>1, <1>2, <1>3, PTL DEF Spec
=============================================================================
