--------------------------- MODULE CalldataProofs ---------------------------
(***************************************************************************)
(* Proofs about Calldata, for any types, values, contracts and bounds.     *)
(***************************************************************************)
EXTENDS Calldata, SequenceTheorems, WellFoundedInduction, TLAPS

-----------------------------------------------------------------------------
(* Counting up *)

LEMMA Least ==
    ASSUME NEW T, T \subseteq Nat, T # {}
    PROVE  \E x \in T : \A y \in T : x <= y
<1> DEFINE R == {ss \in Nat \X Nat : ss[1] < ss[2]}
<1>1. IsWellFoundedOn(R, Nat)
    BY NatLessThanWellFounded DEF OpToRel
<1> HIDE DEF R
<1>2. PICK x \in T : \A y \in T : ~(<<y, x>> \in R)
    BY <1>1, WFMin
<1>3. \A y \in T : ~(y < x)
    BY <1>2 DEF R
<1> QED BY <1>3

\* Induction over the numbers, for a set of them.
LEMMA CountUp ==
    ASSUME NEW P, 0 \in P, \A n \in Nat : n \in P => n + 1 \in P
    PROVE  Nat \subseteq P
<1> SUFFICES ASSUME Nat \ P # {} PROVE FALSE
    OBVIOUS
<1>1. PICK n \in Nat \ P : \A m \in Nat \ P : n <= m
    BY Least
<1>2. n - 1 \in Nat /\ n - 1 \notin Nat \ P
    BY <1>1
<1> QED BY <1>1, <1>2

\* Induction over the types: what holds of a type if it holds of its parts.
LEMMA TypeInduction ==
    ASSUME NEW P, \A t \in Types : (\A i \in DOMAIN t.of : t.of[i] \in P) => t \in P
    PROVE  Types \subseteq P
<1> SUFFICES ASSUME Types \ P # {} PROVE FALSE
    OBVIOUS
<1> DEFINE Depths == {Depth[t] : t \in Types \ P}
<1>5. \A t \in Types : Depth[t] \in Nat
    BY TypesAssumption
<1>1. Depths \subseteq Nat /\ Depths # {}
    BY <1>5
<1>2. PICK d \in Depths : \A e \in Depths : d <= e
    <2> HIDE DEF Depths
    <2> QED BY <1>1, Least
<1>3. PICK t \in Types \ P : d = Depth[t]
    BY <1>2
<1>4. ASSUME NEW i \in DOMAIN t.of PROVE t.of[i] \in P
    <2>1. t.of[i] \in Types /\ Depth[t.of[i]] < Depth[t]
        BY TypesAssumption
    <2>2. SUFFICES ASSUME t.of[i] \notin P PROVE FALSE
        OBVIOUS
    <2>3. d <= Depth[t.of[i]]
        BY <1>2, <2>1, <2>2
    <2> QED BY <1>3, <1>5, <2>1, <2>3
<1> QED BY <1>3, <1>4

\* The types that nest less than n deep.
Shallow(n) == {t \in Types : Depth[t] < n}

LEMMA ShallowParts ==
    /\ Shallow(0) = {}
    /\ Shallow(MaxDepth) = Types
    /\ \A n \in Nat : /\ Shallow(n) \subseteq Shallow(n + 1)
                      /\ \A t \in Shallow(n + 1) : \A i \in DOMAIN t.of : t.of[i] \in Shallow(n)
<1>1. \A t \in Types : Depth[t] \in Nat /\ Depth[t] < MaxDepth /\ MaxDepth \in Nat
    BY TypesAssumption
<1>2. \A t \in Types : \A i \in DOMAIN t.of : t.of[i] \in Types /\ Depth[t.of[i]] < Depth[t]
    BY TypesAssumption
<1> QED BY <1>1, <1>2 DEF Shallow

-----------------------------------------------------------------------------
(* What is recursive over the types is what its definition says *)

LEMMA SerializeDef ==
    Serialize = [t \in Types |-> SerializeOf(t, [i \in DOMAIN t.of |-> Serialize[t.of[i]]])]
<1> DEFINE Parts(f, t) == [i \in DOMAIN t.of |-> f[t.of[i]]]
           Solves(f, n) == f = [t \in Shallow(n) |-> SerializeOf(t, Parts(f, t))]
           P == {n \in Nat : \E f : Solves(f, n)}
<1>1. 0 \in P
    <2>1. Solves([t \in {} |-> t], 0)
        BY ShallowParts
    <2> QED BY <2>1
<1>2. ASSUME NEW n \in P PROVE n + 1 \in P
    <2>1. PICK g : Solves(g, n)
        OBVIOUS
    <2> DEFINE f == [t \in Shallow(n + 1) |-> SerializeOf(t, Parts(g, t))]
    <2>2. ASSUME NEW t \in Shallow(n + 1) PROVE Parts(f, t) = Parts(g, t)
        <3>1. ASSUME NEW i \in DOMAIN t.of PROVE f[t.of[i]] = g[t.of[i]]
            <4>1. t.of[i] \in Shallow(n) /\ t.of[i] \in Shallow(n + 1)
                BY ShallowParts
            <4>2. f[t.of[i]] = SerializeOf(t.of[i], Parts(g, t.of[i]))
                BY <4>1
            <4>3. g[t.of[i]] = SerializeOf(t.of[i], Parts(g, t.of[i]))
                BY <2>1, <4>1
            <4> QED BY <4>2, <4>3
        <3> HIDE DEF f
        <3> QED BY <3>1
    <2>3. Solves(f, n + 1)
        <3> HIDE DEF Parts
        <3> QED BY <2>2
    <2> HIDE DEF f, Solves
    <2> QED BY <2>3
<1>3. \E f : Solves(f, MaxDepth)
    <2>1. MaxDepth \in Nat
        BY TypesAssumption
    <2> HIDE DEF P
    <2>2. Nat \subseteq P
        BY <1>1, <1>2, CountUp
    <2> QED BY <2>1, <2>2 DEF P
<1> DEFINE of == CHOOSE f : f = [t \in Types |-> SerializeOf(t, Parts(f, t))]
<1>4. of = [t \in Types |-> SerializeOf(t, Parts(of, t))]
    <2>1. \E f : f = [t \in Types |-> SerializeOf(t, Parts(f, t))]
        BY <1>3, ShallowParts
    <2> HIDE DEF Parts
    <2> QED BY <2>1
<1>5. Serialize = [t \in Types |-> of[t]]
    BY DEF Serialize
<1>6. Serialize = of
    <2> HIDE DEF of, Parts
    <2> QED BY <1>4, <1>5
<1> HIDE DEF of
<1> QED BY <1>4, <1>6

LEMMA DecodeTypeDef ==
    decode_type = [t \in Types |-> DecoderOf(t, [i \in DOMAIN t.of |-> decode_type[t.of[i]]])]
<1> DEFINE Parts(f, t) == [i \in DOMAIN t.of |-> f[t.of[i]]]
           Solves(f, n) == f = [t \in Shallow(n) |-> DecoderOf(t, Parts(f, t))]
           P == {n \in Nat : \E f : Solves(f, n)}
<1>1. 0 \in P
    <2>1. Solves([t \in {} |-> t], 0)
        BY ShallowParts
    <2> QED BY <2>1
<1>2. ASSUME NEW n \in P PROVE n + 1 \in P
    <2>1. PICK g : Solves(g, n)
        OBVIOUS
    <2> DEFINE f == [t \in Shallow(n + 1) |-> DecoderOf(t, Parts(g, t))]
    <2>2. ASSUME NEW t \in Shallow(n + 1) PROVE Parts(f, t) = Parts(g, t)
        <3>1. ASSUME NEW i \in DOMAIN t.of PROVE f[t.of[i]] = g[t.of[i]]
            <4>1. t.of[i] \in Shallow(n) /\ t.of[i] \in Shallow(n + 1)
                BY ShallowParts
            <4>2. f[t.of[i]] = DecoderOf(t.of[i], Parts(g, t.of[i]))
                BY <4>1
            <4>3. g[t.of[i]] = DecoderOf(t.of[i], Parts(g, t.of[i]))
                BY <2>1, <4>1
            <4> QED BY <4>2, <4>3
        <3> HIDE DEF f
        <3> QED BY <3>1
    <2>3. Solves(f, n + 1)
        <3> HIDE DEF Parts
        <3> QED BY <2>2
    <2> HIDE DEF f, Solves
    <2> QED BY <2>3
<1>3. \E f : Solves(f, MaxDepth)
    <2>1. MaxDepth \in Nat
        BY TypesAssumption
    <2> HIDE DEF P
    <2>2. Nat \subseteq P
        BY <1>1, <1>2, CountUp
    <2> QED BY <2>1, <2>2 DEF P
<1> DEFINE of == CHOOSE f : f = [t \in Types |-> DecoderOf(t, Parts(f, t))]
<1>4. of = [t \in Types |-> DecoderOf(t, Parts(of, t))]
    <2>1. \E f : f = [t \in Types |-> DecoderOf(t, Parts(f, t))]
        BY <1>3, ShallowParts
    <2> HIDE DEF Parts
    <2> QED BY <2>1
<1>5. decode_type = [t \in Types |-> of[t]]
    BY DEF decode_type
<1>6. decode_type = of
    <2> HIDE DEF of, Parts
    <2> QED BY <1>4, <1>5
<1> HIDE DEF of
<1> QED BY <1>4, <1>6

LEMMA DisplayDef ==
    Display = [t \in Types |-> DisplayOf(t, [i \in DOMAIN t.of |-> Display[t.of[i]]])]
<1> DEFINE Parts(f, t) == [i \in DOMAIN t.of |-> f[t.of[i]]]
           Solves(f, n) == f = [t \in Shallow(n) |-> DisplayOf(t, Parts(f, t))]
           P == {n \in Nat : \E f : Solves(f, n)}
<1>1. 0 \in P
    <2>1. Solves([t \in {} |-> t], 0)
        BY ShallowParts
    <2> QED BY <2>1
<1>2. ASSUME NEW n \in P PROVE n + 1 \in P
    <2>1. PICK g : Solves(g, n)
        OBVIOUS
    <2> DEFINE f == [t \in Shallow(n + 1) |-> DisplayOf(t, Parts(g, t))]
    <2>2. ASSUME NEW t \in Shallow(n + 1) PROVE Parts(f, t) = Parts(g, t)
        <3>1. ASSUME NEW i \in DOMAIN t.of PROVE f[t.of[i]] = g[t.of[i]]
            <4>1. t.of[i] \in Shallow(n) /\ t.of[i] \in Shallow(n + 1)
                BY ShallowParts
            <4>2. f[t.of[i]] = DisplayOf(t.of[i], Parts(g, t.of[i]))
                BY <4>1
            <4>3. g[t.of[i]] = DisplayOf(t.of[i], Parts(g, t.of[i]))
                BY <2>1, <4>1
            <4> QED BY <4>2, <4>3
        <3> HIDE DEF f
        <3> QED BY <3>1
    <2>3. Solves(f, n + 1)
        <3> HIDE DEF Parts
        <3> QED BY <2>2
    <2> HIDE DEF f, Solves
    <2> QED BY <2>3
<1>3. \E f : Solves(f, MaxDepth)
    <2>1. MaxDepth \in Nat
        BY TypesAssumption
    <2> HIDE DEF P
    <2>2. Nat \subseteq P
        BY <1>1, <1>2, CountUp
    <2> QED BY <2>1, <2>2 DEF P
<1> DEFINE of == CHOOSE f : f = [t \in Types |-> DisplayOf(t, Parts(f, t))]
<1>4. of = [t \in Types |-> DisplayOf(t, Parts(of, t))]
    <2>1. \E f : f = [t \in Types |-> DisplayOf(t, Parts(f, t))]
        BY <1>3, ShallowParts
    <2> HIDE DEF Parts
    <2> QED BY <2>1
<1>5. Display = [t \in Types |-> of[t]]
    BY DEF Display
<1>6. Display = of
    <2> HIDE DEF of, Parts
    <2> QED BY <1>4, <1>5
<1> HIDE DEF of
<1> QED BY <1>4, <1>6

LEMMA DecodableDef ==
    Decodable = [t \in Types |-> DecodableOf(t, [i \in DOMAIN t.of |-> Decodable[t.of[i]]])]
<1> DEFINE Parts(f, t) == [i \in DOMAIN t.of |-> f[t.of[i]]]
           Solves(f, n) == f = [t \in Shallow(n) |-> DecodableOf(t, Parts(f, t))]
           P == {n \in Nat : \E f : Solves(f, n)}
<1>1. 0 \in P
    <2>1. Solves([t \in {} |-> t], 0)
        BY ShallowParts
    <2> QED BY <2>1
<1>2. ASSUME NEW n \in P PROVE n + 1 \in P
    <2>1. PICK g : Solves(g, n)
        OBVIOUS
    <2> DEFINE f == [t \in Shallow(n + 1) |-> DecodableOf(t, Parts(g, t))]
    <2>2. ASSUME NEW t \in Shallow(n + 1) PROVE Parts(f, t) = Parts(g, t)
        <3>1. ASSUME NEW i \in DOMAIN t.of PROVE f[t.of[i]] = g[t.of[i]]
            <4>1. t.of[i] \in Shallow(n) /\ t.of[i] \in Shallow(n + 1)
                BY ShallowParts
            <4>2. f[t.of[i]] = DecodableOf(t.of[i], Parts(g, t.of[i]))
                BY <4>1
            <4>3. g[t.of[i]] = DecodableOf(t.of[i], Parts(g, t.of[i]))
                BY <2>1, <4>1
            <4> QED BY <4>2, <4>3
        <3> HIDE DEF f
        <3> QED BY <3>1
    <2>3. Solves(f, n + 1)
        <3> HIDE DEF Parts
        <3> QED BY <2>2
    <2> HIDE DEF f, Solves
    <2> QED BY <2>3
<1>3. \E f : Solves(f, MaxDepth)
    <2>1. MaxDepth \in Nat
        BY TypesAssumption
    <2> HIDE DEF P
    <2>2. Nat \subseteq P
        BY <1>1, <1>2, CountUp
    <2> QED BY <2>1, <2>2 DEF P
<1> DEFINE of == CHOOSE f : f = [t \in Types |-> DecodableOf(t, Parts(f, t))]
<1>4. of = [t \in Types |-> DecodableOf(t, Parts(of, t))]
    <2>1. \E f : f = [t \in Types |-> DecodableOf(t, Parts(f, t))]
        BY <1>3, ShallowParts
    <2> HIDE DEF Parts
    <2> QED BY <2>1
<1>5. Decodable = [t \in Types |-> of[t]]
    BY DEF Decodable
<1>6. Decodable = of
    <2> HIDE DEF of, Parts
    <2> QED BY <1>4, <1>5
<1> HIDE DEF of
<1> QED BY <1>4, <1>6

LEMMA IsPlainDef ==
    IsPlain = [t \in Types |-> PlainOf(t, [i \in DOMAIN t.of |-> IsPlain[t.of[i]]])]
<1> DEFINE Parts(f, t) == [i \in DOMAIN t.of |-> f[t.of[i]]]
           Solves(f, n) == f = [t \in Shallow(n) |-> PlainOf(t, Parts(f, t))]
           P == {n \in Nat : \E f : Solves(f, n)}
<1>1. 0 \in P
    <2>1. Solves([t \in {} |-> t], 0)
        BY ShallowParts
    <2> QED BY <2>1
<1>2. ASSUME NEW n \in P PROVE n + 1 \in P
    <2>1. PICK g : Solves(g, n)
        OBVIOUS
    <2> DEFINE f == [t \in Shallow(n + 1) |-> PlainOf(t, Parts(g, t))]
    <2>2. ASSUME NEW t \in Shallow(n + 1) PROVE Parts(f, t) = Parts(g, t)
        <3>1. ASSUME NEW i \in DOMAIN t.of PROVE f[t.of[i]] = g[t.of[i]]
            <4>1. t.of[i] \in Shallow(n) /\ t.of[i] \in Shallow(n + 1)
                BY ShallowParts
            <4>2. f[t.of[i]] = PlainOf(t.of[i], Parts(g, t.of[i]))
                BY <4>1
            <4>3. g[t.of[i]] = PlainOf(t.of[i], Parts(g, t.of[i]))
                BY <2>1, <4>1
            <4> QED BY <4>2, <4>3
        <3> HIDE DEF f
        <3> QED BY <3>1
    <2>3. Solves(f, n + 1)
        <3> HIDE DEF Parts
        <3> QED BY <2>2
    <2> HIDE DEF f, Solves
    <2> QED BY <2>3
<1>3. \E f : Solves(f, MaxDepth)
    <2>1. MaxDepth \in Nat
        BY TypesAssumption
    <2> HIDE DEF P
    <2>2. Nat \subseteq P
        BY <1>1, <1>2, CountUp
    <2> QED BY <2>1, <2>2 DEF P
<1> DEFINE of == CHOOSE f : f = [t \in Types |-> PlainOf(t, Parts(f, t))]
<1>4. of = [t \in Types |-> PlainOf(t, Parts(of, t))]
    <2>1. \E f : f = [t \in Types |-> PlainOf(t, Parts(f, t))]
        BY <1>3, ShallowParts
    <2> HIDE DEF Parts
    <2> QED BY <2>1
<1>5. IsPlain = [t \in Types |-> of[t]]
    BY DEF IsPlain
<1>6. IsPlain = of
    <2> HIDE DEF of, Parts
    <2> QED BY <1>4, <1>5
<1> HIDE DEF of
<1> QED BY <1>4, <1>6

-----------------------------------------------------------------------------
(* What is recursive over numbers *)

\* Cat puts its sequences one after another: tails[k] is what comes after the first k.
IsTails(tails, ss) ==
    /\ tails[0] = Cat(ss) /\ tails[Len(ss)] = <<>>
    /\ \A k \in 1 .. Len(ss) : tails[k - 1] = ss[k] \o tails[k]

\* Cat is built from its last sequence.
LEMMA CatTails ==
    ASSUME NEW S, NEW ss \in Seq(Seq(S))
    PROVE  \E tails \in [0 .. Len(ss) -> Seq(S)] : IsTails(tails, ss)
<1> DEFINE n == Len(ss)
           Last(m, f) == IF m = 0 THEN <<>> ELSE ss[n - m + 1] \o f[m - 1]
           Solves(f, k) == f = [m \in 0 .. k |-> Last(m, f)]
           P == {k \in Nat : \E f : Solves(f, k)}
<1>0. n \in Nat /\ <<>> \o ss = ss /\ \A k \in 1 .. n : ss[k] \in Seq(S)
    OBVIOUS
<1>1. 0 \in P
    <2> DEFINE f == [m \in 0 .. 0 |-> <<>>]
    <2>1. Solves(f, 0)
        OBVIOUS
    <2> QED BY <2>1
<1>2. ASSUME NEW k \in P PROVE k + 1 \in P
    <2>1. PICK g : Solves(g, k)
        OBVIOUS
    <2> DEFINE f == [m \in 0 .. k + 1 |-> Last(m, g)]
    <2>2. ASSUME NEW m \in 0 .. k + 1, m # 0 PROVE f[m - 1] = g[m - 1]
        <3>1. m - 1 \in 0 .. k /\ m - 1 \in 0 .. k + 1
            BY <2>2
        <3>2. f[m - 1] = Last(m - 1, g)
            BY <3>1
        <3>3. g[m - 1] = Last(m - 1, g)
            BY <2>1, <3>1
        <3> QED BY <3>2, <3>3
    <2>3. ASSUME NEW m \in 0 .. k + 1 PROVE Last(m, f) = Last(m, g)
        <3> HIDE DEF f
        <3> QED BY <2>2
    <2>4. Solves(f, k + 1)
        <3> HIDE DEF Last
        <3> QED BY <2>3
    <2> HIDE DEF f, Solves
    <2> QED BY <2>4
<1>3. PICK g : Solves(g, n)
    <2> HIDE DEF P
    <2>1. Nat \subseteq P
        BY <1>1, <1>2, CountUp
    <2> QED BY <1>0, <2>1 DEF P
<1> DEFINE last == CHOOSE f : Solves(f, n)
<1>4. Solves(last, n)
    <2> HIDE DEF Solves
    <2> QED BY <1>3
<1>5. Cat(ss) = last[n]
    BY <1>0 DEF Cat
<1> HIDE DEF last
<1>6. last[0] = <<>> /\ \A m \in 1 .. n : last[m] = ss[n - m + 1] \o last[m - 1]
    <2>1. \A m \in 0 .. n : last[m] = Last(m, last)
        <3> HIDE DEF Last, n
        <3> QED BY <1>4
    <2>2. last[0] = Last(0, last) /\ \A m \in 1 .. n : last[m] = Last(m, last) /\ m # 0
        <3> HIDE DEF Last
        <3> QED BY <1>0, <2>1
    <2> HIDE DEF n
    <2> QED BY <2>2
<1>7. \A m \in Nat : m <= n => last[m] \in Seq(S)
    <2> DEFINE Q == {m \in Nat : m <= n => last[m] \in Seq(S)}
    <2>1. 0 \in Q
        <3>1. <<>> \in Seq(S)
            OBVIOUS
        <3> QED BY <1>6, <3>1
    <2>2. ASSUME NEW m \in Q PROVE m + 1 \in Q
        <3>1. SUFFICES ASSUME m + 1 <= n PROVE last[m + 1] \in Seq(S)
            OBVIOUS
        <3>2. last[m] \in Seq(S) /\ ss[n - m] \in Seq(S)
            <4>1. m \in Nat /\ m <= n /\ n - m \in 1 .. n
                BY <1>0, <3>1
            <4> HIDE DEF n
            <4> QED BY <1>0, <4>1
        <3>3. PICK j \in 1 .. n : j = m + 1
            BY <1>0, <3>1
        <3>4. last[j] = ss[n - j + 1] \o last[j - 1]
            BY <1>6
        <3>5. n - j + 1 = n - m /\ j - 1 = m
            BY <1>0, <3>3
        <3> QED BY <3>2, <3>3, <3>4, <3>5
    <2> HIDE DEF Q
    <2>3. Nat \subseteq Q
        BY <2>1, <2>2, CountUp
    <2> QED BY <2>3 DEF Q
<1> DEFINE tails == [k \in 0 .. n |-> last[n - k]]
<1>8. tails \in [0 .. n -> Seq(S)]
    BY <1>0, <1>7
<1>9. tails[0] = Cat(ss) /\ tails[n] = <<>>
    BY <1>0, <1>5, <1>6
<1>10. ASSUME NEW k \in 1 .. n PROVE tails[k - 1] = ss[k] \o tails[k]
    <2>1. n - k + 1 \in 1 .. n /\ n - (n - k + 1) + 1 = k /\ (n - k + 1) - 1 = n - k /\ n - (k - 1) = n - k + 1
        BY <1>0
    <2>2. last[n - k + 1] = ss[k] \o last[n - k]
        BY <1>6, <2>1
    <2> QED BY <1>0, <2>1, <2>2
<1> HIDE DEF tails
<1> QED BY <1>8, <1>9, <1>10 DEF IsTails

LEMMA CatType ==
    ASSUME NEW S, NEW ss \in Seq(Seq(S))
    PROVE  Cat(ss) \in Seq(S) /\ (ss = <<>> => Cat(ss) = <<>>)
<1>1. PICK tails \in [0 .. Len(ss) -> Seq(S)] : IsTails(tails, ss)
    BY CatTails
<1> QED BY <1>1 DEF IsTails

-----------------------------------------------------------------------------
(* Arithmetic *)

LEMMA Signed ==
    ASSUME NEW p \in Nat, NEW x \in 0 .. p - 1
    PROVE  (x - p) % p = x
<1>1. PICK q \in Int : q = (x - p) \div p
    OBVIOUS
<1>2. PICK r \in 0 .. p - 1 : r = (x - p) % p
    OBVIOUS
<1>3. p * (q + 1) = x - r
    BY <1>1, <1>2
<1>4. q + 1 = 0
    <2>1. ASSUME q + 1 >= 1 PROVE FALSE
        <3>1. p * (q + 1) >= p
            BY <2>1
        <3> QED BY <1>3, <3>1
    <2>2. ASSUME q + 1 <= -1 PROVE FALSE
        <3>1. p * (q + 1) <= -p
            BY <2>2
        <3> QED BY <1>3, <3>1
    <2> QED BY <2>1, <2>2
<1> QED BY <1>2, <1>3, <1>4

\* Remainders and quotients of numbers, and of the two limbs of a large one.
LEMMA Remainder ==
    ASSUME NEW p \in Nat, p > 0, NEW x \in Int
    PROVE  /\ x % p \in 0 .. p - 1 /\ x = p * (x \div p) + (x % p)
           /\ x \in 0 .. p - 1 => x % p = x
           /\ x \in 0 .. p * p - 1 => x \div p \in 0 .. p - 1
           /\ x \in Nat => x \div p \in Nat
<1>1. x % p \in 0 .. p - 1
    OBVIOUS
<1>2. x = p * (x \div p) + (x % p)
    OBVIOUS
<1>3. x \in 0 .. p - 1 => x % p = x
    OBVIOUS
<1>4. x \in 0 .. p * p - 1 => x \div p \in 0 .. p - 1
    OBVIOUS
<1>5. x \in Nat => x \div p \in Nat
    OBVIOUS
<1> QED BY <1>1, <1>2, <1>3, <1>4, <1>5

LEMMA Limbs ==
    \A p \in Nat : p > 0 => \A x \in 0 .. p * p - 1 :
        x % p \in 0 .. p - 1 /\ x \div p \in 0 .. p - 1 /\ x = p * (x \div p) + (x % p)
<1> SUFFICES ASSUME NEW p \in Nat, p > 0, NEW x \in 0 .. p * p - 1
             PROVE  x % p \in 0 .. p - 1 /\ x \div p \in 0 .. p - 1 /\ x = p * (x \div p) + (x % p)
    OBVIOUS
<1>1. x \in Int
    OBVIOUS
<1> QED BY <1>1, Remainder

\* What two numbers have in one or the other is a number.
LEMMA BitOrType ==
    ASSUME NEW x \in Nat, NEW y \in Nat
    PROVE  BitOr(x, y) \in Nat
<1> DEFINE D(k) == {p \in (0 .. x) \X (0 .. y) : p[1] <= k}
           Or(p, f) == IF p[1] = 0 THEN p[2]
                       ELSE (IF p[1] % 2 = 1 \/ p[2] % 2 = 1 THEN 1 ELSE 0) + 2 * f[<<p[1] \div 2, p[2] \div 2>>]
           Solves(f, k) == f = [p \in D(k) |-> Or(p, f)]
           P == {k \in Nat : \E f : Solves(f, k)}
<1>0. ASSUME NEW k \in Nat, NEW p \in D(k + 1), p[1] # 0
      PROVE  <<p[1] \div 2, p[2] \div 2>> \in D(k)
    <2>1. p[1] \div 2 \in 0 .. p[1] - 1 /\ p[2] \div 2 \in 0 .. p[2]
        BY <1>0
    <2> QED BY <2>1
<1>1. 0 \in P
    <2> DEFINE f == [p \in D(0) |-> p[2]]
    <2>1. Solves(f, 0)
        OBVIOUS
    <2> QED BY <2>1
<1>2. ASSUME NEW k \in P PROVE k + 1 \in P
    <2>1. PICK g : Solves(g, k)
        OBVIOUS
    <2> DEFINE f == [p \in D(k + 1) |-> Or(p, g)]
    <2>2. ASSUME NEW p \in D(k) PROVE f[p] = g[p]
        <3>1. p \in D(k + 1)
            OBVIOUS
        <3>2. f[p] = Or(p, g)
            BY <3>1
        <3>3. g[p] = Or(p, g)
            BY <2>1
        <3> QED BY <3>2, <3>3
    <2>3. ASSUME NEW p \in D(k + 1) PROVE Or(p, f) = Or(p, g)
        <3>1. p[1] # 0 => f[<<p[1] \div 2, p[2] \div 2>>] = g[<<p[1] \div 2, p[2] \div 2>>]
            BY <1>0, <2>2
        <3> HIDE DEF f, D
        <3> QED BY <3>1
    <2>4. Solves(f, k + 1)
        <3> HIDE DEF Or, D
        <3> QED BY <2>3
    <2> HIDE DEF f, Solves
    <2> QED BY <2>4
<1>3. PICK g : Solves(g, x)
    <2> HIDE DEF P
    <2>1. Nat \subseteq P
        BY <1>1, <1>2, CountUp
    <2> QED BY <2>1 DEF P
<1>4. D(x) = (0 .. x) \X (0 .. y)
    OBVIOUS
<1> DEFINE or == CHOOSE f : f = [p \in (0 .. x) \X (0 .. y) |-> Or(p, f)]
<1>5. or = [p \in (0 .. x) \X (0 .. y) |-> Or(p, or)]
    <2>1. g = [p \in (0 .. x) \X (0 .. y) |-> Or(p, g)]
        <3> HIDE DEF Or, D
        <3> QED BY <1>3, <1>4
    <2> HIDE DEF Or, D
    <2> QED BY <2>1
<1>6. BitOr(x, y) = or[<<x, y>>]
    BY DEF BitOr
<1> HIDE DEF or
<1> DEFINE Q == {k \in Nat : \A p \in D(k) : or[p] \in Nat}
<1>7. 0 \in Q
    BY <1>5
<1>8. ASSUME NEW k \in Q PROVE k + 1 \in Q
    <2>1. ASSUME NEW p \in D(k + 1) PROVE or[p] \in Nat
        <3>1. or[p] = Or(p, or)
            BY <1>5
        <3>2. CASE p[1] = 0
            BY <3>1, <3>2
        <3>3. CASE p[1] # 0
            <4>1. PICK m \in Nat : m = or[<<p[1] \div 2, p[2] \div 2>>]
                BY <1>0, <3>3
            <4> QED BY <3>1, <3>3, <4>1
        <3> QED BY <3>2, <3>3
    <2> HIDE DEF D
    <2> QED BY <2>1
<1>9. x \in Q
    <2> HIDE DEF Q
    <2>1. Nat \subseteq Q
        BY <1>7, <1>8, CountUp
    <2> QED BY <2>1
<1> QED BY <1>6, <1>9

-----------------------------------------------------------------------------
(* Decoded values *)

LEMMA NestedDef ==
    NestedIn[0] = {} /\ \A n \in 1 .. MaxDepth : NestedIn[n] = Nested(NestedIn[n - 1])
<1> DEFINE In(n, f) == IF n = 0 THEN {} ELSE Nested(f[n - 1])
           Solves(f, k) == f = [n \in 0 .. k |-> In(n, f)]
           P == {k \in Nat : \E f : Solves(f, k)}
<1>0. MaxDepth \in Nat
    BY TypesAssumption
<1>1. 0 \in P
    <2> DEFINE f == [n \in 0 .. 0 |-> {}]
    <2>1. Solves(f, 0)
        OBVIOUS
    <2> QED BY <2>1
<1>2. ASSUME NEW k \in P PROVE k + 1 \in P
    <2>1. PICK g : Solves(g, k)
        OBVIOUS
    <2> DEFINE f == [n \in 0 .. k + 1 |-> In(n, g)]
    <2>2. ASSUME NEW n \in 0 .. k + 1, n # 0 PROVE f[n - 1] = g[n - 1]
        <3>1. n - 1 \in 0 .. k /\ n - 1 \in 0 .. k + 1
            BY <2>2
        <3>2. f[n - 1] = In(n - 1, g)
            BY <3>1
        <3>3. g[n - 1] = In(n - 1, g)
            BY <2>1, <3>1
        <3> QED BY <3>2, <3>3
    <2>3. ASSUME NEW n \in 0 .. k + 1 PROVE In(n, f) = In(n, g)
        <3> HIDE DEF f
        <3> QED BY <2>2
    <2>4. Solves(f, k + 1)
        <3> HIDE DEF In
        <3> QED BY <2>3
    <2> HIDE DEF f, Solves
    <2> QED BY <2>4
<1>3. PICK g : Solves(g, MaxDepth)
    <2> HIDE DEF P
    <2>1. Nat \subseteq P
        BY <1>1, <1>2, CountUp
    <2> QED BY <1>0, <2>1 DEF P
<1>4. Solves(NestedIn, MaxDepth)
    <2> DEFINE in == CHOOSE f : Solves(f, MaxDepth)
    <2>1. NestedIn = in
        BY DEF NestedIn
    <2>2. Solves(in, MaxDepth)
        <3> HIDE DEF Solves
        <3> QED BY <1>3
    <2> HIDE DEF in
    <2> QED BY <2>1, <2>2
<1>5. \A n \in 0 .. MaxDepth : NestedIn[n] = In(n, NestedIn)
    <2> HIDE DEF In
    <2> QED BY <1>4
<1>6. NestedIn[0] = In(0, NestedIn) /\ \A n \in 1 .. MaxDepth : n # 0 /\ NestedIn[n] = In(n, NestedIn)
    <2> HIDE DEF In
    <2> QED BY <1>0, <1>5
<1> QED BY <1>6

LEMMA NestedMonotonic ==
    ASSUME NEW A, NEW B, A \subseteq B
    PROVE  Nested(A) \subseteq Nested(B)
<1> DEFINE Field(S) == [key : Nat, type : Types, value : S]
<1>1. Field(A) \subseteq Field(B)
    OBVIOUS
<1>2. Seq(A) \subseteq Seq(B) /\ Seq(Field(A)) \subseteq Seq(Field(B))
    <2> HIDE DEF Field
    <2> QED BY <1>1
<1>3. [1 .. 1 -> Field(A)] \subseteq [1 .. 1 -> Field(B)]
    <2> HIDE DEF Field
    <2> QED BY <1>1
<1>4. [kind : {"array"}, num : {0}, items : Seq(A)] \subseteq [kind : {"array"}, num : {0}, items : Seq(B)]
    BY <1>2
<1> HIDE DEF Field
<1>5. [kind : {"struct"}, num : {0}, items : Seq(Field(A))] \subseteq [kind : {"struct"}, num : {0}, items : Seq(Field(B))]
    BY <1>2
<1>6. [kind : {"enum"}, num : Nat, items : [1 .. 1 -> Field(A)]] \subseteq [kind : {"enum"}, num : Nat, items : [1 .. 1 -> Field(B)]]
    BY <1>3
<1> USE DEF Field
<1>7. Nested(A) = [kind : {"none", "single", "bool", "biguint", "string"}, num : Nat, items : {<<>>}]
             \cup [kind : {"bigint"}, num : Int, items : {<<>>}]
             \cup [kind : {"array"}, num : {0}, items : Seq(A)]
             \cup [kind : {"struct"}, num : {0}, items : Seq(Field(A))]
             \cup [kind : {"enum"}, num : Nat, items : [1 .. 1 -> Field(A)]]
    BY DEF Nested
<1>8. Nested(B) = [kind : {"none", "single", "bool", "biguint", "string"}, num : Nat, items : {<<>>}]
             \cup [kind : {"bigint"}, num : Int, items : {<<>>}]
             \cup [kind : {"array"}, num : {0}, items : Seq(B)]
             \cup [kind : {"struct"}, num : {0}, items : Seq(Field(B))]
             \cup [kind : {"enum"}, num : Nat, items : [1 .. 1 -> Field(B)]]
    BY DEF Nested
<1> HIDE DEF Field
<1> QED BY <1>4, <1>5, <1>6, <1>7, <1>8, Zenon

LEMMA NestedGrows ==
    \A n \in 0 .. MaxDepth : \A m \in 0 .. n : NestedIn[m] \subseteq NestedIn[n]
<1>0. MaxDepth \in Nat
    BY TypesAssumption
<1> DEFINE P == {n \in Nat : n + 1 <= MaxDepth => NestedIn[n] \subseteq NestedIn[n + 1]}
<1>1. 0 \in P
    BY NestedDef
<1>2. ASSUME NEW n \in P PROVE n + 1 \in P
    <2>1. SUFFICES ASSUME n + 1 + 1 <= MaxDepth PROVE NestedIn[n + 1] \subseteq NestedIn[n + 1 + 1]
        OBVIOUS
    <2>2. n + 1 \in 1 .. MaxDepth /\ n + 1 + 1 \in 1 .. MaxDepth /\ n + 1 - 1 = n /\ n + 1 + 1 - 1 = n + 1
        BY <1>0, <2>1
    <2>3. NestedIn[n + 1] = Nested(NestedIn[n])
        BY <2>2, NestedDef
    <2>4. NestedIn[n + 1 + 1] = Nested(NestedIn[n + 1])
        BY <2>2, NestedDef
    <2>5. NestedIn[n] \subseteq NestedIn[n + 1]
        BY <2>2
    <2> QED BY <2>3, <2>4, <2>5, NestedMonotonic
<1>3. \A n \in Nat : n + 1 <= MaxDepth => NestedIn[n] \subseteq NestedIn[n + 1]
    <2> HIDE DEF P
    <2>1. Nat \subseteq P
        BY <1>1, <1>2, CountUp
    <2> QED BY <2>1 DEF P
<1> DEFINE Q == {n \in Nat : n <= MaxDepth => \A m \in 0 .. n : NestedIn[m] \subseteq NestedIn[n]}
<1>4. 0 \in Q
    OBVIOUS
<1>5. ASSUME NEW n \in Q PROVE n + 1 \in Q
    <2>1. SUFFICES ASSUME n + 1 <= MaxDepth, NEW m \in 0 .. n + 1 PROVE NestedIn[m] \subseteq NestedIn[n + 1]
        OBVIOUS
    <2>2. CASE m = n + 1
        BY <2>2
    <2>3. CASE m # n + 1
        <3>1. m \in 0 .. n /\ n <= MaxDepth
            BY <1>0, <2>1, <2>3
        <3> QED BY <1>3, <2>1, <3>1
    <2> QED BY <2>2, <2>3
<1> HIDE DEF Q
<1>6. Nat \subseteq Q
    BY <1>4, <1>5, CountUp
<1> QED BY <1>0, <1>6 DEF Q

-----------------------------------------------------------------------------
(* Decoding the parts of a value *)

Field(n) == [key : Nat, type : Types, value : NestedIn[n]]
Outcome(n) == [some : BOOLEAN, dv : Field(n), at : Seq(Felts)]
PartsOutcome(D) == [some : BOOLEAN, dvs : Seq(D), at : Seq(Felts)]

Step(ds, m, a) ==
    [some |-> a.some /\ ds[m][a.at].some, dvs |-> Append(a.dvs, ds[m][a.at].dv), at |-> ds[m][a.at].at]
Reads(ds, data, upto) ==
    /\ upto[0] = [some |-> TRUE, dvs |-> <<>>, at |-> data]
    /\ \A m \in 1 .. Len(ds) : upto[m] = Step(ds, m, upto[m - 1])
    /\ upto[Len(ds)] = DecodeParts(ds, data)

\* DecodeParts goes on from part to part, also after one that cannot be read.
LEMMA PartsRead ==
    ASSUME NEW D, NEW data \in Seq(Felts),
           NEW ds \in Seq([Seq(Felts) -> [some : BOOLEAN, dv : D, at : Seq(Felts)]])
    PROVE  \E upto \in [0 .. Len(ds) -> PartsOutcome(D)] : Reads(ds, data, upto)
<1> DEFINE n == Len(ds)
           first == [some |-> TRUE, dvs |-> <<>>, at |-> data]
           Upto(m, f) == IF m = 0 THEN first ELSE Step(ds, m, f[m - 1])
           Solves(f, k) == f = [m \in 0 .. k |-> Upto(m, f)]
           P == {k \in Nat : \E f : Solves(f, k)}
<1>0. n \in Nat
    OBVIOUS
<1>1. 0 \in P
    <2> DEFINE f == [m \in 0 .. 0 |-> first]
    <2>1. Solves(f, 0)
        OBVIOUS
    <2> QED BY <2>1
<1>2. ASSUME NEW k \in P PROVE k + 1 \in P
    <2>1. PICK g : Solves(g, k)
        OBVIOUS
    <2> DEFINE f == [m \in 0 .. k + 1 |-> Upto(m, g)]
    <2> HIDE DEF first
    <2>2. ASSUME NEW m \in 0 .. k + 1, m # 0 PROVE f[m - 1] = g[m - 1]
        <3>1. m - 1 \in 0 .. k /\ m - 1 \in 0 .. k + 1
            BY <2>2
        <3>2. f[m - 1] = Upto(m - 1, g)
            BY <3>1
        <3>3. g[m - 1] = Upto(m - 1, g)
            BY <2>1, <3>1
        <3> QED BY <3>2, <3>3
    <2>3. ASSUME NEW m \in 0 .. k + 1 PROVE Upto(m, f) = Upto(m, g)
        <3> HIDE DEF f
        <3> QED BY <2>2
    <2>4. Solves(f, k + 1)
        <3> HIDE DEF Upto
        <3> QED BY <2>3
    <2> HIDE DEF f, Solves
    <2> QED BY <2>4
<1>3. PICK g : Solves(g, n)
    <2> HIDE DEF P
    <2>1. Nat \subseteq P
        BY <1>1, <1>2, CountUp
    <2> QED BY <1>0, <2>1 DEF P
<1> DEFINE upto == CHOOSE f : Solves(f, n)
<1>4. Solves(upto, n)
    <2> HIDE DEF Solves
    <2> QED BY <1>3
<1>5. DecodeParts(ds, data) = upto[n]
    BY DEF DecodeParts, Step
<1> HIDE DEF upto
<1>6. \A m \in 0 .. n : upto[m] = Upto(m, upto)
    <2> HIDE DEF Upto, n
    <2> QED BY <1>4
<1>7. upto[0] = first /\ \A m \in 1 .. n : upto[m] = Step(ds, m, upto[m - 1])
    <2>1. upto[0] = Upto(0, upto) /\ \A m \in 1 .. n : upto[m] = Upto(m, upto) /\ m # 0
        <3> HIDE DEF Upto
        <3> QED BY <1>0, <1>6
    <2> HIDE DEF n, first
    <2> QED BY <2>1
<1>8. \A m \in Nat : m <= n => upto[m] \in PartsOutcome(D)
    <2> DEFINE Q == {m \in Nat : m <= n => upto[m] \in PartsOutcome(D)}
    <2>1. 0 \in Q
        <3>1. first \in PartsOutcome(D)
            BY DEF PartsOutcome
        <3> HIDE DEF first
        <3> QED BY <1>7, <3>1
    <2>2. ASSUME NEW k \in Q PROVE k + 1 \in Q
        <3>1. SUFFICES ASSUME k + 1 <= n PROVE upto[k + 1] \in PartsOutcome(D)
            OBVIOUS
        <3>2. PICK m \in 1 .. n : m = k + 1
            BY <1>0, <3>1
        <3>3. upto[m] = Step(ds, m, upto[m - 1])
            BY <1>7
        <3>4. PICK a \in PartsOutcome(D) : a = upto[m - 1]
            BY <1>0, <3>2
        <3>5. PICK r \in [some : BOOLEAN, dv : D, at : Seq(Felts)] : r = ds[m][a.at]
            <4>1. a.at \in Seq(Felts)
                BY DEF PartsOutcome
            <4>2. ds[m] \in [Seq(Felts) -> [some : BOOLEAN, dv : D, at : Seq(Felts)]]
                OBVIOUS
            <4> HIDE DEF n
            <4> QED BY <4>1, <4>2
        <3>6. Step(ds, m, a) = [some |-> a.some /\ r.some, dvs |-> Append(a.dvs, r.dv), at |-> r.at]
            BY <3>5 DEF Step
        <3>7. Append(a.dvs, r.dv) \in Seq(D) /\ r.at \in Seq(Felts)
            BY DEF PartsOutcome
        <3>8. (a.some /\ r.some) \in BOOLEAN
            OBVIOUS
        <3>9. Step(ds, m, a) \in PartsOutcome(D)
            BY <3>6, <3>7, <3>8 DEF PartsOutcome
        <3> QED BY <3>2, <3>3, <3>4, <3>9
    <2> HIDE DEF Q
    <2>3. Nat \subseteq Q
        BY <2>1, <2>2, CountUp
    <2> QED BY <2>3 DEF Q
<1>9. upto \in [0 .. n -> PartsOutcome(D)]
    <2>1. upto = [m \in 0 .. n |-> upto[m]]
        <3> HIDE DEF Upto
        <3> QED BY <1>4
    <2>2. \A m \in 0 .. n : upto[m] \in PartsOutcome(D)
        BY <1>0, <1>8
    <2> HIDE DEF n
    <2> QED BY <2>1, <2>2
<1> QED BY <1>5, <1>7, <1>9 DEF Reads

-----------------------------------------------------------------------------
(* The type of what is decoded *)

LeafKinds == {"none", "single", "bool", "biguint", "string"}

\* The values that nest less than n + 1 deep are made of those less than n deep.
LEMMA NestedHas ==
    ASSUME NEW n \in Nat, n + 1 <= MaxDepth
    PROVE  /\ \A k \in LeafKinds, x \in Nat : V(k, x, <<>>) \in NestedIn[n + 1]
           /\ \A x \in Int : V("bigint", x, <<>>) \in NestedIn[n + 1]
           /\ \A s \in Seq(NestedIn[n]) : V("array", 0, s) \in NestedIn[n + 1]
           /\ \A s \in Seq(Field(n)) : V("struct", 0, s) \in NestedIn[n + 1]
           /\ \A x \in Nat, f \in Field(n) : V("enum", x, <<f>>) \in NestedIn[n + 1]
<1>1. NestedIn[n + 1] = Nested(NestedIn[n])
    <2>1. n + 1 \in 1 .. MaxDepth /\ n + 1 - 1 = n
        BY TypesAssumption
    <2> QED BY <2>1, NestedDef
<1>2. \A k \in LeafKinds, x \in Nat : V(k, x, <<>>) \in Nested(NestedIn[n])
    BY DEF V, Nested, LeafKinds
<1>3. \A x \in Int : V("bigint", x, <<>>) \in Nested(NestedIn[n])
    BY DEF V, Nested
<1>4. \A s \in Seq(NestedIn[n]) : V("array", 0, s) \in Nested(NestedIn[n])
    BY DEF V, Nested
<1>5. \A s \in Seq(Field(n)) : V("struct", 0, s) \in Nested(NestedIn[n])
    BY DEF V, Nested, Field
<1>6. ASSUME NEW x \in Nat, NEW f \in Field(n) PROVE V("enum", x, <<f>>) \in Nested(NestedIn[n])
    <2>1. <<f>> \in [1 .. 1 -> Field(n)]
        OBVIOUS
    <2> QED BY <2>1 DEF V, Nested, Field
<1> QED BY <1>1, <1>2, <1>3, <1>4, <1>5, <1>6

LEMMA Single1 ==
    ASSUME NEW S, NEW s \in [1 .. 1 -> S]
    PROVE  s \in Seq(S) /\ Len(s) = 1
<1>1. s \in Seq(S)
    BY SeqDef
<1> QED BY <1>1, LenProperties

\* What is known of a value that nests less than n deep.
LEMMA NestedIs ==
    ASSUME NEW n \in 0 .. MaxDepth, NEW v \in NestedIn[n]
    PROVE  /\ v = V(v.kind, v.num, v.items)
           /\ v.kind \in LeafKinds \cup {"bigint", "array", "struct", "enum"}
           /\ v.kind # "bigint" => v.num \in Nat
           /\ v.num \in Int
           /\ v.kind \in LeafKinds \cup {"bigint"} => v.items = <<>>
           /\ v.kind = "array" => v.items \in Seq(NestedIn[n])
           /\ v.kind \in {"struct", "enum"} => v.items \in Seq(Field(n))
           /\ v.kind = "enum" => Len(v.items) = 1
           /\ n \in 1 .. MaxDepth
           /\ \A i \in DOMAIN v.items : Item(v, i) \in NestedIn[n - 1]
<1>1. n \in 1 .. MaxDepth
    BY NestedDef
<1>2. v \in Nested(NestedIn[n - 1])
    BY <1>1, NestedDef
<1>3. n - 1 \in 0 .. n /\ n \in 0 .. MaxDepth
    BY <1>1
<1>4. NestedIn[n - 1] \subseteq NestedIn[n]
    BY <1>3, NestedGrows
<1>5. CASE v \in [kind : LeafKinds, num : Nat, items : {<<>>}]
    BY <1>1, <1>5 DEF V, LeafKinds
<1>6. CASE v \in [kind : {"bigint"}, num : Int, items : {<<>>}]
    BY <1>1, <1>6 DEF V, LeafKinds
<1>7. CASE v \in [kind : {"array"}, num : {0}, items : Seq(NestedIn[n - 1])]
    <2>1. v.items \in Seq(NestedIn[n]) /\ \A i \in DOMAIN v.items : v.items[i] \in NestedIn[n - 1]
        BY <1>4, <1>7
    <2> QED BY <1>1, <1>7, <2>1 DEF V, LeafKinds, Item
<1>8. CASE v \in [kind : {"struct"}, num : {0}, items : Seq(Field(n - 1))]
    <2>1. Field(n - 1) \subseteq Field(n)
        BY <1>4 DEF Field
    <2>2. v.items \in Seq(Field(n)) /\ \A i \in DOMAIN v.items : v.items[i] \in Field(n - 1)
        BY <2>1, <1>8
    <2>3. \A i \in DOMAIN v.items : v.items[i].value \in NestedIn[n - 1]
        BY <2>2 DEF Field
    <2> QED BY <1>1, <1>8, <2>2, <2>3 DEF V, LeafKinds, Item
<1>9. CASE v \in [kind : {"enum"}, num : Nat, items : [1 .. 1 -> Field(n - 1)]]
    <2>1. Field(n - 1) \subseteq Field(n)
        BY <1>4 DEF Field
    <2>2. v.items \in Seq(Field(n)) /\ Len(v.items) = 1 /\ \A i \in DOMAIN v.items : v.items[i] \in Field(n - 1)
        <3>1. v.items \in [1 .. 1 -> Field(n - 1)]
            BY <1>9
        <3>2. v.items \in [1 .. 1 -> Field(n)]
            BY <2>1, <3>1
        <3> HIDE DEF Field
        <3>3. v.items \in Seq(Field(n)) /\ Len(v.items) = 1
            BY <3>2, Single1
        <3> QED BY <3>1, <3>3
    <2>3. \A i \in DOMAIN v.items : v.items[i].value \in NestedIn[n - 1]
        BY <2>2 DEF Field
    <2> QED BY <1>1, <1>9, <2>2, <2>3 DEF V, LeafKinds, Item
<1> QED BY <1>2, <1>5, <1>6, <1>7, <1>8, <1>9 DEF Nested, Field, LeafKinds

LEMMA FieldsGrow ==
    ASSUME NEW n \in 0 .. MaxDepth, NEW m \in 0 .. n
    PROVE  Field(m) \subseteq Field(n) /\ Outcome(m) \subseteq Outcome(n)
BY NestedGrows DEF Field, Outcome

LEMMA LimbsType ==
    ASSUME NEW n \in 0 .. MaxDepth, NEW v \in NestedIn[n], IsLimbs(v)
    PROVE  FromLimbs(v) \in Nat
<1>1. v.items \in Seq(Field(n)) /\ Len(v.items) = 2 /\ DOMAIN v.items = 1 .. 2
    <2>1. v.items \in Seq(Field(n))
        BY NestedIs DEF IsLimbs
    <2> DEFINE keys == [i \in DOMAIN v.items |-> v.items[i].key]
    <2>2. keys = <<0, 1>>
        BY DEF IsLimbs
    <2>3. DOMAIN keys = DOMAIN v.items
        OBVIOUS
    <2> HIDE DEF keys
    <2>4. DOMAIN keys = 1 .. 2
        BY <2>2
    <2>5. PICK len \in Nat : len = Len(v.items) /\ DOMAIN v.items = 1 .. len
        BY <2>1
    <2>6. 1 .. len = 1 .. 2
        BY <2>3, <2>4, <2>5, Zenon
    <2>7. 2 \in 1 .. len /\ 3 \notin 1 .. len
        BY <2>6
    <2>8. len = 2
        BY <2>7
    <2> QED BY <2>1, <2>5, <2>6, <2>8
<1>2. \A i \in 1 .. 2 : v.items[i].value \in NestedIn[n] /\ v.items[i].value.kind = "biguint"
    <2>1. \A i \in DOMAIN v.items : v.items[i] \in Field(n) /\ v.items[i].value.kind = "biguint"
        BY <1>1 DEF IsLimbs
    <2> QED BY <1>1, <2>1 DEF Field
<1>3. PICK low \in Nat : low = v.items[1].value.num
    BY <1>2, NestedIs
<1>4. PICK high \in Nat : high = v.items[2].value.num
    BY <1>2, NestedIs
<1>5. FromLimbs(v) = IF low < Word THEN low + Word * high
                     ELSE (low % Word) + Word * BitOr(high, low \div Word)
    BY <1>3, <1>4 DEF FromLimbs
<1>6. PICK w \in Nat : w = Word
    BY FieldAssumption
<1>7. w > 0
    BY <1>6, FieldAssumption
<1>8. w * high \in Nat
    OBVIOUS
<1>9. PICK r \in Nat : r = low % w
    BY <1>7, Remainder
<1>10. PICK q \in Nat : q = low \div w
    BY <1>7, Remainder
<1>11. PICK b \in Nat : b = BitOr(high, q)
    BY BitOrType
<1>12. w * b \in Nat
    OBVIOUS
<1>13. low + w * high \in Nat /\ r + w * b \in Nat
    BY <1>8, <1>12
<1>14. FromLimbs(v) = IF low < w THEN low + w * high ELSE r + w * b
    BY <1>5, <1>6, <1>9, <1>10, <1>11
<1> QED BY <1>13, <1>14

LEMMA CreatedType ==
    ASSUME NEW n \in Nat, n + 1 <= MaxDepth, NEW t \in Types, NEW v \in NestedIn[n + 1]
    PROVE  create_decoded_value_by_type(t, v) \in Field(n + 1)
<1>0. n + 1 \in 0 .. MaxDepth
    BY TypesAssumption
<1>1. ASSUME NEW w \in NestedIn[n + 1] PROVE Decoded(t, w) \in Field(n + 1)
    BY DEF Decoded, Field
<1>2. v.kind = "single" => v.num \in Nat
    BY <1>0, NestedIs
<1>3. CASE t.k = "bool" /\ v.kind = "single"
    <2>1. (IF v.num # 0 THEN 1 ELSE 0) \in Nat
        OBVIOUS
    <2>2. V("bool", IF v.num # 0 THEN 1 ELSE 0, <<>>) \in NestedIn[n + 1]
        BY <2>1, NestedHas DEF LeafKinds
    <2> QED BY <1>1, <1>3, <2>2 DEF create_decoded_value_by_type
<1>4. CASE t.k = "uint" /\ v.kind = "single"
    <2>1. V("biguint", v.num, <<>>) \in NestedIn[n + 1]
        BY <1>2, <1>4, NestedHas DEF LeafKinds
    <2> QED BY <1>1, <1>4, <2>1 DEF create_decoded_value_by_type
<1>5. CASE t.k = "int" /\ v.kind = "single"
    <2>1. v.num - Prime \in Int
        BY <1>2, <1>5, FieldAssumption
    <2>2. V("bigint", v.num - Prime, <<>>) \in NestedIn[n + 1]
        BY <2>1, NestedHas
    <2> QED BY <1>1, <1>5, <2>2 DEF create_decoded_value_by_type
<1>6. CASE t.k = "u256" /\ IsLimbs(v)
    <2>1. FromLimbs(v) \in Nat
        BY <1>0, <1>6, LimbsType
    <2>2. V("biguint", FromLimbs(v), <<>>) \in NestedIn[n + 1]
        BY <2>1, NestedHas DEF LeafKinds
    <2> QED BY <1>1, <1>6, <2>2 DEF create_decoded_value_by_type
<1>7. CASE /\ ~(t.k = "bool" /\ v.kind = "single") /\ ~(t.k = "uint" /\ v.kind = "single")
           /\ ~(t.k = "int" /\ v.kind = "single") /\ ~(t.k = "u256" /\ IsLimbs(v))
    <2>1. create_decoded_value_by_type(t, v) = Decoded(t, v)
        BY <1>7 DEF create_decoded_value_by_type
    <2> QED BY <1>1, <2>1
<1> QED BY <1>3, <1>4, <1>5, <1>6, <1>7

LEMMA FailsType ==
    ASSUME NEW n \in Nat, n + 1 <= MaxDepth, NEW at \in Seq(Felts)
    PROVE  Fails(at) \in Outcome(n + 1)
<1>1. V("none", 0, <<>>) \in NestedIn[n + 1]
    BY NestedHas DEF LeafKinds
<1>2. Unknown \in Types
    BY TypesAssumption
<1> QED BY <1>1, <1>2 DEF Fails, Result, Decoded, Outcome, Field

LEMMA WholeType ==
    ASSUME NEW n \in Nat, n + 1 <= MaxDepth, NEW t \in Types, NEW kind \in {"array", "struct"},
           NEW ps \in PartsOutcome(Field(n))
    PROVE  Whole(t, kind, ps) \in Outcome(n + 1)
<1>1. ps.some \in BOOLEAN /\ ps.dvs \in Seq(Field(n)) /\ ps.at \in Seq(Felts)
    BY DEF PartsOutcome
<1>2. CASE ~ps.some
    BY <1>1, <1>2, FailsType DEF Whole
<1>3. CASE ps.some
    <2> DEFINE items == IF kind = "array" THEN Values(ps.dvs) ELSE Keyed(ps.dvs, 0)
    <2>1. ASSUME kind = "array" PROVE V(kind, 0, items) \in NestedIn[n + 1]
        <3>1. ASSUME NEW i \in DOMAIN ps.dvs PROVE ps.dvs[i].value \in NestedIn[n]
            <4>1. ps.dvs[i] \in Field(n)
                BY <1>1
            <4> QED BY <4>1 DEF Field
        <3>2. Values(ps.dvs) \in Seq(NestedIn[n])
            <4>1. DOMAIN ps.dvs = 1 .. Len(ps.dvs) /\ Len(ps.dvs) \in Nat
                BY <1>1
            <4>2. Values(ps.dvs) \in [1 .. Len(ps.dvs) -> NestedIn[n]]
                BY <3>1, <4>1 DEF Values
            <4> QED BY <4>1, <4>2
        <3> QED BY <2>1, <3>2, NestedHas
    <2>2. ASSUME kind = "struct" PROVE V(kind, 0, items) \in NestedIn[n + 1]
        <3>1. ASSUME NEW i \in DOMAIN ps.dvs
              PROVE  [ps.dvs[i] EXCEPT !.key = 0 + i - 1] \in Field(n)
            <4>1. ps.dvs[i] \in Field(n) /\ 0 + i - 1 \in Nat
                BY <1>1
            <4> QED BY <4>1 DEF Field
        <3>2. Keyed(ps.dvs, 0) \in Seq(Field(n))
            <4>1. DOMAIN ps.dvs = 1 .. Len(ps.dvs) /\ Len(ps.dvs) \in Nat
                BY <1>1
            <4>2. Keyed(ps.dvs, 0) \in [1 .. Len(ps.dvs) -> Field(n)]
                BY <3>1, <4>1 DEF Keyed
            <4> QED BY <4>1, <4>2
        <3> QED BY <2>2, <3>2, NestedHas
    <2> HIDE DEF items
    <2>3. create_decoded_value_by_type(t, V(kind, 0, items)) \in Field(n + 1)
        BY <2>1, <2>2, CreatedType
    <2>4. Whole(t, kind, ps) = Result(TRUE, create_decoded_value_by_type(t, V(kind, 0, items)), ps.at)
        BY <1>3 DEF Whole, items
    <2> QED BY <1>1, <2>3, <2>4 DEF Result, Outcome
<1> QED BY <1>1, <1>2, <1>3

\* What is said of a type and its parts by TypesAssumption.
LEMMA TypeIs ==
    ASSUME NEW t \in Types
    PROVE  /\ t.k \in Kinds /\ t.of \in Seq(Types) /\ t.n \in Nat /\ Len(t.of) <= Prime
           /\ Depth[t] \in Nat /\ Depth[t] + 1 <= MaxDepth /\ Depth[t] + 1 \in 0 .. MaxDepth
           /\ t.k \in {"array", "fixed"} => Len(t.of) = 1
           /\ t.k = "u256" => t.of = <<UInt, UInt>>
           /\ \A i \in DOMAIN t.of : t.of[i] \in Types /\ Depth[t.of[i]] + 1 \in 0 .. Depth[t]
<1>1. t.k \in Kinds /\ t.of \in Seq(Types) /\ t.n \in Nat /\ Len(t.of) <= Prime
    BY TypesAssumption
<1>2. Depth[t] \in Nat /\ Depth[t] + 1 <= MaxDepth /\ Depth[t] + 1 \in 0 .. MaxDepth
    BY TypesAssumption
<1>3. t.k \in {"array", "fixed"} => Len(t.of) = 1
    BY TypesAssumption DEF IsType
<1>4. t.k = "u256" => t.of = <<UInt, UInt>>
    BY TypesAssumption DEF IsType
<1>5. ASSUME NEW i \in DOMAIN t.of PROVE t.of[i] \in Types /\ Depth[t.of[i]] + 1 \in 0 .. Depth[t]
    <2>1. t.of[i] \in Types /\ Depth[t.of[i]] < Depth[t]
        BY <1>1, TypesAssumption
    <2>2. Depth[t.of[i]] \in Nat
        BY <2>1, TypesAssumption
    <2> QED BY <1>2, <2>1, <2>2
<1> QED BY <1>1, <1>2, <1>3, <1>4, <1>5

\* As many parts as there are members or elements, all of one set.
LEMMA PartsType ==
    ASSUME NEW t \in Types, NEW S, NEW parts \in Seq(S), Len(parts) = Len(t.of)
    PROVE  /\ MembersOf(t, parts) \in Seq(S)
           /\ t.k = "array" => \A n \in Nat : Copies(parts[1], n) \in Seq(S) /\ Len(Copies(parts[1], n)) = n
<1>1. t.k \in {"array", "fixed"} => parts[1] \in S
    BY TypeIs
<1>2. ASSUME t.k \in {"array", "fixed"}, NEW n \in Nat
      PROVE  [i \in 1 .. n |-> parts[1]] \in Seq(S) /\ Len([i \in 1 .. n |-> parts[1]]) = n
    <2>1. [i \in 1 .. n |-> parts[1]] \in [1 .. n -> S]
        BY <1>1, <1>2
    <2> QED BY <2>1, SeqDef, LenProperties
<1>3. t.n \in Nat
    BY TypeIs
<1>4. MembersOf(t, parts) \in Seq(S)
    BY <1>2, <1>3 DEF MembersOf
<1>5. ASSUME t.k = "array", NEW n \in Nat
      PROVE  Copies(parts[1], n) \in Seq(S) /\ Len(Copies(parts[1], n)) = n
    BY <1>2, <1>5 DEF Copies
<1> QED BY <1>4, <1>5

LEMMA VariantType ==
    ASSUME NEW n \in Nat, n + 1 <= MaxDepth, NEW t \in Types, NEW i \in Nat, NEW data \in Seq(Felts),
           NEW parts \in Seq([Seq(Felts) -> Outcome(n)]), Len(parts) = Len(t.of)
    PROVE  Variant(t, parts, i, data) \in Outcome(n + 1)
<1>0. Unknown \in Types /\ n \in 0 .. n + 1 /\ n + 1 \in 0 .. MaxDepth
    BY TypesAssumption
<1>1. ASSUME NEW w \in NestedIn[n + 1], NEW at \in Seq(Felts)
      PROVE  Result(TRUE, Decoded(t, w), at) \in Outcome(n + 1)
    BY DEF Result, Decoded, Outcome, Field
<1>2. CASE i >= Len(t.of)
    BY <1>2, FailsType DEF Variant
<1>3. CASE i < Len(t.of) /\ t.of[i + 1].k = "unit"
    <2>1. ~(i >= Len(t.of))
        BY <1>3, TypeIs
    <2> DEFINE name == Decoded(Unknown, V("string", i, <<>>))
    <2>2. Variant(t, parts, i, data) = Result(TRUE, Decoded(t, V("enum", i, <<name>>)), data)
        BY <1>3, <2>1 DEF Variant
    <2>3. name \in Field(n)
        <3>1. n # 0
            <4>1. i + 1 \in DOMAIN t.of
                BY <1>3, TypeIs
            <4>2. parts[i + 1] \in [Seq(Felts) -> Outcome(n)]
                BY <1>3, TypeIs
            <4>3. parts[i + 1][data].dv.value \in NestedIn[n]
                BY <4>2 DEF Outcome, Field
            <4> QED BY <4>3, NestedDef
        <3>2. PICK m \in Nat : n = m + 1
            BY <3>1
        <3>3. V("string", i, <<>>) \in NestedIn[m + 1]
            <4>1. m + 1 <= MaxDepth
                BY <3>2, TypesAssumption
            <4> QED BY <4>1, NestedHas DEF LeafKinds
        <3> QED BY <1>0, <3>2, <3>3 DEF Decoded, Field
    <2> HIDE DEF name
    <2>4. V("enum", i, <<name>>) \in NestedIn[n + 1]
        BY <2>3, NestedHas
    <2> QED BY <1>1, <2>2, <2>4
<1>4. CASE i < Len(t.of) /\ t.of[i + 1].k # "unit"
    <2>1. PICK r \in Outcome(n) : r = parts[i + 1][data]
        <3>1. i + 1 \in 1 .. Len(parts)
            BY <1>4, TypeIs
        <3> QED BY <3>1
    <2>2. Variant(t, parts, i, data) =
            IF r.some THEN Result(TRUE, Decoded(t, V("enum", i, <<r.dv>>)), r.at) ELSE r
        <3>1. ~(i >= Len(t.of))
            BY <1>4, TypeIs
        <3> QED BY <1>4, <2>1, <3>1 DEF Variant
    <2>3. r \in Outcome(n + 1)
        BY <1>0, FieldsGrow
    <2>4. r.dv \in Field(n) /\ r.at \in Seq(Felts)
        BY DEF Outcome
    <2>5. V("enum", i, <<r.dv>>) \in NestedIn[n + 1]
        BY <2>4, NestedHas
    <2>6. Result(TRUE, Decoded(t, V("enum", i, <<r.dv>>)), r.at) \in Outcome(n + 1)
        BY <1>1, <2>4, <2>5
    <2> QED BY <2>2, <2>3, <2>6
<1> QED BY <1>2, <1>3, <1>4, TypeIs

\* One level of the decoder returns what nests one level deeper than its parts.
LEMMA DecoderType ==
    ASSUME NEW n \in Nat, n + 1 <= MaxDepth, NEW t \in Types, 
           NEW parts \in Seq([Seq(Felts) -> Outcome(n)]), Len(parts) = Len(t.of)
    PROVE  DecoderOf(t, parts) \in [Seq(Felts) -> Outcome(n + 1)]
<1> SUFFICES ASSUME NEW data \in Seq(Felts) PROVE DecoderOf(t, parts)[data] \in Outcome(n + 1)
    BY DEF DecoderOf
<1>0. Outcome(n) = [some : BOOLEAN, dv : Field(n), at : Seq(Felts)]
    BY DEF Outcome
<1>1. ASSUME NEW ds \in Seq([Seq(Felts) -> Outcome(n)]), NEW rest \in Seq(Felts)
      PROVE  DecodeParts(ds, rest) \in PartsOutcome(Field(n))
    <2>1. PICK upto \in [0 .. Len(ds) -> PartsOutcome(Field(n))] : Reads(ds, rest, upto)
        BY <1>0, PartsRead
    <2>2. Len(ds) \in 0 .. Len(ds)
        OBVIOUS
    <2> QED BY <2>1, <2>2 DEF Reads
<1>2. CASE CannotRead(t, data)
    BY <1>2, FailsType DEF DecoderOf
<1> DEFINE Read == ~CannotRead(t, data)
<1>3. ASSUME data # <<>>
      PROVE  data[1] \in Nat /\ Tail(data) \in Seq(Felts)
    BY <1>3, FieldAssumption DEF Felts
<1>4. CASE Read /\ t.k = "array"
    <2>1. data # <<>>
        BY <1>4 DEF CannotRead
    <2> DEFINE ps == DecodeParts(Copies(parts[1], data[1]), Tail(data))
    <2>2. DecoderOf(t, parts)[data] = Whole(t, "array", ps)
        BY <1>4 DEF DecoderOf
    <2>3. ps \in PartsOutcome(Field(n))
        BY <1>1, <1>3, <1>4, <2>1, PartsType
    <2> HIDE DEF ps
    <2> QED BY <2>2, <2>3, WholeType
<1>5. CASE Read /\ t.k \in {"fixed", "tuple"}
    <2> DEFINE ps == DecodeParts(MembersOf(t, parts), data)
    <2>2. DecoderOf(t, parts)[data] = Whole(t, "array", ps)
        BY <1>5 DEF DecoderOf
    <2>3. ps \in PartsOutcome(Field(n))
        BY <1>1, PartsType
    <2> HIDE DEF ps
    <2> QED BY <2>2, <2>3, WholeType
<1>6. CASE Read /\ t.k \in {"struct", "u256"}
    <2> DEFINE ps == DecodeParts(parts, data)
    <2>2. DecoderOf(t, parts)[data] = Whole(t, "struct", ps)
        BY <1>6 DEF DecoderOf
    <2>3. ps \in PartsOutcome(Field(n))
        BY <1>1
    <2> HIDE DEF ps
    <2> QED BY <2>2, <2>3, WholeType
<1>7. CASE Read /\ t.k = "enum"
    <2>1. data # <<>>
        BY <1>7 DEF CannotRead
    <2>2. DecoderOf(t, parts)[data] = Variant(t, parts, data[1], Tail(data))
        BY <1>7 DEF DecoderOf
    <2> QED BY <1>3, <2>1, <2>2, VariantType
<1>8. CASE Read /\ t.k \in {"felt", "uint", "int", "bool"}
    <2>1. data # <<>>
        BY <1>8 DEF CannotRead
    <2>2. DecoderOf(t, parts)[data] = Result(TRUE, create_decoded_value_by_type(t, Single(data[1])), Tail(data))
        BY <1>8 DEF DecoderOf
    <2>3. Single(data[1]) \in NestedIn[n + 1]
        BY <1>3, <2>1, NestedHas DEF Single, LeafKinds
    <2>4. create_decoded_value_by_type(t, Single(data[1])) \in Field(n + 1)
        BY <2>3, CreatedType
    <2> QED BY <1>3, <2>1, <2>2, <2>4 DEF Result, Outcome
<1>9. t.k \in Kinds /\ (Read => t.k \notin {"unit", "unknown"})
    BY TypeIs DEF CannotRead
<1> QED BY <1>2, <1>4, <1>5, <1>6, <1>7, <1>8, <1>9 DEF Kinds

\* Whatever the calldata is, what is decoded is a value that nests no deeper than its type.
LEMMA DecodedType ==
    ASSUME NEW t \in Types
    PROVE  decode_type[t] \in [Seq(Felts) -> Outcome(Depth[t] + 1)]
<1> DEFINE P == {u \in Types : decode_type[u] \in [Seq(Felts) -> Outcome(Depth[u] + 1)]}
<1>1. ASSUME NEW u \in Types, \A i \in DOMAIN u.of : u.of[i] \in P PROVE u \in P
    <2> DEFINE n == Depth[u]
               parts == [i \in DOMAIN u.of |-> decode_type[u.of[i]]]
    <2>1. n \in Nat /\ n + 1 <= MaxDepth /\ n + 1 \in 0 .. MaxDepth /\ n \in 0 .. MaxDepth
        <3>1. n \in Nat /\ n + 1 <= MaxDepth /\ n + 1 \in 0 .. MaxDepth
            BY TypeIs
        <3>2. MaxDepth \in Nat
            BY TypesAssumption
        <3> HIDE DEF n
        <3> QED BY <3>1, <3>2
    <2>2. ASSUME NEW i \in DOMAIN u.of PROVE decode_type[u.of[i]] \in [Seq(Felts) -> Outcome(n)]
        <3>1. decode_type[u.of[i]] \in [Seq(Felts) -> Outcome(Depth[u.of[i]] + 1)]
            BY <1>1
        <3>2. PICK m \in 0 .. n : m = Depth[u.of[i]] + 1
            BY TypeIs
        <3>3. Outcome(m) \subseteq Outcome(n)
            BY <2>1, FieldsGrow
        <3> QED BY <3>1, <3>2, <3>3
    <2>3. parts \in Seq([Seq(Felts) -> Outcome(n)]) /\ Len(parts) = Len(u.of)
        <3>1. DOMAIN u.of = 1 .. Len(u.of) /\ Len(u.of) \in Nat
            BY TypeIs
        <3>2. parts \in [1 .. Len(u.of) -> [Seq(Felts) -> Outcome(n)]]
            BY <2>2, <3>1
        <3> HIDE DEF parts, n
        <3> QED BY <3>1, <3>2, SeqDef, LenProperties
    <2>4. decode_type[u] = DecoderOf(u, parts)
        BY DecodeTypeDef
    <2> HIDE DEF parts
    <2> QED BY <2>1, <2>3, <2>4, DecoderType
<1> HIDE DEF P
<1>2. Types \subseteq P
    BY <1>1, TypeInduction
<1> QED BY <1>2 DEF P

-----------------------------------------------------------------------------
(* Values, and how Cairo writes them *)

Listed == {"array", "unit", "fixed", "tuple", "struct"}
ItemTypes(t, v) == IF t.k = "array" THEN Copies(t.of[1], Len(v.list)) ELSE Members(t)

LEMMA MembersAre ==
    ASSUME NEW t \in Types
    PROVE  /\ Members(t) \in Seq(Types)
           /\ \A i \in DOMAIN Members(t) : \E j \in DOMAIN t.of : Members(t)[i] = t.of[j]
<1>1. Members(t) \in Seq(Types)
    BY TypeIs, PartsType DEF Members
<1>2. ASSUME NEW i \in DOMAIN Members(t) PROVE \E j \in DOMAIN t.of : Members(t)[i] = t.of[j]
    <2>1. CASE t.k = "fixed"
        <3>1. 1 \in DOMAIN t.of
            BY <2>1, TypeIs
        <3>2. Members(t) = [j \in 1 .. t.n |-> t.of[1]]
            BY <2>1 DEF Members, MembersOf
        <3>3. Members(t)[i] = t.of[1]
            BY <3>2
        <3> QED BY <3>1, <3>3
    <2>2. CASE t.k # "fixed"
        BY <2>2 DEF Members, MembersOf
    <2> QED BY <2>1, <2>2
<1> QED BY <1>1, <1>2

\* What a function does to the members is what it does to the parts.
LEMMA MembersApply ==
    ASSUME NEW t \in Types, NEW F
    PROVE  MembersOf(t, [j \in DOMAIN t.of |-> F[t.of[j]]]) = [i \in DOMAIN Members(t) |-> F[Members(t)[i]]]
<1>1. CASE t.k = "fixed"
    <2>1. 1 \in DOMAIN t.of
        BY <1>1, TypeIs
    <2>2. Members(t) = [i \in 1 .. t.n |-> t.of[1]]
        BY <1>1 DEF Members, MembersOf
    <2>3. DOMAIN Members(t) = 1 .. t.n /\ \A i \in 1 .. t.n : Members(t)[i] = t.of[1]
        BY <2>2
    <2>4. MembersOf(t, [j \in DOMAIN t.of |-> F[t.of[j]]]) = [i \in 1 .. t.n |-> F[t.of[1]]]
        BY <1>1, <2>1 DEF MembersOf
    <2> QED BY <2>3, <2>4
<1>2. CASE t.k # "fixed"
    BY <1>2 DEF Members, MembersOf
<1> QED BY <1>1, <1>2

\* The values in a list are of the types of its items.
LEMMA ItemsAre ==
    ASSUME NEW t \in Types, NEW v \in ValuesOf[t], t.k \in Listed
    PROVE  /\ ItemTypes(t, v) \in Seq(Types) /\ Len(v.list) \in Nat
           /\ DOMAIN v.list = 1 .. Len(v.list) /\ DOMAIN ItemTypes(t, v) = 1 .. Len(v.list)
           /\ Len(ItemTypes(t, v)) = Len(v.list)
           /\ v = List(v.list)
           /\ t.k = "array" => Len(v.list) <= MaxArray
           /\ \A i \in 1 .. Len(v.list) : /\ \E j \in DOMAIN t.of : ItemTypes(t, v)[i] = t.of[j]
                                          /\ v.list[i] \in ValuesOf[ItemTypes(t, v)[i]]
<1>1. IsValue(t, v)
    BY ValuesAssumption
<1>2. CASE t.k = "array"
    <2>1. v = List(v.list) /\ v.list \in Seq(ValuesOf[t.of[1]]) /\ Len(v.list) <= MaxArray
        BY <1>1, <1>2 DEF IsValue
    <2>2. PICK n \in Nat : n = Len(v.list) /\ DOMAIN v.list = 1 .. n
        BY <2>1
    <2>3. ItemTypes(t, v) = [i \in 1 .. n |-> t.of[1]]
        BY <1>2, <2>2 DEF ItemTypes, Copies
    <2>4. 1 \in DOMAIN t.of /\ t.of[1] \in Types
        BY <1>2, TypeIs
    <2>5. ItemTypes(t, v) \in [1 .. n -> Types]
        BY <2>3, <2>4
    <2>6. ItemTypes(t, v) \in Seq(Types) /\ Len(ItemTypes(t, v)) = n
        BY <2>5, SeqDef, LenProperties
    <2>7. \A i \in 1 .. n : ItemTypes(t, v)[i] = t.of[1] /\ v.list[i] \in ValuesOf[t.of[1]]
        BY <2>1, <2>2, <2>3
    <2> QED BY <2>1, <2>2, <2>3, <2>4, <2>6, <2>7
<1>3. CASE t.k # "array"
    <2>1. ItemTypes(t, v) = Members(t)
        BY <1>3 DEF ItemTypes
    <2>2. IsListOf(v, Members(t))
        BY <1>1, <1>3 DEF IsValue, Listed
    <2>3. v = List(v.list) /\ Len(v.list) = Len(Members(t)) /\ \A i \in DOMAIN Members(t) : v.list[i] \in ValuesOf[Members(t)[i]]
        BY <2>2 DEF IsListOf
    <2>4. PICK S : v.list \in Seq(S)
        BY <2>2 DEF IsListOf
    <2>5. PICK n \in Nat : n = Len(v.list) /\ DOMAIN v.list = 1 .. n
        BY <2>4
    <2>6. Members(t) \in Seq(Types) /\ DOMAIN Members(t) = 1 .. n /\ Len(Members(t)) = n
        <3>1. Members(t) \in Seq(Types)
            BY MembersAre
        <3>2. Len(Members(t)) = n
            BY <2>3, <2>5, Zenon
        <3>3. DOMAIN Members(t) = 1 .. Len(Members(t))
            BY <3>1, LenProperties
        <3> QED BY <3>1, <3>2, <3>3, Zenon
    <2>7. \A i \in 1 .. n : v.list[i] \in ValuesOf[Members(t)[i]]
        BY <2>3, <2>6
    <2>8. \A i \in 1 .. n : \E j \in DOMAIN t.of : Members(t)[i] = t.of[j]
        <3>1. \A i \in DOMAIN Members(t) : \E j \in DOMAIN t.of : Members(t)[i] = t.of[j]
            BY MembersAre
        <3> QED BY <2>6, <3>1, Zenon
    <2>9. v = List(v.list)
        BY <2>3
    <2> HIDE DEF Members
    <2> QED BY <1>3, <2>1, <2>5, <2>6, <2>7, <2>8, <2>9
<1> QED BY <1>2, <1>3

\* A value that is a list is written item by item.
Pieces(t, v) == [i \in 1 .. Len(v.list) |-> Serialize[ItemTypes(t, v)[i]][v.list[i]]]

\* How the values of each kind of type are written.
LEMMA SerializedList ==
    ASSUME NEW t \in Types, NEW v \in ValuesOf[t], t.k \in Listed
    PROVE  Serialize[t][v] = IF t.k = "array" THEN <<Len(v.list)>> \o Cat(Pieces(t, v)) ELSE Cat(Pieces(t, v))
<1> DEFINE parts == [j \in DOMAIN t.of |-> Serialize[t.of[j]]]
<1>1. Serialize[t] = SerializeOf(t, parts)
    BY SerializeDef
<1>2. DOMAIN v.list = 1 .. Len(v.list) /\ DOMAIN ItemTypes(t, v) = 1 .. Len(v.list)
    BY ItemsAre
<1>3. CASE t.k = "array"
    <2>1. 1 \in DOMAIN t.of
        BY <1>3, TypeIs
    <2>2. \A i \in 1 .. Len(v.list) : ItemTypes(t, v)[i] = t.of[1]
        BY <1>3 DEF ItemTypes, Copies
    <2>3. [i \in DOMAIN v.list |-> parts[1][v.list[i]]] = Pieces(t, v)
        BY <1>2, <2>1, <2>2 DEF Pieces
    <2>4. Serialize[t][v] = <<Len(v.list)>> \o Cat([i \in DOMAIN v.list |-> parts[1][v.list[i]]])
        <3> HIDE DEF parts
        <3> QED BY <1>1, <1>3 DEF SerializeOf
    <2> QED BY <1>3, <2>3, <2>4
<1>4. CASE t.k # "array"
    <2>1. MembersOf(t, parts) = [i \in DOMAIN Members(t) |-> Serialize[Members(t)[i]]]
        BY MembersApply
    <2>2. ItemTypes(t, v) = Members(t)
        BY <1>4 DEF ItemTypes
    <2>3. [i \in DOMAIN v.list |-> MembersOf(t, parts)[i][v.list[i]]] = Pieces(t, v)
        <3> HIDE DEF parts
        <3> QED BY <1>2, <2>1, <2>2 DEF Pieces
    <2>4. Serialize[t][v] = Cat([i \in DOMAIN v.list |-> MembersOf(t, parts)[i][v.list[i]]])
        <3> HIDE DEF parts
        <3> QED BY <1>1, <1>4 DEF SerializeOf, Listed
    <2> QED BY <1>4, <2>3, <2>4
<1> QED BY <1>3, <1>4

LEMMA LeafIs ==
    ASSUME NEW t \in Types, NEW v \in ValuesOf[t]
    PROVE  /\ t.k \in {"felt", "uint", "bool"} => v.leaf \in Felts
           /\ t.k = "bool" => v.leaf \in {0, 1}
           /\ t.k = "int" => v.leaf \in -Word .. Word - 1
           /\ t.k = "u256" => v.leaf \in 0 .. Word * Word - 1
           /\ t.k # "unknown"
<1>1. IsValue(t, v)
    BY ValuesAssumption
<1>2. Word \in Nat /\ Prime \in Nat /\ 1 < Word /\ Word < Prime
    BY FieldAssumption
<1>3. t.k = "felt" => v.leaf \in Felts
    BY <1>1 DEF IsValue, IsNumber
<1>4. t.k = "uint" => v.leaf \in 0 .. Word - 1
    BY <1>1 DEF IsValue, IsNumber
<1>5. t.k = "bool" => v.leaf \in {0, 1}
    BY <1>1 DEF IsValue, IsNumber
<1>6. t.k = "int" => v.leaf \in -Word .. Word - 1
    BY <1>1 DEF IsValue, IsNumber
<1>7. t.k = "u256" => v.leaf \in 0 .. Word * Word - 1
    BY <1>1 DEF IsValue, IsNumber
<1>8. t.k # "unknown"
    BY <1>1 DEF IsValue
<1>9. t.k \in {"felt", "uint", "bool"} => v.leaf \in Felts
    BY <1>2, <1>3, <1>4, <1>5 DEF Felts
<1> QED BY <1>5, <1>6, <1>7, <1>8, <1>9

LEMMA VariantIs ==
    ASSUME NEW t \in Types, NEW v \in ValuesOf[t], t.k = "enum"
    PROVE  \E i \in 0 .. Len(t.of) - 1 :
               /\ i \in Felts /\ i + 1 \in DOMAIN t.of
               /\ v.list[1].leaf = i /\ v.list[2] \in ValuesOf[t.of[i + 1]]
<1>1. IsValue(t, v)
    BY ValuesAssumption
<1>2. v.list[1].leaf \in 0 .. Len(t.of) - 1 /\ v.list[2] \in ValuesOf[t.of[v.list[1].leaf + 1]]
    BY <1>1 DEF IsValue, IsNumber
<1>3. Len(t.of) \in Nat /\ Len(t.of) <= Prime /\ DOMAIN t.of = 1 .. Len(t.of)
    BY TypeIs
<1>4. PICK i \in 0 .. Len(t.of) - 1 : i = v.list[1].leaf
    BY <1>2
<1>5. i \in Felts
    BY <1>3, FieldAssumption DEF Felts
<1>6. i + 1 \in DOMAIN t.of
    BY <1>3
<1> QED BY <1>2, <1>4, <1>5, <1>6

LEMMA SerializedLeaf ==
    ASSUME NEW t \in Types, NEW v \in ValuesOf[t]
    PROVE  /\ t.k \in {"felt", "uint", "bool"} => Serialize[t][v] = <<v.leaf>>
           /\ t.k = "int" => Serialize[t][v] = <<v.leaf % Prime>>
           /\ t.k = "u256" => Serialize[t][v] = <<v.leaf % Word, v.leaf \div Word>>
           /\ t.k = "enum" => \A i \in Nat : i + 1 \in DOMAIN t.of /\ v.list[1].leaf = i
                  => Serialize[t][v] = <<i>> \o Serialize[t.of[i + 1]][v.list[2]]
<1> DEFINE parts == [j \in DOMAIN t.of |-> Serialize[t.of[j]]]
<1>1. Serialize[t] = SerializeOf(t, parts)
    BY SerializeDef
<1>2. \A i \in Nat : i + 1 \in DOMAIN t.of => parts[i + 1] = Serialize[t.of[i + 1]]
    OBVIOUS
<1> HIDE DEF parts
<1>3. t.k \in {"felt", "uint", "bool"} => Serialize[t][v] = <<v.leaf>>
    BY <1>1 DEF SerializeOf
<1>4. t.k = "int" => Serialize[t][v] = <<v.leaf % Prime>>
    BY <1>1 DEF SerializeOf
<1>5. t.k = "u256" => Serialize[t][v] = <<v.leaf % Word, v.leaf \div Word>>
    BY <1>1 DEF SerializeOf
<1>6. t.k = "enum" => Serialize[t][v] = <<v.list[1].leaf>> \o parts[v.list[1].leaf + 1][v.list[2]]
    BY <1>1 DEF SerializeOf
<1> QED BY <1>2, <1>3, <1>4, <1>5, <1>6

\* Whatever is written is a sequence of felts.
LEMMA SerializedType ==
    ASSUME NEW t \in Types
    PROVE  \A v \in ValuesOf[t] : Serialize[t][v] \in Seq(Felts)
<1> DEFINE P == {u \in Types : \A v \in ValuesOf[u] : Serialize[u][v] \in Seq(Felts)}
<1>1. ASSUME NEW u \in Types, \A i \in DOMAIN u.of : u.of[i] \in P PROVE u \in P
    <2> SUFFICES ASSUME NEW v \in ValuesOf[u] PROVE Serialize[u][v] \in Seq(Felts)
        OBVIOUS
    <2>0. Word \in Nat /\ Prime \in Nat /\ 1 < Word /\ Word < Prime
        BY FieldAssumption
    <2>1. CASE u.k \in {"felt", "uint", "bool"}
        <3>1. PICK x \in Felts : x = v.leaf
            BY <2>1, LeafIs
        <3>2. Serialize[u][v] = <<x>>
            BY <2>1, <3>1, SerializedLeaf
        <3> QED BY <3>2
    <2>2. CASE u.k = "int"
        <3>1. PICK x \in Int : x = v.leaf
            BY <2>0, <2>2, LeafIs
        <3>2. PICK r \in Felts : r = x % Prime
            <4>1. Prime > 0
                BY <2>0
            <4>2. x % Prime \in 0 .. Prime - 1
                BY <2>0, <4>1, Remainder
            <4> QED BY <4>2 DEF Felts
        <3>3. Serialize[u][v] = <<r>>
            BY <2>2, <3>1, <3>2, SerializedLeaf
        <3> QED BY <3>3
    <2>3. CASE u.k = "u256"
        <3>1. PICK x \in Int : x = v.leaf /\ x \in 0 .. Word * Word - 1
            BY <2>0, <2>3, LeafIs
        <3>2. PICK low \in Felts, high \in Felts : low = x % Word /\ high = x \div Word
            <4>1. Word > 0
                BY <2>0
            <4>2. x % Word \in 0 .. Word - 1 /\ x \div Word \in 0 .. Word - 1
                BY <2>0, <3>1, <4>1, Limbs, Zenon
            <4>3. \A y \in 0 .. Word - 1 : y \in Felts
                BY <2>0 DEF Felts
            <4> QED BY <4>2, <4>3, Zenon
        <3>4. Serialize[u][v] = <<low, high>>
            BY <2>3, <3>1, <3>2, SerializedLeaf
        <3> QED BY <3>4
    <2>4. CASE u.k = "enum"
        <3>1. PICK i \in 0 .. Len(u.of) - 1 : /\ i \in Felts /\ i + 1 \in DOMAIN u.of
                                              /\ v.list[1].leaf = i /\ v.list[2] \in ValuesOf[u.of[i + 1]]
            BY <2>4, VariantIs
        <3>2. Serialize[u.of[i + 1]][v.list[2]] \in Seq(Felts)
            BY <1>1, <3>1
        <3>3. Serialize[u][v] = <<i>> \o Serialize[u.of[i + 1]][v.list[2]]
            BY <2>4, <3>1, SerializedLeaf
        <3> QED BY <3>1, <3>2, <3>3
    <2>5. CASE u.k \in Listed
        <3>1. Len(v.list) \in Nat /\ (u.k = "array" => Len(v.list) \in Felts)
            <4>1. Len(v.list) \in Nat /\ (u.k = "array" => Len(v.list) <= MaxArray)
                BY <2>0, <2>5, ItemsAre
            <4> QED BY <4>1, FieldAssumption DEF Felts
        <3>2. ASSUME NEW i \in 1 .. Len(v.list) PROVE Pieces(u, v)[i] \in Seq(Felts)
            <4>1. PICK j \in DOMAIN u.of : ItemTypes(u, v)[i] = u.of[j]
                BY <2>5, ItemsAre
            <4>2. v.list[i] \in ValuesOf[u.of[j]]
                BY <2>5, <4>1, ItemsAre
            <4>3. Serialize[u.of[j]][v.list[i]] \in Seq(Felts)
                BY <1>1, <4>2
            <4> QED BY <4>1, <4>3 DEF Pieces
        <3>3. Pieces(u, v) \in Seq(Seq(Felts))
            <4>1. Pieces(u, v) \in [1 .. Len(v.list) -> Seq(Felts)]
                BY <3>2 DEF Pieces
            <4> QED BY <3>1, <4>1, SeqDef
        <3>4. Cat(Pieces(u, v)) \in Seq(Felts)
            BY <3>3, CatType
        <3>5. u.k = "array" => <<Len(v.list)>> \o Cat(Pieces(u, v)) \in Seq(Felts)
            BY <3>1, <3>4
        <3> QED BY <2>5, <3>4, <3>5, SerializedList
    <2>6. u.k \in Kinds /\ u.k # "unknown"
        BY LeafIs, TypeIs
    <2> QED BY <2>1, <2>2, <2>3, <2>4, <2>5, <2>6 DEF Kinds, Listed
<1> HIDE DEF P
<1>2. Types \subseteq P
    BY <1>1, TypeInduction
<1> QED BY <1>2 DEF P

LEMMA PiecesType ==
    ASSUME NEW t \in Types, NEW v \in ValuesOf[t], t.k \in Listed
    PROVE  Pieces(t, v) \in Seq(Seq(Felts)) /\ Len(Pieces(t, v)) = Len(v.list)
<1>1. Len(v.list) \in Nat
    BY ItemsAre
<1>2. ASSUME NEW i \in 1 .. Len(v.list) PROVE Pieces(t, v)[i] \in Seq(Felts)
    <2>1. ItemTypes(t, v)[i] \in Types /\ v.list[i] \in ValuesOf[ItemTypes(t, v)[i]]
        BY ItemsAre
    <2> QED BY <2>1, SerializedType DEF Pieces
<1>3. Pieces(t, v) \in [1 .. Len(v.list) -> Seq(Felts)]
    BY <1>2 DEF Pieces
<1> QED BY <1>1, <1>3, SeqDef, LenProperties

-----------------------------------------------------------------------------
(* What values should be shown as *)

ShownItems(t, v) == [i \in 1 .. Len(v.list) |-> Display[ItemTypes(t, v)[i]][v.list[i]]]
ShownFields(t, v) ==
    [i \in 1 .. Len(v.list) |->
        [Decoded(ItemTypes(t, v)[i], Display[ItemTypes(t, v)[i]][v.list[i]]) EXCEPT !.key = i - 1]]

LEMMA DisplayedLeaf ==
    ASSUME NEW t \in Types, NEW v \in ValuesOf[t]
    PROVE  /\ t.k = "felt" => Display[t][v] = V("single", v.leaf, <<>>)
           /\ t.k = "bool" => Display[t][v] = V("bool", v.leaf, <<>>)
           /\ t.k \in {"uint", "u256"} => Display[t][v] = V("biguint", v.leaf, <<>>)
           /\ t.k = "int" => Display[t][v] = V("bigint", IF v.leaf < 0 THEN v.leaf ELSE v.leaf - Prime, <<>>)
           /\ t.k = "enum" => \A i \in Nat : i + 1 \in DOMAIN t.of /\ v.list[1].leaf = i
                  => Display[t][v] =
                        V("enum", i, <<IF t.of[i + 1].k = "unit" THEN Decoded(Unknown, V("string", i, <<>>))
                                       ELSE Decoded(t.of[i + 1], Display[t.of[i + 1]][v.list[2]])>>)
<1> DEFINE parts == [j \in DOMAIN t.of |-> Display[t.of[j]]]
<1>1. Display[t] = DisplayOf(t, parts)
    BY DisplayDef
<1>2. \A i \in Nat : i + 1 \in DOMAIN t.of => parts[i + 1] = Display[t.of[i + 1]]
    OBVIOUS
<1> HIDE DEF parts
<1>3. t.k = "felt" => Display[t][v] = V("single", v.leaf, <<>>)
    BY <1>1 DEF DisplayOf
<1>4. t.k = "bool" => Display[t][v] = V("bool", v.leaf, <<>>)
    BY <1>1 DEF DisplayOf
<1>5. t.k \in {"uint", "u256"} => Display[t][v] = V("biguint", v.leaf, <<>>)
    BY <1>1 DEF DisplayOf
<1>6. t.k = "int" => Display[t][v] = V("bigint", IF v.leaf < 0 THEN v.leaf ELSE v.leaf - Prime, <<>>)
    BY <1>1 DEF DisplayOf
<1>7. ASSUME t.k = "enum", NEW i \in Nat, i + 1 \in DOMAIN t.of, v.list[1].leaf = i
      PROVE  Display[t][v] =
                V("enum", i, <<IF t.of[i + 1].k = "unit" THEN Decoded(Unknown, V("string", i, <<>>))
                               ELSE Decoded(t.of[i + 1], Display[t.of[i + 1]][v.list[2]])>>)
    <2>1. Display[t][v] =
            V("enum", i, <<IF t.of[i + 1].k = "unit" THEN Decoded(Unknown, V("string", i, <<>>))
                           ELSE Decoded(t.of[i + 1], parts[i + 1][v.list[2]])>>)
        BY <1>1, <1>7 DEF DisplayOf
    <2> QED BY <1>2, <1>7, <2>1
<1> QED BY <1>3, <1>4, <1>5, <1>6, <1>7

\* How the values of each kind of type should be shown.
LEMMA DisplayedList ==
    ASSUME NEW t \in Types, NEW v \in ValuesOf[t], t.k \in Listed \ {"unit"}
    PROVE  Display[t][v] = IF t.k = "struct" THEN V("struct", 0, ShownFields(t, v)) ELSE V("array", 0, ShownItems(t, v))
<1> DEFINE parts == [j \in DOMAIN t.of |-> Display[t.of[j]]]
<1>1. Display[t] = DisplayOf(t, parts)
    BY DisplayDef
<1>2. DOMAIN v.list = 1 .. Len(v.list) /\ DOMAIN ItemTypes(t, v) = 1 .. Len(v.list)
    BY ItemsAre DEF Listed
<1>3. CASE t.k = "array"
    <2>1. 1 \in DOMAIN t.of
        BY <1>3, TypeIs
    <2>2. \A i \in 1 .. Len(v.list) : ItemTypes(t, v)[i] = t.of[1]
        BY <1>3 DEF ItemTypes, Copies
    <2>3. [i \in DOMAIN v.list |-> parts[1][v.list[i]]] = ShownItems(t, v)
        BY <1>2, <2>1, <2>2 DEF ShownItems
    <2>4. Display[t][v] = V("array", 0, [i \in DOMAIN v.list |-> parts[1][v.list[i]]])
        <3> HIDE DEF parts
        <3> QED BY <1>1, <1>3 DEF DisplayOf
    <2> QED BY <1>3, <2>3, <2>4
<1>4. CASE t.k \in {"fixed", "tuple"}
    <2>1. MembersOf(t, parts) = [i \in DOMAIN Members(t) |-> Display[Members(t)[i]]]
        BY MembersApply
    <2>2. ItemTypes(t, v) = Members(t)
        BY <1>4 DEF ItemTypes
    <2>3. [i \in DOMAIN v.list |-> MembersOf(t, parts)[i][v.list[i]]] = ShownItems(t, v)
        <3> HIDE DEF parts
        <3> QED BY <1>2, <2>1, <2>2 DEF ShownItems
    <2>4. Display[t][v] = V("array", 0, [i \in DOMAIN v.list |-> MembersOf(t, parts)[i][v.list[i]]])
        <3> HIDE DEF parts
        <3> QED BY <1>1, <1>4 DEF DisplayOf
    <2> QED BY <1>4, <2>3, <2>4
<1>5. CASE t.k = "struct"
    <2>1. ItemTypes(t, v) = t.of
        BY <1>5 DEF ItemTypes, Members, MembersOf
    <2>2. Display[t][v] = V("struct", 0, [i \in DOMAIN v.list |-> [Decoded(t.of[i], parts[i][v.list[i]]) EXCEPT !.key = i - 1]])
        <3> HIDE DEF parts
        <3> QED BY <1>1, <1>5 DEF DisplayOf
    <2>3. \A i \in 1 .. Len(v.list) : parts[i] = Display[t.of[i]]
        BY <1>2, <2>1
    <2>4. [i \in DOMAIN v.list |-> [Decoded(t.of[i], parts[i][v.list[i]]) EXCEPT !.key = i - 1]] = ShownFields(t, v)
        <3> HIDE DEF parts
        <3> QED BY <1>2, <2>1, <2>3 DEF ShownFields
    <2> QED BY <1>5, <2>2, <2>4
<1> QED BY <1>3, <1>4, <1>5 DEF Listed

LEMMA DecodableIs ==
    ASSUME NEW t \in Types, Decodable[t]
    PROVE  /\ t.k \notin {"unit", "unknown"}
           /\ t.k = "tuple" => Splits(t)
           /\ t.k = "fixed" => t.n <= MaxArray
           /\ t.k # "bool" =>
                \A i \in DOMAIN t.of : Decodable[t.of[i]] \/ (t.k = "enum" /\ t.of[i].k = "unit")
<1> DEFINE parts == [j \in DOMAIN t.of |-> Decodable[t.of[j]]]
<1>1. DecodableOf(t, parts)
    BY DecodableDef
<1>2. DOMAIN parts = DOMAIN t.of /\ \A i \in DOMAIN t.of : parts[i] = Decodable[t.of[i]]
    OBVIOUS
<1> HIDE DEF parts
<1> QED BY <1>1, <1>2 DEF DecodableOf

-----------------------------------------------------------------------------
(* What is written is shown *)

RoundTrips(t, v, rest) ==
    LET r == decode_type[t][Serialize[t][v] \o rest]
    IN /\ r.some => r.dv = Decoded(t, Display[t][v]) /\ r.at = rest
       /\ Decodable[t] => r.some
RoundTrip(t) == \A v \in ValuesOf[t], rest \in Seq(Felts) : RoundTrips(t, v, rest)

ValuesAre(types, vals) ==
    /\ types \in Seq(Types)
    /\ \A i \in 1 .. Len(types) : vals[i] \in ValuesOf[types[i]]
Decoders(types) == [i \in 1 .. Len(types) |-> decode_type[types[i]]]
Written(types, vals) == [i \in 1 .. Len(types) |-> Serialize[types[i]][vals[i]]]
ToShow(types, vals) == [i \in 1 .. Len(types) |-> Decoded(types[i], Display[types[i]][vals[i]])]

LEMMA DecodersType ==
    ASSUME NEW types \in Seq(Types)
    PROVE  /\ Decoders(types) \in Seq([Seq(Felts) -> [some : BOOLEAN, dv : Field(MaxDepth), at : Seq(Felts)]])
           /\ Len(Decoders(types)) = Len(types)
<1> DEFINE O == [some : BOOLEAN, dv : Field(MaxDepth), at : Seq(Felts)]
<1>1. ASSUME NEW i \in 1 .. Len(types) PROVE decode_type[types[i]] \in [Seq(Felts) -> O]
    <2>1. types[i] \in Types
        OBVIOUS
    <2>2. PICK m \in 0 .. MaxDepth : m = Depth[types[i]] + 1
        BY <2>1, TypeIs
    <2>3. decode_type[types[i]] \in [Seq(Felts) -> Outcome(m)]
        BY <2>1, <2>2, DecodedType
    <2>4. MaxDepth \in 0 .. MaxDepth
        BY TypesAssumption
    <2>5. Outcome(m) \subseteq Outcome(MaxDepth)
        BY <2>4, FieldsGrow
    <2> QED BY <2>3, <2>5 DEF Outcome
<1>2. Decoders(types) \in [1 .. Len(types) -> [Seq(Felts) -> O]]
    <2> HIDE DEF O
    <2> QED BY <1>1 DEF Decoders
<1>3. Len(types) \in Nat
    OBVIOUS
<1> HIDE DEF O
<1>4. Decoders(types) \in Seq([Seq(Felts) -> O]) /\ Len(Decoders(types)) = Len(types)
    BY <1>2, <1>3, SeqDef, LenProperties
<1> QED BY <1>4 DEF O

LEMMA WrittenType ==
    ASSUME NEW types, NEW vals, ValuesAre(types, vals)
    PROVE  Written(types, vals) \in Seq(Seq(Felts)) /\ Len(Written(types, vals)) = Len(types)
<1>1. Written(types, vals) \in [1 .. Len(types) -> Seq(Felts)]
    <2>1. \A i \in 1 .. Len(types) : types[i] \in Types /\ vals[i] \in ValuesOf[types[i]]
        BY DEF ValuesAre
    <2> QED BY <2>1, SerializedType DEF Written
<1>2. Len(types) \in Nat
    BY DEF ValuesAre
<1> QED BY <1>1, <1>2, SeqDef, LenProperties

LEMMA FeltsAssociative ==
    \A r, s, t \in Seq(Felts) : (r \o s) \o t = r \o (s \o t)
<1> SUFFICES ASSUME NEW r \in Seq(Felts), NEW s \in Seq(Felts), NEW t \in Seq(Felts)
             PROVE  (r \o s) \o t = r \o (s \o t)
    OBVIOUS
<1> QED BY ConcatAssociative

\* Parts are read one after another, each where the one before ends.
LEMMA PartsRoundTrip ==
    ASSUME NEW types, NEW vals, ValuesAre(types, vals), NEW rest \in Seq(Felts),
           \A i \in 1 .. Len(types) : RoundTrip(types[i])
    PROVE  LET ps == DecodeParts(Decoders(types), Cat(Written(types, vals)) \o rest)
           IN /\ ps \in PartsOutcome(Field(MaxDepth))
              /\ ps.some => ps.dvs = ToShow(types, vals) /\ ps.at = rest
              /\ (\A i \in 1 .. Len(types) : Decodable[types[i]]) => ps.some
<1> DEFINE ds == Decoders(types)
           ss == Written(types, vals)
           data == Cat(ss) \o rest
           D == Field(MaxDepth)
           AllDecodable == \A i \in 1 .. Len(types) : Decodable[types[i]]
<1>0. PICK n \in Nat : n = Len(types)
    BY DEF ValuesAre
<1>1. types \in Seq(Types) /\ \A i \in 1 .. n : types[i] \in Types /\ vals[i] \in ValuesOf[types[i]]
    BY <1>0 DEF ValuesAre
<1>2. ds \in Seq([Seq(Felts) -> [some : BOOLEAN, dv : D, at : Seq(Felts)]]) /\ Len(ds) = n
    BY <1>0, <1>1, DecodersType
<1>3. \A i \in 1 .. n : ds[i] = decode_type[types[i]]
    BY <1>0 DEF Decoders
<1>4. ss \in Seq(Seq(Felts)) /\ Len(ss) = n
    BY <1>0, WrittenType
<1>5. \A i \in 1 .. n : ss[i] = Serialize[types[i]][vals[i]] /\ ss[i] \in Seq(Felts)
    BY <1>0, <1>4 DEF Written
<1> HIDE DEF ds, ss, D
<1>6. data \in Seq(Felts)
    BY <1>4, CatType
<1>7. PICK tails \in [0 .. n -> Seq(Felts)] : IsTails(tails, ss)
    BY <1>4, CatTails
<1>8. PICK upto \in [0 .. n -> PartsOutcome(D)] : Reads(ds, data, upto)
    BY <1>2, <1>6, PartsRead
<1> DEFINE ShownTo(m) == /\ Len(upto[m].dvs) = m
                         /\ \A i \in 1 .. m : upto[m].dvs[i] = ToShow(types, vals)[i]
                         /\ upto[m].at = tails[m] \o rest
           Q == {m \in Nat : m <= n => (upto[m].some => ShownTo(m)) /\ (AllDecodable => upto[m].some)}
<1>9. 0 \in Q
    <2>1. upto[0] = [some |-> TRUE, dvs |-> <<>>, at |-> data]
        BY <1>8 DEF Reads
    <2>2. tails[0] = Cat(ss)
        BY <1>7 DEF IsTails
    <2>3. ShownTo(0)
        BY <2>1, <2>2
    <2> HIDE DEF ShownTo
    <2> QED BY <2>1, <2>3
<1>10. ASSUME NEW k \in Q PROVE k + 1 \in Q
    <2> SUFFICES ASSUME k + 1 <= n
                 PROVE  (upto[k + 1].some => ShownTo(k + 1)) /\ (AllDecodable => upto[k + 1].some)
        OBVIOUS
    <2>1. PICK m \in 1 .. n : m = k + 1
        BY <1>0
    <2>2. k \in 0 .. n /\ m \in 0 .. n /\ m - 1 = k
        BY <2>1
    <2>3. PICK a \in PartsOutcome(D) : a = upto[k]
        BY <1>8, <2>2
    <2>4. upto[m] = Step(ds, m, a)
        BY <1>2, <1>8, <2>2, <2>3 DEF Reads
    <2>5. (a.some => ShownTo(k)) /\ (AllDecodable => a.some)
        <3>1. k <= n
            BY <2>2
        <3> HIDE DEF ShownTo, AllDecodable
        <3> QED BY <2>3, <3>1
    <2>6. PICK r \in [some : BOOLEAN, dv : D, at : Seq(Felts)] : r = ds[m][a.at]
        <3>1. a.at \in Seq(Felts)
            BY DEF PartsOutcome
        <3> DEFINE Decoder == [Seq(Felts) -> [some : BOOLEAN, dv : D, at : Seq(Felts)]]
        <3>2. ds \in Seq(Decoder)
            BY <1>2
        <3> HIDE DEF Decoder
        <3>3. ds[m] \in Decoder
            BY <1>2, <3>2
        <3> USE DEF Decoder
        <3> QED BY <3>1, <3>3
    <2>7. upto[m] = [some |-> a.some /\ r.some, dvs |-> Append(a.dvs, r.dv), at |-> r.at]
        BY <2>4, <2>6 DEF Step
    <2>8. ASSUME a.some
          PROVE  /\ r.some => r.dv = ToShow(types, vals)[m] /\ r.at = tails[m] \o rest
                 /\ Decodable[types[m]] => r.some
        <3>1. tails[k] = ss[m] \o tails[m] /\ tails[m] \in Seq(Felts)
            BY <1>4, <1>7, <2>2 DEF IsTails
        <3>2. a.at = ss[m] \o (tails[m] \o rest)
            <4>3. ShownTo(k)
                <5> HIDE DEF ShownTo, AllDecodable
                <5> QED BY <2>5, <2>8
            <4>4. upto[k].at = tails[k] \o rest
                BY <4>3
            <4>1. a.at = (ss[m] \o tails[m]) \o rest
                BY <2>3, <3>1, <4>4
            <4>2. ss[m] \in Seq(Felts)
                BY <1>5
            <4>5. (ss[m] \o tails[m]) \o rest = ss[m] \o (tails[m] \o rest)
                BY <3>1, <4>2, FeltsAssociative, Zenon
            <4> QED BY <4>1, <4>5
        <3>3. tails[m] \o rest \in Seq(Felts)
            BY <3>1
        <3>4. RoundTrips(types[m], vals[m], tails[m] \o rest)
            BY <1>0, <1>1, <3>3 DEF RoundTrip
        <3>5. r = decode_type[types[m]][Serialize[types[m]][vals[m]] \o (tails[m] \o rest)]
            BY <1>3, <1>5, <2>6, <3>2
        <3>6. ToShow(types, vals)[m] = Decoded(types[m], Display[types[m]][vals[m]])
            BY <1>0 DEF ToShow
        <3> QED BY <3>4, <3>5, <3>6 DEF RoundTrips
    <2>9. ASSUME upto[m].some PROVE ShownTo(m)
        <3>0. upto[m].some = (a.some /\ r.some)
            BY <2>7
        <3>1. a.some /\ r.some
            BY <2>9, <3>0
        <3>2. a.dvs \in Seq(D) /\ Len(a.dvs) = k /\ \A i \in 1 .. k : a.dvs[i] = ToShow(types, vals)[i]
            BY <2>3, <2>5, <3>1 DEF PartsOutcome
        <3>3. r.dv \in D /\ r.dv = ToShow(types, vals)[m] /\ r.at = tails[m] \o rest
            BY <2>8, <3>1
        <3>4. upto[m].dvs = Append(a.dvs, r.dv) /\ upto[m].at = r.at
            BY <2>7
        <3>5. Len(upto[m].dvs) = m
            BY <2>1, <3>2, <3>3, <3>4
        <3>6. \A i \in 1 .. m : upto[m].dvs[i] = ToShow(types, vals)[i]
            BY <2>1, <3>2, <3>3, <3>4
        <3> QED BY <3>3, <3>4, <3>5, <3>6
    <2>10. ASSUME AllDecodable PROVE upto[m].some
        <3>1. a.some /\ Decodable[types[m]]
            BY <1>0, <2>5, <2>10
        <3>2. r.some
            BY <2>8, <3>1
        <3> QED BY <2>7, <3>1, <3>2
    <2> HIDE DEF ShownTo, AllDecodable
    <2> QED BY <2>1, <2>9, <2>10
<1>11. n \in Q
    <2> HIDE DEF Q
    <2>1. Nat \subseteq Q
        BY <1>9, <1>10, CountUp
    <2> QED BY <2>1
<1>12. PICK ps \in PartsOutcome(D) : ps = upto[n]
    BY <1>8
<1>13. ps = DecodeParts(ds, data)
    BY <1>2, <1>8, <1>12 DEF Reads
<1>14. (ps.some => ShownTo(n)) /\ (AllDecodable => ps.some)
    <2> HIDE DEF ShownTo, AllDecodable
    <2> QED BY <1>11, <1>12
<1>15. ASSUME ps.some PROVE ps.dvs = ToShow(types, vals) /\ ps.at = rest
    <2>1. ps.dvs \in Seq(D) /\ Len(ps.dvs) = n /\ \A i \in 1 .. n : ps.dvs[i] = ToShow(types, vals)[i]
        BY <1>12, <1>14, <1>15 DEF PartsOutcome
    <2>2. ps.at = tails[n] \o rest
        BY <1>12, <1>14, <1>15
    <2>3. tails[n] = <<>>
        BY <1>4, <1>7 DEF IsTails
    <2>4. ps.at = rest
        BY <2>2, <2>3
    <2>5. ps.dvs = [i \in 1 .. n |-> ps.dvs[i]]
        BY <2>1
    <2>6. ToShow(types, vals) = [i \in 1 .. n |-> ToShow(types, vals)[i]]
        BY <1>0 DEF ToShow
    <2>7. ps.dvs = ToShow(types, vals)
        BY <2>1, <2>5, <2>6
    <2> QED BY <2>4, <2>7
<1> USE DEF ds, ss, D
<1> QED BY <1>13, <1>14, <1>15

LEMMA DecodesAs ==
    ASSUME NEW t \in Types, NEW data \in Seq(Felts)
    PROVE  decode_type[t][data] = DecoderOf(t, [i \in DOMAIN t.of |-> decode_type[t.of[i]]])[data]
BY DecodeTypeDef

LEMMA FirstOf ==
    \A x \in Felts, rest \in Seq(Felts) :
        /\ <<x>> \o rest \in Seq(Felts) /\ <<x>> \o rest # <<>>
        /\ (<<x>> \o rest)[1] = x /\ Tail(<<x>> \o rest) = rest
<1> SUFFICES ASSUME NEW x \in Felts, NEW rest \in Seq(Felts)
             PROVE  /\ <<x>> \o rest \in Seq(Felts) /\ <<x>> \o rest # <<>>
                    /\ (<<x>> \o rest)[1] = x /\ Tail(<<x>> \o rest) = rest
    OBVIOUS
<1>1. <<x>> \o rest \in Seq(Felts) /\ Len(<<x>> \o rest) = 1 + Len(rest)
    OBVIOUS
<1>2. (<<x>> \o rest)[1] = x
    OBVIOUS
<1>3. Tail(<<x>> \o rest) = rest
    OBVIOUS
<1>4. <<x>> \o rest # <<>>
    BY <1>1
<1> QED BY <1>1, <1>2, <1>3, <1>4

LEMMA PairIs ==
    ASSUME NEW S, NEW a \in S, NEW b \in S
    PROVE  Append(<<a>>, b) = <<a, b>> /\ <<a>> \o <<b>> = <<a, b>> /\ <<a>> \in Seq(S)
<1>1. <<a>> \in Seq(S) /\ <<b>> \in Seq(S) /\ <<a, b>> \in Seq(S)
    OBVIOUS
<1>2. Append(<<a>>, b) \in Seq(S) /\ Len(Append(<<a>>, b)) = 2
    BY <1>1
<1>3. Append(<<a>>, b)[1] = a /\ Append(<<a>>, b)[2] = b
    BY <1>1, AppendProperties
<1>4. Len(<<a, b>>) = 2 /\ <<a, b>>[1] = a /\ <<a, b>>[2] = b
    OBVIOUS
<1>5. \A i \in 1 .. Len(<<a, b>>) : <<a, b>>[i] = Append(<<a>>, b)[i]
    BY <1>3, <1>4
<1>6. Append(<<a>>, b) = <<a, b>>
    BY <1>1, <1>2, <1>4, <1>5, SeqEqual
<1>7. <<a>> \o <<b>> = Append(<<a>>, b)
    BY <1>1, AppendIsConcat
<1> QED BY <1>1, <1>6, <1>7

LEMMA ReadsOne ==
    ASSUME NEW t \in Types, t.k \in {"felt", "uint", "int", "bool"}, NEW x \in Felts, NEW rest \in Seq(Felts)
    PROVE  decode_type[t][<<x>> \o rest] = Result(TRUE, create_decoded_value_by_type(t, Single(x)), rest)
<1> DEFINE data == <<x>> \o rest
           parts == [i \in DOMAIN t.of |-> decode_type[t.of[i]]]
<1>1. data \in Seq(Felts) /\ data # <<>> /\ data[1] = x /\ Tail(data) = rest
    BY FirstOf
<1>2. decode_type[t][data] = DecoderOf(t, parts)[data]
    BY <1>1, DecodesAs
<1> HIDE DEF data, parts
<1>3. ~CannotRead(t, data)
    BY <1>1 DEF CannotRead
<1>4. DecoderOf(t, parts)[data] = Result(TRUE, create_decoded_value_by_type(t, Single(data[1])), Tail(data))
    BY <1>1, <1>3 DEF DecoderOf
<1>5. decode_type[t][data] = Result(TRUE, create_decoded_value_by_type(t, Single(x)), rest)
    BY <1>1, <1>2, <1>4
<1> QED BY <1>5 DEF data

\* Numbers are shown as they were written.
LEMMA LeafRoundTrip ==
    ASSUME NEW t \in Types, t.k \in {"felt", "uint", "int", "bool"}
    PROVE  RoundTrip(t)
<1> SUFFICES ASSUME NEW v \in ValuesOf[t], NEW rest \in Seq(Felts) PROVE RoundTrips(t, v, rest)
    BY DEF RoundTrip
<1>1. SUFFICES ASSUME NEW x \in Felts, Serialize[t][v] = <<x>>,
                      create_decoded_value_by_type(t, Single(x)) = Decoded(t, Display[t][v])
               PROVE  RoundTrips(t, v, rest)
    <2>1. ASSUME NEW x \in Felts, x = v.leaf
          PROVE  /\ t.k = "felt" => create_decoded_value_by_type(t, Single(x)) = Decoded(t, V("single", x, <<>>))
                 /\ t.k = "uint" => create_decoded_value_by_type(t, Single(x)) = Decoded(t, V("biguint", x, <<>>))
                 /\ t.k = "bool" /\ x \in {0, 1} => create_decoded_value_by_type(t, Single(x)) = Decoded(t, V("bool", x, <<>>))
        BY DEF create_decoded_value_by_type, Single, V
    <2>2. CASE t.k # "int"
        <3>1. PICK x \in Felts : x = v.leaf
            BY <2>2, LeafIs
        <3>2. t.k = "bool" => x \in {0, 1}
            BY <3>1, LeafIs
        <3>3. create_decoded_value_by_type(t, Single(x)) = Decoded(t, Display[t][v])
            BY <2>1, <2>2, <3>1, <3>2, DisplayedLeaf
        <3>4. Serialize[t][v] = <<x>>
            BY <2>2, <3>1, SerializedLeaf
        <3> QED BY <1>1, <3>3, <3>4
    <2>3. CASE t.k = "int"
        <3>0. PICK p \in Nat : p = Prime
            BY FieldAssumption
        <3>1. PICK y \in Int : y = v.leaf /\ -p < y /\ y < p
            <4>1. PICK w \in Nat : w = Word /\ w < p
                BY <3>0, FieldAssumption
            <4>2. v.leaf \in -w .. w - 1
                BY <2>3, <4>1, LeafIs
            <4> QED BY <4>1, <4>2
        <3>2. PICK x \in Felts : x = y % p /\ x = IF y < 0 THEN y + p ELSE y
            <4>1. CASE y < 0
                <5>1. PICK z \in 0 .. p - 1 : z = y + p
                    BY <3>1, <4>1
                <5>2. (z - p) % p = z
                    BY Signed
                <5>3. z - p = y
                    BY <5>1
                <5>4. z \in Felts
                    BY <3>0 DEF Felts
                <5> QED BY <4>1, <5>1, <5>2, <5>3, <5>4
            <4>2. CASE y >= 0
                <5>1. y \in 0 .. p - 1 /\ p > 0
                    BY <3>1, <4>2
                <5>2. y % p = y
                    BY <5>1, Remainder
                <5>3. y \in Felts
                    BY <3>0, <5>1 DEF Felts
                <5> QED BY <4>2, <5>2, <5>3
            <4> QED BY <4>1, <4>2
        <3>3. Serialize[t][v] = <<x>>
            BY <2>3, <3>0, <3>1, <3>2, SerializedLeaf
        <3>4. create_decoded_value_by_type(t, Single(x)) = Decoded(t, V("bigint", x - Prime, <<>>))
            BY <2>3 DEF create_decoded_value_by_type, Single, V
        <3>5. Display[t][v] = V("bigint", IF y < 0 THEN y ELSE y - Prime, <<>>)
            BY <2>3, <3>1, DisplayedLeaf
        <3>6. x - p = IF y < 0 THEN y ELSE y - p
            BY <3>1, <3>2
        <3>7. V("bigint", x - Prime, <<>>) = V("bigint", IF y < 0 THEN y ELSE y - Prime, <<>>)
            BY <3>0, <3>6
        <3> QED BY <1>1, <3>3, <3>4, <3>5, <3>7
    <2> QED BY <2>2, <2>3
<1>2. decode_type[t][Serialize[t][v] \o rest] = Result(TRUE, Decoded(t, Display[t][v]), rest)
    BY <1>1, ReadsOne
<1> QED BY <1>2 DEF RoundTrips, Result

\* Low and high are read as two integers, and put together again.
LEMMA U256RoundTrip ==
    ASSUME NEW t \in Types, t.k = "u256"
    PROVE  RoundTrip(t)
<1> SUFFICES ASSUME NEW v \in ValuesOf[t], NEW rest \in Seq(Felts) PROVE RoundTrips(t, v, rest)
    BY DEF RoundTrip
<1>0. PICK w \in Nat : w = Word /\ w > 0
    BY FieldAssumption
<1>1. PICK x \in 0 .. w * w - 1 : x = v.leaf
    BY <1>0, LeafIs
<1>2. PICK low \in Felts, high \in Felts : /\ low = x % w /\ high = x \div w /\ low \in 0 .. w - 1
                                           /\ x = w * high + low
    <2>1. x % w \in 0 .. w - 1 /\ x = w * (x \div w) + (x % w)
        BY <1>0, Limbs, Zenon
    <2>2. x \div w \in 0 .. w - 1
        BY <1>0, Limbs, Zenon
    <2>3. \A y \in 0 .. w - 1 : y \in Felts
        BY <1>0, FieldAssumption DEF Felts
    <2> QED BY <2>1, <2>2, <2>3
<1>3. low \in Nat /\ high \in Nat /\ x \in Nat
    BY FieldAssumption DEF Felts
<1>4. Serialize[t][v] = <<low, high>>
    BY <1>0, <1>1, <1>2, SerializedLeaf
<1> DEFINE data == <<low, high>> \o rest
           data1 == <<high>> \o rest
           ds == [i \in DOMAIN t.of |-> decode_type[t.of[i]]]
           Shown1(n) == Decoded(UInt, V("biguint", n, <<>>))
<1>5. data = <<low>> \o data1 /\ data1 \in Seq(Felts) /\ data \in Seq(Felts)
    <2>1. <<low, high>> = <<low>> \o <<high>> /\ <<low>> \in Seq(Felts) /\ <<high>> \in Seq(Felts)
        BY PairIs
    <2>2. (<<low>> \o <<high>>) \o rest = <<low>> \o (<<high>> \o rest)
        BY <2>1, FeltsAssociative, Zenon
    <2>3. data = <<low>> \o data1
        BY <2>1, <2>2, Zenon
    <2>4. data1 \in Seq(Felts) /\ data \in Seq(Felts)
        BY <2>1
    <2> QED BY <2>3, <2>4
<1>6. t.of = <<UInt, UInt>> /\ UInt \in Types /\ UInt.k = "uint"
    <2>1. t.of = <<UInt, UInt>>
        BY TypeIs
    <2>2. 1 \in DOMAIN t.of /\ t.of[1] = UInt
        BY <2>1
    <2>3. t.of[1] \in Types
        BY <2>2, TypeIs
    <2> QED BY <2>1, <2>2, <2>3 DEF UInt, Type
<1>7. \A n \in Felts, left \in Seq(Felts) : decode_type[UInt][<<n>> \o left] = Result(TRUE, Shown1(n), left)
    <2> SUFFICES ASSUME NEW n \in Felts, NEW left \in Seq(Felts)
                 PROVE  decode_type[UInt][<<n>> \o left] = Result(TRUE, Shown1(n), left)
        OBVIOUS
    <2>1. decode_type[UInt][<<n>> \o left] = Result(TRUE, create_decoded_value_by_type(UInt, Single(n)), left)
        BY <1>6, ReadsOne
    <2>2. create_decoded_value_by_type(UInt, Single(n)) = Shown1(n)
        BY <1>6 DEF create_decoded_value_by_type, Single, V
    <2> QED BY <2>1, <2>2
<1>8. ds = <<decode_type[UInt], decode_type[UInt]>>
    BY <1>6
<1>9. ds = Decoders(<<UInt, UInt>>)
    BY <1>8 DEF Decoders
<1> DEFINE D == Field(MaxDepth)
<1>10. ds \in Seq([Seq(Felts) -> [some : BOOLEAN, dv : D, at : Seq(Felts)]]) /\ Len(ds) = 2
    <2>1. <<UInt, UInt>> \in Seq(Types) /\ Len(<<UInt, UInt>>) = 2
        BY <1>6
    <2> HIDE DEF ds, D
    <2> QED BY <1>9, <2>1, DecodersType DEF D
<1> HIDE DEF D
<1>11. PICK upto \in [0 .. 2 -> PartsOutcome(D)] : Reads(ds, data, upto)
    <2> HIDE DEF ds, data
    <2> QED BY <1>5, <1>10, PartsRead
<1>12. /\ upto[0] = [some |-> TRUE, dvs |-> <<>>, at |-> data]
       /\ upto[1] = Step(ds, 1, upto[0]) /\ upto[2] = Step(ds, 2, upto[1])
       /\ upto[2] = DecodeParts(ds, data)
    <2> HIDE DEF ds, data
    <2>1. /\ upto[0] = [some |-> TRUE, dvs |-> <<>>, at |-> data]
          /\ \A m \in 1 .. 2 : upto[m] = Step(ds, m, upto[m - 1])
          /\ upto[2] = DecodeParts(ds, data)
        BY <1>10, <1>11 DEF Reads
    <2>2. 1 \in 1 .. 2 /\ 2 \in 1 .. 2 /\ 1 - 1 = 0 /\ 2 - 1 = 1
        OBVIOUS
    <2> QED BY <2>1, <2>2, Zenon
<1>13. upto[1] = [some |-> TRUE, dvs |-> <<Shown1(low)>>, at |-> data1]
    <2>1. ds[1][data] = Result(TRUE, Shown1(low), data1)
        <3> HIDE DEF Shown1, data1
        <3> QED BY <1>5, <1>7, <1>8
    <2> HIDE DEF Shown1, data1, data, ds
    <2>2. upto[0].some = TRUE /\ upto[0].dvs = <<>> /\ upto[0].at = data
        BY <1>12
    <2>3. ds[1][data].some = TRUE /\ ds[1][data].dv = Shown1(low) /\ ds[1][data].at = data1
        BY <2>1 DEF Result
    <2>4. upto[1] = [some |-> TRUE, dvs |-> Append(<<>>, Shown1(low)), at |-> data1]
        BY <1>12, <2>2, <2>3 DEF Step
    <2>5. Append(<<>>, Shown1(low)) = <<Shown1(low)>>
        OBVIOUS
    <2> QED BY <2>4, <2>5
<1>14. upto[2] = [some |-> TRUE, dvs |-> <<Shown1(low), Shown1(high)>>, at |-> rest]
    <2>1. ds[2][data1] = Result(TRUE, Shown1(high), rest)
        <3> HIDE DEF Shown1
        <3> QED BY <1>7, <1>8
    <2> HIDE DEF Shown1, data1, data, ds
    <2>2. upto[1].some = TRUE /\ upto[1].dvs = <<Shown1(low)>> /\ upto[1].at = data1
        BY <1>13
    <2>3. ds[2][data1].some = TRUE /\ ds[2][data1].dv = Shown1(high) /\ ds[2][data1].at = rest
        BY <2>1 DEF Result
    <2>4. upto[2] = [some |-> TRUE, dvs |-> Append(<<Shown1(low)>>, Shown1(high)), at |-> rest]
        BY <1>12, <2>2, <2>3 DEF Step
    <2>5. Append(<<Shown1(low)>>, Shown1(high)) = <<Shown1(low), Shown1(high)>>
        <3>1. \E S : Shown1(low) \in S /\ Shown1(high) \in S
            <4>1. Shown1(low) \in {Shown1(low), Shown1(high)} /\ Shown1(high) \in {Shown1(low), Shown1(high)}
                OBVIOUS
            <4> QED BY <4>1
        <3> QED BY <3>1, PairIs
    <2> QED BY <2>4, <2>5
<1> DEFINE items == Keyed(<<Shown1(low), Shown1(high)>>, 0)
           limbs == V("struct", 0, items)
<1>15. /\ items[1] = [key |-> 0, type |-> UInt, value |-> V("biguint", low, <<>>)]
       /\ items[2] = [key |-> 1, type |-> UInt, value |-> V("biguint", high, <<>>)]
       /\ DOMAIN items = 1 .. 2 /\ Len(items) = 2 /\ items = <<items[1], items[2]>>
    BY DEF Keyed, Decoded
<1> HIDE DEF items
<1>16. limbs.kind = "struct" /\ limbs.items = items
    BY DEF V
<1>17. IsLimbs(limbs)
    <2>1. [i \in DOMAIN items |-> items[i].key] = <<0, 1>>
        BY <1>15
    <2>2. \A i \in DOMAIN items : items[i].value.kind = "biguint"
        BY <1>15 DEF V
    <2> HIDE DEF limbs
    <2> QED BY <1>16, <2>1, <2>2 DEF IsLimbs
<1>18. FromLimbs(limbs) = x
    <2>1. limbs.items[1].value.num = low /\ limbs.items[2].value.num = high
        BY <1>15, <1>16 DEF V
    <2>2. low < Word
        BY <1>0, <1>2
    <2>3. FromLimbs(limbs) = low + Word * high
        BY <2>1, <2>2 DEF FromLimbs
    <2> QED BY <1>0, <1>2, <1>3, <2>3
<1>19. create_decoded_value_by_type(t, limbs) = Decoded(t, V("biguint", x, <<>>))
    <2> HIDE DEF limbs
    <2> QED BY <1>16, <1>17, <1>18 DEF create_decoded_value_by_type
<1>20. decode_type[t][data] = Whole(t, "struct", DecodeParts(ds, data))
    <2>1. decode_type[t][data] = DecoderOf(t, ds)[data]
        BY <1>5, DecodesAs
    <2> HIDE DEF ds, data
    <2> QED BY <1>5, <2>1 DEF DecoderOf, CannotRead
<1>21. decode_type[t][data] = Result(TRUE, Decoded(t, V("biguint", x, <<>>)), rest)
    <2>1. DecodeParts(ds, data) = [some |-> TRUE, dvs |-> <<Shown1(low), Shown1(high)>>, at |-> rest]
        BY <1>12, <1>14
    <2> DEFINE ps == [some |-> TRUE, dvs |-> <<Shown1(low), Shown1(high)>>, at |-> rest]
    <2>2. ps.some = TRUE /\ ps.dvs = <<Shown1(low), Shown1(high)>> /\ ps.at = rest
        OBVIOUS
    <2> HIDE DEF ps
    <2>3. Whole(t, "struct", ps) = Result(TRUE, create_decoded_value_by_type(t, limbs), rest)
        BY <2>2 DEF Whole, limbs, items
    <2>4. DecodeParts(ds, data) = ps
        BY <2>1 DEF ps
    <2> QED BY <1>19, <1>20, <2>3, <2>4
<1>22. Display[t][v] = V("biguint", x, <<>>)
    BY <1>1, DisplayedLeaf
<1> QED BY <1>4, <1>21, <1>22 DEF RoundTrips, Result

\* What cannot be read is not of a type that can be decoded.
LEMMA UnreadRoundTrip ==
    ASSUME NEW t \in Types, NEW v \in ValuesOf[t], NEW rest \in Seq(Felts),
           CannotRead(t, Serialize[t][v] \o rest)
    PROVE  RoundTrips(t, v, rest)
<1>0. Serialize[t][v] \in Seq(Felts)
    BY SerializedType
<1> DEFINE data == Serialize[t][v] \o rest
<1>1. data \in Seq(Felts)
    BY <1>0
<1>2. decode_type[t][data] = Fails(data)
    <2>1. decode_type[t][data] = DecoderOf(t, [i \in DOMAIN t.of |-> decode_type[t.of[i]]])[data]
        BY <1>1, DecodesAs
    <2>2. CannotRead(t, data)
        OBVIOUS
    <2> HIDE DEF data
    <2> QED BY <1>1, <2>1, <2>2 DEF DecoderOf
<1>3. decode_type[t][data].some = FALSE
    BY <1>2 DEF Fails, Result
<1>4. ASSUME t.k \in {"felt", "uint", "int", "bool", "array", "enum"} PROVE data # <<>>
    <2>1. Len(Serialize[t][v]) >= 1
        <3>0. \A x : \A s \in Seq(Felts) : Len(<<x>>) = 1 /\ Len(<<x>> \o s) >= 1
            OBVIOUS
        <3>1. CASE t.k \in {"felt", "uint", "int", "bool"}
            <4>1. \E x : Serialize[t][v] = <<x>>
                BY <3>1, SerializedLeaf
            <4> QED BY <3>0, <4>1
        <3>2. CASE t.k = "array"
            <4>1. Cat(Pieces(t, v)) \in Seq(Felts)
                BY <3>2, PiecesType, CatType DEF Listed
            <4>2. Serialize[t][v] = <<Len(v.list)>> \o Cat(Pieces(t, v))
                BY <3>2, SerializedList DEF Listed
            <4> QED BY <3>0, <4>1, <4>2
        <3>3. CASE t.k = "enum"
            <4>1. PICK i \in 0 .. Len(t.of) - 1 : /\ i \in Felts /\ i + 1 \in DOMAIN t.of
                                                  /\ v.list[1].leaf = i /\ v.list[2] \in ValuesOf[t.of[i + 1]]
                BY <3>3, VariantIs
            <4>2. i \in Nat /\ t.of[i + 1] \in Types
                BY <4>1, TypeIs
            <4>3. Serialize[t][v] = <<i>> \o Serialize[t.of[i + 1]][v.list[2]]
                BY <3>3, <4>1, <4>2, SerializedLeaf
            <4>4. Serialize[t.of[i + 1]][v.list[2]] \in Seq(Felts)
                BY <4>1, <4>2, SerializedType
            <4> QED BY <3>0, <4>3, <4>4
        <3> QED BY <1>4, <3>1, <3>2, <3>3
    <2>4. Len(data) = Len(Serialize[t][v]) + Len(rest)
        BY <1>0
    <2>5. Len(data) # 0
        BY <1>0, <2>1, <2>4
    <2> QED BY <2>5
<1>5. ~Decodable[t]
    <2>1. SUFFICES ASSUME Decodable[t] PROVE FALSE
        OBVIOUS
    <2>2. /\ t.k \notin {"unit", "unknown"} /\ (t.k = "tuple" => Splits(t))
          /\ t.k = "fixed" => t.n <= MaxArray
        BY <2>1, DecodableIs
    <2>3. CannotRead(t, data)
        OBVIOUS
    <2>4. ASSUME t.k = "array" PROVE data[1] = Len(v.list) /\ Len(v.list) <= MaxArray /\ Len(v.list) \in Nat
        <3>1. Cat(Pieces(t, v)) \in Seq(Felts)
            BY <2>4, PiecesType, CatType DEF Listed
        <3>2. Serialize[t][v] = <<Len(v.list)>> \o Cat(Pieces(t, v))
            BY <2>4, SerializedList DEF Listed
        <3>3. \A x : \A s, r \in Seq(Felts) : ((<<x>> \o s) \o r)[1] = x
            OBVIOUS
        <3>4. data[1] = Len(v.list)
            BY <3>1, <3>2, <3>3
        <3> QED BY <2>4, <3>4, ItemsAre DEF Listed
    <2>5. ~(t.k = "array" /\ data[1] > MaxArray)
        <3> HIDE DEF data
        <3> QED BY <2>4, FieldAssumption
    <2>6. ~(t.k = "fixed" /\ t.n > MaxArray)
        <3>1. t.n \in Nat
            BY TypeIs
        <3> QED BY <2>2, <3>1, FieldAssumption
    <2> HIDE DEF data
    <2> QED BY <1>4, <2>2, <2>3, <2>5, <2>6 DEF CannotRead
<1> QED BY <1>3, <1>5 DEF RoundTrips

\* A list is shown as it was written if its parts are.
LEMMA ListRoundTrip ==
    ASSUME NEW t \in Types, t.k \in Listed, \A i \in DOMAIN t.of : RoundTrip(t.of[i])
    PROVE  RoundTrip(t)
<1> SUFFICES ASSUME NEW v \in ValuesOf[t], NEW rest \in Seq(Felts) PROVE RoundTrips(t, v, rest)
    BY DEF RoundTrip
<1> DEFINE data == Serialize[t][v] \o rest
           types == ItemTypes(t, v)
           vals == v.list
           written == Cat(Written(types, vals)) \o rest
           ps == DecodeParts(Decoders(types), written)
<1>1. CASE CannotRead(t, data)
    BY <1>1, UnreadRoundTrip
<1>2. CASE ~CannotRead(t, data)
    <2>1. PICK n \in Nat : /\ n = Len(vals) /\ n = Len(types) /\ DOMAIN vals = 1 .. n /\ DOMAIN types = 1 .. n
                           /\ types \in Seq(Types)
                           /\ \A i \in 1 .. n : /\ \E j \in DOMAIN t.of : types[i] = t.of[j]
                                                /\ vals[i] \in ValuesOf[types[i]]
        <3> HIDE DEF types
        <3> QED BY ItemsAre DEF types
    <2>2. ValuesAre(types, vals)
        <3> HIDE DEF types, vals
        <3> QED BY <2>1 DEF ValuesAre
    <2>3. \A i \in 1 .. Len(types) : RoundTrip(types[i])
        <3> HIDE DEF types, vals
        <3> QED BY <2>1
    <2>4. Pieces(t, v) = Written(types, vals)
        BY <2>1 DEF Pieces, Written
    <2>5. written \in Seq(Felts) /\ data \in Seq(Felts)
        <3>1. Cat(Written(types, vals)) \in Seq(Felts)
            <4> HIDE DEF types, vals
            <4> QED BY <2>2, WrittenType, CatType
        <3>2. Serialize[t][v] \in Seq(Felts)
            BY SerializedType
        <3> QED BY <3>1, <3>2
    <2>6. /\ ps.some => ps.dvs = ToShow(types, vals) /\ ps.at = rest
          /\ (\A i \in 1 .. Len(types) : Decodable[types[i]]) => ps.some
        <3> HIDE DEF types, vals
        <3> QED BY <2>2, <2>3, PartsRoundTrip
    <2> DEFINE kind == IF t.k = "struct" THEN "struct" ELSE "array"
               parts == [i \in DOMAIN t.of |-> decode_type[t.of[i]]]
    <2>7. decode_type[t][data] = Whole(t, kind, ps)
        <3>1. decode_type[t][data] = DecoderOf(t, parts)[data]
            BY <2>5, DecodesAs
        <3>2. CASE t.k = "array"
            <4>1. Serialize[t][v] = <<n>> \o Cat(Written(types, vals))
                BY <2>1, <2>4, <3>2, SerializedList
            <4>2. n \in Felts
                BY <2>1, <3>2, ItemsAre, FieldAssumption DEF Felts
            <4>3. data = <<n>> \o written
                <5>1. <<n>> \in Seq(Felts) /\ Cat(Written(types, vals)) \in Seq(Felts)
                    <6> HIDE DEF types, vals
                    <6> QED BY <2>2, <4>2, WrittenType, CatType
                <5> DEFINE tail == Cat(Written(types, vals))
                <5>2. (<<n>> \o tail) \o rest = <<n>> \o (tail \o rest)
                    <6> HIDE DEF tail
                    <6> QED BY <5>1, FeltsAssociative DEF tail
                <5> HIDE DEF types, vals
                <5> QED BY <4>1, <5>2
            <4>4. data[1] = n /\ Tail(data) = written
                <5> HIDE DEF data, written
                <5> QED BY <2>5, <4>2, <4>3, FirstOf
            <4>5. Copies(parts[1], n) = Decoders(types)
                <5>1. 1 \in DOMAIN t.of
                    BY <3>2, TypeIs
                <5>2. \A i \in 1 .. n : types[i] = t.of[1]
                    BY <2>1, <3>2 DEF Copies, ItemTypes
                <5> HIDE DEF types
                <5> QED BY <2>1, <5>1, <5>2 DEF Copies, Decoders
            <4> HIDE DEF data, parts, written
            <4> QED BY <1>2, <2>5, <3>1, <3>2, <4>4, <4>5 DEF DecoderOf
        <3>3. CASE t.k # "array"
            <4>1. Serialize[t][v] = Cat(Written(types, vals))
                BY <2>4, <3>3, SerializedList
            <4>2. data = written
                BY <4>1
            <4>3. types = Members(t)
                BY <3>3 DEF ItemTypes
            <4>4. MembersOf(t, parts) = Decoders(types)
                <5>1. MembersOf(t, parts) = [i \in DOMAIN Members(t) |-> decode_type[Members(t)[i]]]
                    BY MembersApply
                <5> HIDE DEF parts, types
                <5> QED BY <2>1, <4>3, <5>1 DEF Decoders
            <4>5. t.k = "struct" => MembersOf(t, parts) = parts
                BY DEF MembersOf
            <4>6. t.k \in {"fixed", "tuple", "struct"}
                BY <1>2, <3>3 DEF Listed, CannotRead
            <4> HIDE DEF data, parts, written, types, vals
            <4> QED BY <1>2, <2>5, <3>1, <3>3, <4>2, <4>4, <4>5, <4>6 DEF DecoderOf
        <3> QED BY <3>2, <3>3
    <2>8. ASSUME ps.some
          PROVE  decode_type[t][data] = Result(TRUE, Decoded(t, Display[t][v]), rest)
        <3>1. ps.dvs = ToShow(types, vals) /\ ps.at = rest
            BY <2>6, <2>8
        <3> DEFINE toShow == IF kind = "array" THEN Values(ps.dvs) ELSE Keyed(ps.dvs, 0)
        <3>2. Whole(t, kind, ps) = Result(TRUE, create_decoded_value_by_type(t, V(kind, 0, toShow)), rest)
            <4> HIDE DEF ps, kind
            <4> QED BY <2>8, <3>1 DEF Whole
        <3>3. create_decoded_value_by_type(t, V(kind, 0, toShow)) = Decoded(t, V(kind, 0, toShow))
            <4> HIDE DEF toShow, kind
            <4> QED BY DEF create_decoded_value_by_type, Listed
        <3>4. V(kind, 0, toShow) = Display[t][v]
            <4> DEFINE dvs == ToShow(types, vals)
            <4>1. DOMAIN dvs = 1 .. n /\ \A i \in 1 .. n : dvs[i] = Decoded(types[i], Display[types[i]][vals[i]])
                <5> HIDE DEF types, vals
                <5> QED BY <2>1 DEF ToShow
            <4> HIDE DEF dvs
            <4>2. Values(dvs) = ShownItems(t, v)
                <5>1. \A i \in 1 .. n : dvs[i].value = Display[types[i]][vals[i]]
                    <6> HIDE DEF types, vals
                    <6> QED BY <4>1 DEF Decoded
                <5> QED BY <2>1, <4>1, <5>1 DEF Values, ShownItems
            <4>3. Keyed(dvs, 0) = ShownFields(t, v)
                <5>1. Keyed(dvs, 0) = [i \in 1 .. n |-> [dvs[i] EXCEPT !.key = 0 + i - 1]]
                    BY <4>1 DEF Keyed
                <5>2. \A i \in 1 .. n : 0 + i - 1 = i - 1
                    OBVIOUS
                <5>3. Keyed(dvs, 0) = [i \in 1 .. n |-> [Decoded(types[i], Display[types[i]][vals[i]]) EXCEPT !.key = i - 1]]
                    <6> HIDE DEF types, vals
                    <6> QED BY <4>1, <5>1, <5>2
                <5>4. ShownFields(t, v) = [i \in 1 .. n |-> [Decoded(types[i], Display[types[i]][vals[i]]) EXCEPT !.key = i - 1]]
                    BY <2>1 DEF ShownFields
                <5> QED BY <5>3, <5>4
            <4>4. toShow = IF kind = "array" THEN Values(dvs) ELSE Keyed(dvs, 0)
                <5> HIDE DEF ps, kind
                <5> QED BY <3>1 DEF dvs
            <4>5. t.k \in Listed \ {"unit"}
                BY <1>2 DEF CannotRead
            <4>6. Display[t][v] = IF t.k = "struct" THEN V("struct", 0, ShownFields(t, v)) ELSE V("array", 0, ShownItems(t, v))
                BY <4>5, DisplayedList
            <4> HIDE DEF toShow
            <4> QED BY <4>2, <4>3, <4>4, <4>6
        <3> HIDE DEF toShow, kind, ps
        <3> QED BY <2>7, <3>2, <3>3, <3>4
    <2>9. ASSUME ~ps.some PROVE decode_type[t][data].some = FALSE
        <3> HIDE DEF kind, ps, data
        <3> QED BY <2>7, <2>9 DEF Whole, Fails, Result
    <2>10. ASSUME Decodable[t] PROVE ps.some
        <3>1. \A i \in DOMAIN t.of : Decodable[t.of[i]]
            BY <2>10, DecodableIs DEF Listed
        <3>2. \A i \in 1 .. Len(types) : Decodable[types[i]]
            <4> HIDE DEF types, vals
            <4> QED BY <2>1, <3>1
        <3> HIDE DEF types, vals, ps
        <3> QED BY <2>6, <3>2
    <2>11. ASSUME ps.some PROVE RoundTrips(t, v, rest)
        BY <2>8, <2>11 DEF RoundTrips, Result
    <2>12. ASSUME ~ps.some PROVE RoundTrips(t, v, rest)
        <3>1. decode_type[t][data].some = FALSE /\ ~Decodable[t]
            BY <2>9, <2>10, <2>12
        <3> QED BY <3>1 DEF RoundTrips
    <2> QED BY <2>11, <2>12
<1> QED BY <1>1, <1>2

\* An enum is shown as it was written if its payload is.
LEMMA EnumRoundTrip ==
    ASSUME NEW t \in Types, t.k = "enum", \A i \in DOMAIN t.of : RoundTrip(t.of[i])
    PROVE  RoundTrip(t)
<1> SUFFICES ASSUME NEW v \in ValuesOf[t], NEW rest \in Seq(Felts) PROVE RoundTrips(t, v, rest)
    BY DEF RoundTrip
<1> DEFINE data == Serialize[t][v] \o rest
           parts == [j \in DOMAIN t.of |-> decode_type[t.of[j]]]
<1>1. PICK i \in 0 .. Len(t.of) - 1 : /\ i \in Felts /\ i + 1 \in DOMAIN t.of
                                      /\ v.list[1].leaf = i /\ v.list[2] \in ValuesOf[t.of[i + 1]]
    BY VariantIs
<1>2. PICK u \in Types : u = t.of[i + 1]
    BY <1>1, TypeIs
<1>3. PICK payload \in ValuesOf[u] : payload = v.list[2]
    BY <1>1, <1>2
<1>4. Len(t.of) \in Nat /\ i \in Nat
    BY TypeIs
<1>5. Serialize[t][v] = <<i>> \o Serialize[u][payload] /\ Serialize[u][payload] \in Seq(Felts)
    BY <1>1, <1>2, <1>3, <1>4, SerializedLeaf, SerializedType
<1> DEFINE left == Serialize[u][payload] \o rest
<1>6. left \in Seq(Felts) /\ data = <<i>> \o left
    <2>1. <<i>> \in Seq(Felts) /\ Serialize[u][payload] \in Seq(Felts)
        BY <1>1, <1>5
    <2>2. (<<i>> \o Serialize[u][payload]) \o rest = <<i>> \o left
        BY <2>1, FeltsAssociative, Zenon
    <2>3. left \in Seq(Felts)
        BY <2>1
    <2> QED BY <1>5, <2>2, <2>3
<1>7. data \in Seq(Felts) /\ data # <<>> /\ data[1] = i /\ Tail(data) = left
    <2> HIDE DEF data, left
    <2> QED BY <1>1, <1>6, FirstOf
<1>8. decode_type[t][data] = Variant(t, parts, i, left)
    <2>1. decode_type[t][data] = DecoderOf(t, parts)[data]
        BY <1>7, DecodesAs
    <2>2. ~CannotRead(t, data)
        <3> HIDE DEF data
        <3> QED BY <1>7 DEF CannotRead
    <2> HIDE DEF data, parts, left
    <2> QED BY <1>7, <2>1, <2>2 DEF DecoderOf
<1>9. ~(i >= Len(t.of))
    BY <1>4
<1>10. Display[t][v] = V("enum", i, <<IF u.k = "unit" THEN Decoded(Unknown, V("string", i, <<>>))
                                      ELSE Decoded(u, Display[u][payload])>>)
    BY <1>1, <1>2, <1>3, <1>4, DisplayedLeaf
<1>11. CASE u.k = "unit"
    <2>1. Serialize[u][payload] = <<>>
        <3>1. u.k \in Listed
            BY <1>11 DEF Listed
        <3>2. u.of = <<>>
            BY <1>11, TypesAssumption DEF IsType
        <3>3. ItemTypes(u, payload) = <<>>
            BY <1>11, <3>2 DEF ItemTypes, Members, MembersOf
        <3>4. Len(payload.list) = 0
            BY <3>1, <3>3, ItemsAre
        <3>5. Pieces(u, payload) \in Seq(Seq(Felts)) /\ Len(Pieces(u, payload)) = 0
            BY <3>1, <3>4, PiecesType
        <3>6. Pieces(u, payload) = <<>>
            BY <3>5
        <3>7. Cat(Pieces(u, payload)) = <<>>
            BY <3>5, <3>6, CatType
        <3> QED BY <1>11, <3>1, <3>7, SerializedList
    <2>2. left = rest
        BY <2>1
    <2>3. decode_type[t][data] = Result(TRUE, Decoded(t, Display[t][v]), rest)
        <3> HIDE DEF data, parts, left
        <3> QED BY <1>2, <1>8, <1>9, <1>10, <1>11, <2>2 DEF Variant
    <2> QED BY <2>3 DEF RoundTrips, Result
<1>12. CASE u.k # "unit"
    <2>1. PICK r : r = decode_type[u][left]
        OBVIOUS
    <2>2. RoundTrips(u, payload, rest)
        BY <1>1, <1>2 DEF RoundTrip
    <2>3. (r.some => r.dv = Decoded(u, Display[u][payload]) /\ r.at = rest) /\ (Decodable[u] => r.some)
        BY <2>1, <2>2 DEF RoundTrips
    <2>4. decode_type[t][data] = IF r.some THEN Result(TRUE, Decoded(t, V("enum", i, <<r.dv>>)), r.at) ELSE r
        <3>1. parts[i + 1] = decode_type[u]
            BY <1>1, <1>2
        <3> HIDE DEF data, parts, left
        <3> QED BY <1>2, <1>8, <1>9, <1>12, <2>1, <3>1 DEF Variant
    <2>5. Decodable[t] => Decodable[u]
        <3>1. ASSUME Decodable[t] PROVE Decodable[u] \/ (t.k = "enum" /\ u.k = "unit")
            <4>1. \A j \in DOMAIN t.of : Decodable[t.of[j]] \/ (t.k = "enum" /\ t.of[j].k = "unit")
                BY <3>1, DecodableIs
            <4> QED BY <1>1, <1>2, <4>1
        <3> QED BY <1>12, <3>1
    <2>6. CASE r.some
        <3>1. decode_type[t][data] = Result(TRUE, Decoded(t, Display[t][v]), rest)
            <4> HIDE DEF data
            <4> QED BY <1>10, <1>12, <2>3, <2>4, <2>6
        <3> QED BY <3>1 DEF RoundTrips, Result
    <2>7. CASE ~r.some
        <3>1. decode_type[t][data] = r /\ ~Decodable[t]
            BY <2>3, <2>4, <2>5, <2>7
        <3> QED BY <2>7, <3>1 DEF RoundTrips
    <2> QED BY <2>6, <2>7
<1> QED BY <1>11, <1>12

\* A value that is decoded is the one that was written, and a value of a type that can be
\* decoded is: also with more data after it.
LEMMA EveryRoundTrip ==
    \A t \in Types : RoundTrip(t)
<1> DEFINE P == {t \in Types : RoundTrip(t)}
<1>1. ASSUME NEW t \in Types, \A i \in DOMAIN t.of : t.of[i] \in P PROVE t \in P
    <2>1. \A i \in DOMAIN t.of : RoundTrip(t.of[i])
        BY <1>1
    <2>2. t.k \in Kinds
        BY TypeIs
    <2>3. CASE t.k = "unknown"
        BY <2>3, LeafIs DEF RoundTrip
    <2>4. CASE t.k \in {"felt", "uint", "int", "bool"}
        BY <2>4, LeafRoundTrip
    <2>5. CASE t.k = "u256"
        BY <2>5, U256RoundTrip
    <2>6. CASE t.k \in Listed
        BY <2>1, <2>6, ListRoundTrip
    <2>7. CASE t.k = "enum"
        BY <2>1, <2>7, EnumRoundTrip
    <2> QED BY <2>2, <2>3, <2>4, <2>5, <2>6, <2>7 DEF Kinds, Listed
<1> HIDE DEF P
<1>2. Types \subseteq P
    BY <1>1, TypeInduction
<1> QED BY <1>2 DEF P

-----------------------------------------------------------------------------
(* The calldata of a call *)

LEMMA CalldataDecodes ==
    ASSUME NEW types \in Seq(Types), NEW data \in Seq(Felts)
    PROVE  decode_calldata(types, data).dvs \in Seq(Field(MaxDepth))
<1> DEFINE ps == DecodeParts(Decoders(types), data)
<1>1. ps \in PartsOutcome(Field(MaxDepth))
    <2> DEFINE D == Field(MaxDepth)
    <2> HIDE DEF D
    <2>1. /\ Decoders(types) \in Seq([Seq(Felts) -> [some : BOOLEAN, dv : D, at : Seq(Felts)]])
          /\ Len(Decoders(types)) \in Nat
        BY DecodersType DEF D
    <2>2. PICK upto \in [0 .. Len(Decoders(types)) -> PartsOutcome(D)] : Reads(Decoders(types), data, upto)
        BY <2>1, PartsRead
    <2>3. upto[Len(Decoders(types))] \in PartsOutcome(D)
        BY <2>1, <2>2
    <2> QED BY <2>2, <2>3 DEF Reads, D
<1>2. [i \in DOMAIN types |-> decode_type[types[i]]] = Decoders(types)
    BY DEF Decoders
<1>3. decode_calldata(types, data) = [ps EXCEPT !.some = ps.some /\ ps.at = <<>>]
    <2> HIDE DEF ps
    <2> QED BY <1>2 DEF decode_calldata, ps
<1>4. decode_calldata(types, data).dvs = ps.dvs
    <2> HIDE DEF ps
    <2> QED BY <1>1, <1>3 DEF PartsOutcome
<1> HIDE DEF ps
<1> QED BY <1>1, <1>4 DEF PartsOutcome

\* The arguments are shown as they were written, if they are decoded; they are if there is no
\* more data, and their types can be decoded.
THEOREM CalldataRoundTrip ==
    ASSUME NEW types \in Seq(Types), NEW args, ValuesAre(types, args), NEW rest \in Seq(Felts)
    PROVE  LET ps == decode_calldata(types, ArgsFelts(types, args) \o rest)
           IN /\ ps.some => rest = <<>> /\ ps.dvs = ToShow(types, args)
              /\ rest = <<>> /\ (\A i \in DOMAIN types : Decodable[types[i]]) => ps.some
              /\ ArgsFelts(types, args) \in Seq(Felts)
<1>1. DOMAIN types = 1 .. Len(types)
    OBVIOUS
<1>2. ArgsFelts(types, args) = Cat(Written(types, args))
    BY <1>1 DEF ArgsFelts, Written
<1>3. [i \in DOMAIN types |-> decode_type[types[i]]] = Decoders(types)
    BY <1>1 DEF Decoders
<1> DEFINE data == ArgsFelts(types, args) \o rest
           ps == DecodeParts(Decoders(types), data)
           all == decode_calldata(types, data)
<1>4. \A i \in 1 .. Len(types) : RoundTrip(types[i])
    BY <1>1, EveryRoundTrip
<1>5. /\ ps \in PartsOutcome(Field(MaxDepth))
      /\ ps.some => ps.dvs = ToShow(types, args) /\ ps.at = rest
      /\ (\A i \in 1 .. Len(types) : Decodable[types[i]]) => ps.some
    BY <1>2, <1>4, PartsRoundTrip
<1>6. all = [ps EXCEPT !.some = ps.some /\ ps.at = <<>>]
    <2> HIDE DEF ps
    <2> QED BY <1>3 DEF decode_calldata, ps
<1> HIDE DEF ps, all
<1>7. all.dvs = ps.dvs /\ all.some = (ps.some /\ ps.at = <<>>)
    BY <1>5, <1>6 DEF PartsOutcome
<1>8. ASSUME all.some PROVE rest = <<>> /\ all.dvs = ToShow(types, args)
    BY <1>5, <1>7, <1>8
<1>9. ASSUME rest = <<>>, \A i \in DOMAIN types : Decodable[types[i]] PROVE all.some
    <2>1. ps.some
        BY <1>1, <1>5, <1>9
    <2>2. ps.at = <<>>
        BY <1>5, <1>9, <2>1
    <2> QED BY <1>7, <2>1, <2>2
<1>10. ArgsFelts(types, args) \in Seq(Felts)
    BY <1>2, WrittenType, CatType
<1> USE DEF all
<1> QED BY <1>8, <1>9, <1>10

-----------------------------------------------------------------------------
(* The list of calls *)

ParsedStep(a) ==
    IF Len(a.rest) < 3 \/ Len(a.rest) < 3 + a.rest[3] THEN a
    ELSE [calls |-> Append(a.calls, [to |-> a.rest[1], data |-> SubSeq(a.rest, 4, 3 + a.rest[3])]),
          rest |-> SubSeq(a.rest, 4 + a.rest[3], Len(a.rest))]

LEMMA ParseSteps ==
    ASSUME NEW data, NEW n \in Nat, n = data[1], ~(Len(data) < 3)
    PROVE  \E parsed : /\ parsed[0] = [calls |-> <<>>, rest |-> Tail(data)]
                       /\ \A m \in 1 .. n : parsed[m] = ParsedStep(parsed[m - 1])
                       /\ parse_multicall_calls(data) = parsed[n].calls
<1> DEFINE first == [calls |-> <<>>, rest |-> Tail(data)]
           At(m, f) == IF m = 0 THEN first ELSE ParsedStep(f[m - 1])
           Solves(f, k) == f = [m \in 0 .. k |-> At(m, f)]
           P == {k \in Nat : \E f : Solves(f, k)}
<1>1. 0 \in P
    <2> DEFINE f == [m \in 0 .. 0 |-> first]
    <2>1. Solves(f, 0)
        OBVIOUS
    <2> QED BY <2>1
<1>2. ASSUME NEW k \in P PROVE k + 1 \in P
    <2>1. PICK g : Solves(g, k)
        OBVIOUS
    <2> DEFINE f == [m \in 0 .. k + 1 |-> At(m, g)]
    <2> HIDE DEF first
    <2>2. ASSUME NEW m \in 0 .. k + 1, m # 0 PROVE f[m - 1] = g[m - 1]
        <3>1. m - 1 \in 0 .. k /\ m - 1 \in 0 .. k + 1
            BY <2>2
        <3>2. f[m - 1] = At(m - 1, g)
            BY <3>1
        <3>3. g[m - 1] = At(m - 1, g)
            BY <2>1, <3>1
        <3> QED BY <3>2, <3>3
    <2>3. ASSUME NEW m \in 0 .. k + 1 PROVE At(m, f) = At(m, g)
        <3> HIDE DEF f
        <3> QED BY <2>2
    <2>4. Solves(f, k + 1)
        <3> HIDE DEF At
        <3> QED BY <2>3
    <2> HIDE DEF f, Solves
    <2> QED BY <2>4
<1>3. PICK g : Solves(g, n)
    <2> HIDE DEF P
    <2>1. Nat \subseteq P
        BY <1>1, <1>2, CountUp
    <2> QED BY <2>1 DEF P
<1> DEFINE parsed == CHOOSE f : Solves(f, n)
<1>4. Solves(parsed, n)
    <2> HIDE DEF Solves
    <2> QED BY <1>3
<1>5. parse_multicall_calls(data) = parsed[n].calls
    BY DEF parse_multicall_calls, ParsedStep
<1> HIDE DEF parsed
<1>6. \A m \in 0 .. n : parsed[m] = At(m, parsed)
    <2> HIDE DEF At
    <2> QED BY <1>4
<1>7. parsed[0] = first /\ \A m \in 1 .. n : parsed[m] = ParsedStep(parsed[m - 1])
    <2>1. parsed[0] = At(0, parsed) /\ \A m \in 1 .. n : parsed[m] = At(m, parsed) /\ m # 0
        <3> HIDE DEF At
        <3> QED BY <1>6
    <2> HIDE DEF first
    <2> QED BY <2>1
<1> QED BY <1>5, <1>7

LEMMA CallFeltsType ==
    ASSUME NEW to \in Felts, NEW d \in Seq(Felts), Len(d) < Prime
    PROVE  /\ CallFelts(to, d) \in Seq(Felts) /\ Len(CallFelts(to, d)) = 3 + Len(d)
           /\ CallFelts(to, d)[1] = to /\ CallFelts(to, d)[3] = Len(d)
           /\ \A i \in 1 .. Len(d) : CallFelts(to, d)[3 + i] = d[i]
<1> DEFINE head == <<to, Selector0, Len(d)>>
<1>1. head \in Seq(Felts) /\ Len(head) = 3 /\ head[1] = to /\ head[3] = Len(d)
    <2>1. Len(d) \in Felts /\ Selector0 \in Felts
        BY FieldAssumption DEF Felts, Selector0
    <2> QED BY <2>1
<1>2. CallFelts(to, d) = head \o d
    BY DEF CallFelts
<1> HIDE DEF head
<1>3. /\ head \o d \in Seq(Felts) /\ Len(head \o d) = Len(head) + Len(d)
      /\ \A i \in 1 .. Len(head) + Len(d) : (head \o d)[i] = IF i <= Len(head) THEN head[i] ELSE d[i - Len(head)]
    BY <1>1, ConcatProperties
<1>4. PICK n \in Nat : n = Len(d)
    OBVIOUS
<1>5. PICK s \in Seq(Felts) : s = head \o d
    BY <1>3
<1>6. \A i \in 1 .. 3 + n : s[i] = IF i <= 3 THEN head[i] ELSE d[i - 3]
    BY <1>1, <1>3, <1>4, <1>5
<1>7. s[1] = to /\ s[3] = n
    <2>1. 1 \in 1 .. 3 + n /\ 3 \in 1 .. 3 + n
        OBVIOUS
    <2> QED BY <1>1, <1>4, <1>6, <2>1
<1>8. ASSUME NEW i \in 1 .. n PROVE s[3 + i] = d[i]
    <2>1. 3 + i \in 1 .. 3 + n /\ ~(3 + i <= 3) /\ (3 + i) - 3 = i
        OBVIOUS
    <2> QED BY <1>6, <2>1
<1>9. Len(s) = 3 + n
    BY <1>1, <1>3, <1>4, <1>5
<1> QED BY <1>2, <1>4, <1>5, <1>7, <1>8, <1>9

\* A call that is there is read.
LEMMA CallIsParsed ==
    \A to \in Felts, d \in Seq(Felts), rest \in Seq(Felts) : \A calls :
        Len(d) < Prime => ParsedStep([calls |-> calls, rest |-> CallFelts(to, d) \o rest])
                          = [calls |-> Append(calls, [to |-> to, data |-> d]), rest |-> rest]
<1> SUFFICES ASSUME NEW to \in Felts, NEW d \in Seq(Felts), NEW rest \in Seq(Felts), NEW calls, Len(d) < Prime
             PROVE  ParsedStep([calls |-> calls, rest |-> CallFelts(to, d) \o rest])
                    = [calls |-> Append(calls, [to |-> to, data |-> d]), rest |-> rest]
    OBVIOUS
<1> DEFINE head == CallFelts(to, d)
           s == head \o rest
           a == [calls |-> calls, rest |-> s]
<1>0. PICK n \in Nat : n = Len(d)
    OBVIOUS
<1>1. /\ head \in Seq(Felts) /\ Len(head) = 3 + n /\ head[1] = to /\ head[3] = n
      /\ \A i \in 1 .. n : head[3 + i] = d[i]
    BY <1>0, CallFeltsType
<1> HIDE DEF head
<1>2. PICK k \in Nat : k = Len(rest)
    OBVIOUS
<1>3. /\ s \in Seq(Felts) /\ Len(s) = 3 + n + k
      /\ \A i \in 1 .. 3 + n + k : s[i] = IF i <= 3 + n THEN head[i] ELSE rest[i - (3 + n)]
    <2>1. /\ head \o rest \in Seq(Felts) /\ Len(head \o rest) = Len(head) + Len(rest)
          /\ \A i \in 1 .. Len(head) + Len(rest) :
                (head \o rest)[i] = IF i <= Len(head) THEN head[i] ELSE rest[i - Len(head)]
        BY <1>1, ConcatProperties
    <2> QED BY <1>1, <1>2, <2>1 DEF s
<1> HIDE DEF s
<1>4. s[1] = to /\ s[3] = n
    <2>1. 1 \in 1 .. 3 + n + k /\ 3 \in 1 .. 3 + n + k /\ 1 <= 3 + n /\ 3 <= 3 + n
        OBVIOUS
    <2> QED BY <1>1, <1>3, <2>1
<1>5. SubSeq(s, 4, 3 + n) = d
    <2>1. /\ SubSeq(s, 4, 3 + n) \in Seq(Felts) /\ Len(SubSeq(s, 4, 3 + n)) = n
          /\ \A i \in 1 .. n : SubSeq(s, 4, 3 + n)[i] = s[3 + i]
        <3>1. \A i \in 4 .. 3 + n : s[i] \in Felts
            BY <1>3
        <3>2. /\ SubSeq(s, 4, 3 + n) \in Seq(Felts)
              /\ Len(SubSeq(s, 4, 3 + n)) = IF 4 <= 3 + n THEN (3 + n) - 4 + 1 ELSE 0
              /\ \A i \in 1 .. (3 + n) - 4 + 1 : SubSeq(s, 4, 3 + n)[i] = s[4 + i - 1]
            BY <3>1, SubSeqProperties
        <3>3. (3 + n) - 4 + 1 = n /\ \A i \in 1 .. n : 4 + i - 1 = 3 + i
            OBVIOUS
        <3>4. (IF 4 <= 3 + n THEN (3 + n) - 4 + 1 ELSE 0) = n
            OBVIOUS
        <3> QED BY <3>2, <3>3, <3>4
    <2>2. \A i \in 1 .. n : s[3 + i] = d[i]
        <3> SUFFICES ASSUME NEW i \in 1 .. n PROVE s[3 + i] = d[i]
            OBVIOUS
        <3>1. 3 + i \in 1 .. 3 + n + k /\ 3 + i <= 3 + n
            OBVIOUS
        <3> QED BY <1>1, <1>3, <3>1
    <2> QED BY <1>0, <2>1, <2>2, SeqEqual
<1>6. SubSeq(s, 4 + n, Len(s)) = rest
    <2>1. /\ SubSeq(s, 4 + n, 3 + n + k) \in Seq(Felts) /\ Len(SubSeq(s, 4 + n, 3 + n + k)) = k
          /\ \A i \in 1 .. k : SubSeq(s, 4 + n, 3 + n + k)[i] = s[3 + n + i]
        <3>1. \A i \in 4 + n .. 3 + n + k : s[i] \in Felts
            BY <1>3
        <3>2. /\ SubSeq(s, 4 + n, 3 + n + k) \in Seq(Felts)
              /\ Len(SubSeq(s, 4 + n, 3 + n + k)) = IF 4 + n <= 3 + n + k THEN (3 + n + k) - (4 + n) + 1 ELSE 0
              /\ \A i \in 1 .. (3 + n + k) - (4 + n) + 1 : SubSeq(s, 4 + n, 3 + n + k)[i] = s[(4 + n) + i - 1]
            BY <3>1, SubSeqProperties
        <3>3. (3 + n + k) - (4 + n) + 1 = k /\ \A i \in 1 .. k : (4 + n) + i - 1 = 3 + n + i
            OBVIOUS
        <3>4. (IF 4 + n <= 3 + n + k THEN (3 + n + k) - (4 + n) + 1 ELSE 0) = k
            OBVIOUS
        <3> QED BY <3>2, <3>3, <3>4
    <2>2. \A i \in 1 .. k : s[3 + n + i] = rest[i]
        <3> SUFFICES ASSUME NEW i \in 1 .. k PROVE s[3 + n + i] = rest[i]
            OBVIOUS
        <3>1. 3 + n + i \in 1 .. 3 + n + k /\ ~(3 + n + i <= 3 + n) /\ (3 + n + i) - (3 + n) = i
            OBVIOUS
        <3> QED BY <1>3, <3>1
    <2> QED BY <1>2, <1>3, <2>1, <2>2, SeqEqual
<1>7. ~(Len(s) < 3 \/ Len(s) < 3 + s[3])
    BY <1>3, <1>4
<1>8. a.rest = s /\ a.calls = calls
    OBVIOUS
<1> HIDE DEF a
<1>9. ParsedStep(a) = [calls |-> Append(calls, [to |-> to, data |-> d]), rest |-> rest]
    BY <1>4, <1>5, <1>6, <1>7, <1>8 DEF ParsedStep
<1> USE DEF a, s, head
<1> QED BY <1>9

CallsAre(calls, datas) ==
    /\ Len(calls) \in 1 .. Prime - 1 /\ DOMAIN calls = 1 .. Len(calls)
    /\ \A k \in 1 .. Len(calls) : calls[k].to \in Felts /\ datas[k] \in Seq(Felts) /\ Len(datas[k]) < Prime
ParsedCall == [to : Felts, data : Seq(Felts)]
Upto(calls, datas, m) == [k \in 1 .. m |-> [to |-> calls[k].to, data |-> datas[k]]]

LEMMA CallsCount ==
    ASSUME NEW calls, NEW datas, CallsAre(calls, datas)
    PROVE  \E n \in Felts : /\ n = Len(calls) /\ n \in Nat /\ n \in 1 .. n /\ DOMAIN calls = 1 .. n
                            /\ \A k \in 1 .. n : /\ calls[k].to \in Felts
                                                 /\ datas[k] \in Seq(Felts) /\ Len(datas[k]) < Prime
<1>1. PICK p \in Nat : p = Prime
    BY FieldAssumption
<1>2. Len(calls) \in 1 .. p - 1
    BY <1>1 DEF CallsAre
<1>3. PICK n \in 1 .. p - 1 : n = Len(calls)
    BY <1>2
<1>4. n \in Felts /\ n \in Nat /\ n \in 1 .. n
    BY <1>1, <1>3 DEF Felts
<1> QED BY <1>3, <1>4 DEF CallsAre

LEMMA UptoType ==
    ASSUME NEW calls, NEW datas, CallsAre(calls, datas), NEW m \in 0 .. Len(calls)
    PROVE  /\ Upto(calls, datas, m) \in Seq(ParsedCall) /\ Len(Upto(calls, datas, m)) = m
           /\ m > 0 => Upto(calls, datas, m)
                       = Append(Upto(calls, datas, m - 1), [to |-> calls[m].to, data |-> datas[m]])
<1>1. PICK n \in Nat : /\ n = Len(calls)
                       /\ \A k \in 1 .. n : calls[k].to \in Felts /\ datas[k] \in Seq(Felts)
    BY CallsCount
<1>2. \A k \in 1 .. n : [to |-> calls[k].to, data |-> datas[k]] \in ParsedCall
    BY <1>1 DEF ParsedCall
<1>3. ASSUME NEW j \in 0 .. n PROVE Upto(calls, datas, j) \in Seq(ParsedCall) /\ Len(Upto(calls, datas, j)) = j
    <2>1. Upto(calls, datas, j) \in [1 .. j -> ParsedCall]
        BY <1>2 DEF Upto
    <2> QED BY <2>1, SeqDef, LenProperties
<1>4. ASSUME m > 0
      PROVE  Upto(calls, datas, m) = Append(Upto(calls, datas, m - 1), [to |-> calls[m].to, data |-> datas[m]])
    <2>1. PICK j \in 0 .. n : j = m - 1
        BY <1>1, <1>4
    <2> DEFINE s == Upto(calls, datas, m)
               a == Upto(calls, datas, j)
               h == [to |-> calls[m].to, data |-> datas[m]]
    <2>2. s \in Seq(ParsedCall) /\ Len(s) = m /\ a \in Seq(ParsedCall) /\ Len(a) = j
        BY <1>1, <1>3
    <2>3. h \in ParsedCall
        BY <1>1, <1>2, <1>4
    <2>4. (\A i \in 1 .. j : a[i] = s[i]) /\ s[m] = h
        BY <1>4, <2>1 DEF Upto
    <2> HIDE DEF s, a, h
    <2>5. /\ Append(a, h) \in Seq(ParsedCall) /\ Len(Append(a, h)) = j + 1
          /\ \A i \in 1 .. j : Append(a, h)[i] = a[i]
          /\ Append(a, h)[j + 1] = h
        BY <2>2, <2>3, AppendProperties
    <2>6. \A i \in 1 .. m : s[i] = Append(a, h)[i]
        BY <2>1, <2>4, <2>5
    <2>7. s = Append(a, h)
        BY <2>1, <2>2, <2>5, <2>6, SeqEqual
    <2> USE DEF s, a, h
    <2> QED BY <2>1, <2>7
<1> QED BY <1>1, <1>3, <1>4

\* The calls are read up to where less than a call is left.
LEMMA ParsesUpto ==
    ASSUME NEW calls, NEW datas, CallsAre(calls, datas), NEW j \in 0 .. Len(calls),
           NEW left \in [0 .. j -> Seq(Felts)],
           \A m \in 1 .. j : left[m - 1] = CallFelts(calls[m].to, datas[m]) \o left[m],
           NEW data, Len(data) >= 3, data[1] = Len(calls), Tail(data) = left[0],
           j = Len(calls) \/ (j + 1 = Len(calls) /\ (Len(left[j]) < 3 \/ Len(left[j]) < 3 + left[j][3])),
           Len(data) \in Nat
    PROVE  parse_multicall_calls(data) = Upto(calls, datas, j)
<1>1. PICK n \in Nat : /\ n = Len(calls) /\ n = data[1] /\ j \in 0 .. n /\ j \in Nat
                       /\ \A k \in 1 .. n : /\ calls[k].to \in Felts
                                            /\ datas[k] \in Seq(Felts) /\ Len(datas[k]) < Prime
    <2>1. PICK n \in Nat : /\ n = Len(calls)
                           /\ \A k \in 1 .. n : /\ calls[k].to \in Felts
                                                /\ datas[k] \in Seq(Felts) /\ Len(datas[k]) < Prime
        BY CallsCount
    <2>2. j \in 0 .. n /\ j \in Nat
        BY <2>1
    <2> QED BY <2>1, <2>2
<1>2. ~(Len(data) < 3)
    OBVIOUS
<1>3. PICK parsed : /\ parsed[0] = [calls |-> <<>>, rest |-> Tail(data)]
                    /\ \A m \in 1 .. n : parsed[m] = ParsedStep(parsed[m - 1])
                    /\ parse_multicall_calls(data) = parsed[n].calls
    BY <1>1, <1>2, ParseSteps
<1> DEFINE Q == {m \in Nat : m <= j => parsed[m] = [calls |-> Upto(calls, datas, m), rest |-> left[m]]}
<1>4. 0 \in Q
    <2>1. Upto(calls, datas, 0) = <<>>
        BY DEF Upto
    <2> QED BY <1>3, <2>1
<1>5. ASSUME NEW k \in Q PROVE k + 1 \in Q
    <2> SUFFICES ASSUME k + 1 <= j
                 PROVE  parsed[k + 1] = [calls |-> Upto(calls, datas, k + 1), rest |-> left[k + 1]]
        OBVIOUS
    <2>1. PICK m \in 1 .. j : m = k + 1 /\ m - 1 = k /\ m \in 1 .. n /\ m \in 0 .. Len(calls)
        BY <1>1
    <2>2. parsed[m] = ParsedStep([calls |-> Upto(calls, datas, k), rest |-> left[k]])
        <3>1. parsed[m] = ParsedStep(parsed[m - 1])
            BY <1>3, <2>1
        <3>2. parsed[k] = [calls |-> Upto(calls, datas, k), rest |-> left[k]]
            BY <2>1
        <3> QED BY <2>1, <3>1, <3>2
    <2>3. left[k] = CallFelts(calls[m].to, datas[m]) \o left[m] /\ left[m] \in Seq(Felts)
        <3>1. left[m - 1] = CallFelts(calls[m].to, datas[m]) \o left[m]
            BY <2>1
        <3>2. m \in 0 .. j
            BY <2>1
        <3> QED BY <2>1, <3>1, <3>2
    <2>4. calls[m].to \in Felts /\ datas[m] \in Seq(Felts) /\ Len(datas[m]) < Prime
        BY <1>1, <2>1
    <2>5. parsed[m] = [calls |-> Append(Upto(calls, datas, k), [to |-> calls[m].to, data |-> datas[m]]), rest |-> left[m]]
        <3>1. ParsedStep([calls |-> Upto(calls, datas, k), rest |-> CallFelts(calls[m].to, datas[m]) \o left[m]])
              = [calls |-> Append(Upto(calls, datas, k), [to |-> calls[m].to, data |-> datas[m]]), rest |-> left[m]]
            BY <2>3, <2>4, CallIsParsed, Zenon
        <3> QED BY <2>2, <2>3, <3>1, Zenon
    <2>6. Upto(calls, datas, m) = Append(Upto(calls, datas, k), [to |-> calls[m].to, data |-> datas[m]])
        <3>1. m > 0 /\ m \in 0 .. Len(calls)
            BY <2>1
        <3>2. Upto(calls, datas, m) = Append(Upto(calls, datas, m - 1), [to |-> calls[m].to, data |-> datas[m]])
            BY <3>1, UptoType
        <3> QED BY <2>1, <3>2
    <2> QED BY <2>1, <2>5, <2>6
<1>6. parsed[j] = [calls |-> Upto(calls, datas, j), rest |-> left[j]]
    <2> HIDE DEF Q
    <2>1. Nat \subseteq Q
        BY <1>4, <1>5, CountUp
    <2>2. j \in Nat
        BY <1>1
    <2> QED BY <2>1, <2>2 DEF Q
<1>7. CASE j = Len(calls)
    BY <1>1, <1>3, <1>6, <1>7
<1>8. CASE j + 1 = Len(calls) /\ (Len(left[j]) < 3 \/ Len(left[j]) < 3 + left[j][3])
    <2>1. n \in 1 .. n /\ n - 1 = j
        BY <1>1, <1>8
    <2>2. parsed[n] = ParsedStep(parsed[j])
        BY <1>3, <2>1
    <2>3. ParsedStep(parsed[j]) = parsed[j]
        BY <1>6, <1>8 DEF ParsedStep
    <2> QED BY <1>3, <1>6, <2>2, <2>3
<1> QED BY <1>7, <1>8

Pieces2(calls, datas) == [k \in DOMAIN calls |-> CallFelts(calls[k].to, datas[k])]

LEMMA BatchType ==
    ASSUME NEW calls, NEW datas, CallsAre(calls, datas)
    PROVE  /\ Pieces2(calls, datas) \in Seq(Seq(Felts)) /\ Len(Pieces2(calls, datas)) = Len(calls)
           /\ \A k \in 1 .. Len(calls) : /\ Pieces2(calls, datas)[k] = CallFelts(calls[k].to, datas[k])
                                         /\ Len(Pieces2(calls, datas)[k]) = 3 + Len(datas[k])
           /\ Cat(Pieces2(calls, datas)) \in Seq(Felts) /\ Len(calls) \in Felts /\ Len(calls) \in Nat
           /\ Batch(calls, datas) = <<Len(calls)>> \o Cat(Pieces2(calls, datas))
           /\ Batch(calls, datas) \in Seq(Felts)
           /\ Len(Batch(calls, datas)) = 1 + Len(Cat(Pieces2(calls, datas)))
<1>1. PICK n \in Nat : /\ n = Len(calls) /\ n \in Felts /\ DOMAIN calls = 1 .. n
                       /\ \A k \in 1 .. n : /\ calls[k].to \in Felts
                                            /\ datas[k] \in Seq(Felts) /\ Len(datas[k]) < Prime
    BY CallsCount
<1>2. ASSUME NEW k \in 1 .. n
      PROVE  CallFelts(calls[k].to, datas[k]) \in Seq(Felts) /\ Len(CallFelts(calls[k].to, datas[k])) = 3 + Len(datas[k])
    <2>1. calls[k].to \in Felts /\ datas[k] \in Seq(Felts) /\ Len(datas[k]) < Prime
        BY <1>1
    <2> QED BY <2>1, CallFeltsType
<1>3. Pieces2(calls, datas) \in [1 .. n -> Seq(Felts)]
    BY <1>1, <1>2 DEF Pieces2
<1>4. Pieces2(calls, datas) \in Seq(Seq(Felts)) /\ Len(Pieces2(calls, datas)) = n
    BY <1>3, SeqDef, LenProperties
<1>5. \A k \in 1 .. n : Pieces2(calls, datas)[k] = CallFelts(calls[k].to, datas[k])
    BY <1>1 DEF Pieces2
<1>6. PICK cat \in Seq(Felts) : cat = Cat(Pieces2(calls, datas))
    BY <1>4, CatType
<1>7. Batch(calls, datas) = <<n>> \o cat
    BY <1>1, <1>6 DEF Batch, Pieces2
<1>8. <<n>> \o cat \in Seq(Felts) /\ Len(<<n>> \o cat) = 1 + Len(cat)
    BY <1>1
<1> QED BY <1>1, <1>2, <1>4, <1>5, <1>6, <1>7, <1>8

LEMMA PiecesLen ==
    ASSUME NEW calls, NEW datas, CallsAre(calls, datas)
    PROVE  \A k \in 1 .. Len(calls) : Len(Pieces2(calls, datas)[k]) = 3 + Len(datas[k])
<1>1. PICK n \in Nat : /\ n = Len(calls) /\ DOMAIN calls = 1 .. n
                       /\ \A k \in 1 .. n : /\ calls[k].to \in Felts
                                            /\ datas[k] \in Seq(Felts) /\ Len(datas[k]) < Prime
    BY CallsCount
<1>2. \A to \in Felts, d \in Seq(Felts) : Len(d) < Prime => Len(CallFelts(to, d)) = 3 + Len(d)
    BY CallFeltsType
<1>3. \A k \in 1 .. n : Len(CallFelts(calls[k].to, datas[k])) = 3 + Len(datas[k])
    BY <1>1, <1>2, Zenon
<1>4. \A k \in 1 .. n : Pieces2(calls, datas)[k] = CallFelts(calls[k].to, datas[k])
    BY <1>1 DEF Pieces2
<1> QED BY <1>1, <1>3, <1>4

\* All calls are read; also if there is more after them.
LEMMA BatchParses ==
    ASSUME NEW calls, NEW datas, CallsAre(calls, datas), NEW extra \in Seq(Felts)
    PROVE  parse_multicall_calls(Batch(calls, datas) \o extra) = Upto(calls, datas, Len(calls))
<1> DEFINE ss == Pieces2(calls, datas)
           data == Batch(calls, datas) \o extra
<1>1. PICK n \in Felts : /\ n = Len(calls) /\ n \in Nat /\ n \in 1 .. n /\ 1 \in 1 .. n /\ DOMAIN calls = 1 .. n
                         /\ \A k \in 1 .. n : /\ calls[k].to \in Felts
                                              /\ datas[k] \in Seq(Felts) /\ Len(datas[k]) < Prime
    <2>1. \A n \in Nat : n \in 1 .. n => 1 \in 1 .. n
        OBVIOUS
    <2> QED BY <2>1, CallsCount
<1>2. /\ ss \in Seq(Seq(Felts)) /\ Len(ss) = n
      /\ \A k \in 1 .. n : ss[k] = CallFelts(calls[k].to, datas[k])
      /\ Batch(calls, datas) = <<n>> \o Cat(ss)
      /\ Len(ss[1]) = 3 + Len(datas[1]) /\ Len(datas[1]) \in Nat /\ ss[1] \in Seq(Felts)
    <2>1. \A k \in 1 .. n : /\ ss[k] = CallFelts(calls[k].to, datas[k]) /\ ss[k] \in Seq(Felts)
                            /\ Len(ss[k]) = 3 + Len(datas[k])
        <3>1. \A k \in 1 .. n : ss[k] = CallFelts(calls[k].to, datas[k])
            BY <1>1 DEF Pieces2
        <3>2. \A k \in 1 .. n : /\ CallFelts(calls[k].to, datas[k]) \in Seq(Felts)
                                /\ Len(CallFelts(calls[k].to, datas[k])) = 3 + Len(datas[k])
            BY <1>1, CallFeltsType
        <3> QED BY <3>1, <3>2
    <2>2. 1 \in 1 .. n /\ datas[1] \in Seq(Felts)
        BY <1>1
    <2>3. ss \in Seq(Seq(Felts)) /\ Len(ss) = n /\ Batch(calls, datas) = <<n>> \o Cat(ss)
        BY <1>1, BatchType
    <2> HIDE DEF ss
    <2> QED BY <2>1, <2>2, <2>3
<1> HIDE DEF ss
<1>3. PICK tails \in [0 .. n -> Seq(Felts)] : IsTails(tails, ss)
    BY <1>2, CatTails
<1> DEFINE left == [m \in 0 .. n |-> tails[m] \o extra]
<1>4. left \in [0 .. n -> Seq(Felts)]
    BY <1>3
<1>5. ASSUME NEW m \in 1 .. n PROVE left[m - 1] = CallFelts(calls[m].to, datas[m]) \o left[m]
    <2>0. m - 1 \in 0 .. n /\ m \in 0 .. n
        BY <1>1
    <2>1. tails[m - 1] = ss[m] \o tails[m] /\ ss[m] = CallFelts(calls[m].to, datas[m])
        BY <1>2, <1>3 DEF IsTails
    <2>2. ss[m] \in Seq(Felts) /\ tails[m] \in Seq(Felts)
        <3>1. ss[m] \in Seq(Felts)
            BY <1>2
        <3>2. tails[m] \in Seq(Felts)
            BY <1>3, <2>0
        <3> QED BY <3>1, <3>2
    <2>3. (ss[m] \o tails[m]) \o extra = ss[m] \o (tails[m] \o extra)
        BY <2>2, FeltsAssociative, Zenon
    <2> QED BY <2>0, <2>1, <2>3
<1>6. PICK cat \in Seq(Felts) : cat = Cat(ss) /\ cat = tails[0] /\ Len(cat) >= 3
    <2>0. 0 \in 0 .. n /\ 1 \in 0 .. n /\ 1 - 1 = 0
        BY <1>1
    <2>1. tails[0] = Cat(ss) /\ tails[1] \in Seq(Felts) /\ tails[0] \in Seq(Felts)
        BY <1>3, <2>0 DEF IsTails
    <2>2. tails[0] = ss[1] \o tails[1]
        <3>1. tails[1 - 1] = ss[1] \o tails[1]
            BY <1>1, <1>2, <1>3 DEF IsTails
        <3> QED BY <2>0, <3>1, Zenon
    <2>3. PICK a \in Seq(Felts), b \in Seq(Felts) : a = ss[1] /\ b = tails[1]
        BY <1>2, <2>1
    <2>4. PICK k \in Nat : Len(a) = 3 + k
        BY <1>2, <2>3
    <2>5. Len(tails[0]) >= 3
        <3>1. Len(a \o b) = Len(a) + Len(b) /\ Len(b) \in Nat
            OBVIOUS
        <3>2. Len(a \o b) >= 3
            BY <2>4, <3>1
        <3> QED BY <2>2, <2>3, <3>2
    <2> QED BY <2>1, <2>5
<1>7. data = <<n>> \o (cat \o extra) /\ cat \o extra \in Seq(Felts)
    <2>1. <<n>> \in Seq(Felts)
        BY <1>1
    <2>2. (<<n>> \o cat) \o extra = <<n>> \o (cat \o extra)
        BY <2>1, FeltsAssociative, Zenon
    <2> QED BY <1>2, <1>6, <2>2
<1>8. data[1] = n /\ Tail(data) = cat \o extra /\ data \in Seq(Felts)
    <2> HIDE DEF data
    <2> QED BY <1>7, FirstOf
<1>9. Len(data) >= 3
    <2>1. Len(cat \o extra) = Len(cat) + Len(extra)
        OBVIOUS
    <2>2. Len(<<n>> \o (cat \o extra)) = 1 + Len(cat \o extra)
        BY <1>7
    <2>3. Len(extra) \in Nat /\ Len(cat) \in Nat
        OBVIOUS
    <2> HIDE DEF data
    <2> QED BY <1>6, <1>7, <2>1, <2>2, <2>3
<1>10. left[0] = Tail(data)
    <2>1. 0 \in 0 .. n
        BY <1>1
    <2> QED BY <1>6, <1>8, <2>1
<1>11. Len(data) \in Nat /\ n \in 0 .. n
    BY <1>1, <1>8
<1> HIDE DEF data, left
<1>12. parse_multicall_calls(data) = Upto(calls, datas, n)
    <2>1. n \in 0 .. Len(calls) /\ n = Len(calls) /\ data[1] = Len(calls) /\ Tail(data) = left[0]
        BY <1>1, <1>8, <1>10, <1>11
    <2>2. \A m \in 1 .. n : left[m - 1] = CallFelts(calls[m].to, datas[m]) \o left[m]
        BY <1>5
    <2> QED BY <1>4, <1>9, <1>11, <2>1, <2>2, ParsesUpto
<1> QED BY <1>1, <1>12 DEF data

Front(s) == SubSeq(s, 1, Len(s) - 1)

LEMMA FrontType ==
    \A t \in Seq(Felts) : t # <<>> =>
        /\ Len(t) \in Nat \ {0} /\ Front(t) \in Seq(Felts) /\ Len(Front(t)) = Len(t) - 1
        /\ \A i \in 1 .. Len(t) - 1 : Front(t)[i] = t[i]
<1> SUFFICES ASSUME NEW t \in Seq(Felts), t # <<>>
             PROVE  /\ Len(t) \in Nat \ {0} /\ Front(t) \in Seq(Felts) /\ Len(Front(t)) = Len(t) - 1
                    /\ \A i \in 1 .. Len(t) - 1 : Front(t)[i] = t[i]
    OBVIOUS
<1>1. PICK n \in Nat \ {0} : n = Len(t)
    OBVIOUS
<1>2. \A i \in 1 .. n - 1 : t[i] \in Felts
    BY <1>1
<1>3. /\ SubSeq(t, 1, n - 1) \in Seq(Felts)
      /\ Len(SubSeq(t, 1, n - 1)) = IF 1 <= n - 1 THEN (n - 1) - 1 + 1 ELSE 0
      /\ \A i \in 1 .. (n - 1) - 1 + 1 : SubSeq(t, 1, n - 1)[i] = t[1 + i - 1]
    BY <1>1, <1>2, SubSeqProperties
<1>4. (n - 1) - 1 + 1 = n - 1 /\ \A i \in 1 .. n - 1 : 1 + i - 1 = i
    OBVIOUS
<1>5. (IF 1 <= n - 1 THEN (n - 1) - 1 + 1 ELSE 0) = n - 1
    BY <1>1
<1> QED BY <1>1, <1>3, <1>4, <1>5 DEF Front

LEMMA FrontOfConcat ==
    \A s, t \in Seq(Felts) : t # <<>> => Front(s \o t) = s \o Front(t) /\ s \o t # <<>>
<1> SUFFICES ASSUME NEW s \in Seq(Felts), NEW t \in Seq(Felts), t # <<>>
             PROVE  Front(s \o t) = s \o Front(t) /\ s \o t # <<>>
    OBVIOUS
<1>1. PICK n \in Nat \ {0} : n = Len(t)
    OBVIOUS
<1>2. PICK k \in Nat : k = Len(s)
    OBVIOUS
<1>3. PICK u \in Seq(Felts) : u = s \o t
    <2>1. s \o t \in Seq(Felts)
        BY ConcatProperties
    <2> QED BY <2>1
<1>4. Len(u) = k + n /\ \A i \in 1 .. k + n : u[i] = IF i <= k THEN s[i] ELSE t[i - k]
    BY <1>1, <1>2, <1>3, ConcatProperties
<1>5. u # <<>>
    <2>1. Len(u) # 0
        BY <1>4
    <2> QED BY <2>1
<1>6. Front(u) \in Seq(Felts) /\ Len(Front(u)) = k + n - 1 /\ \A i \in 1 .. k + n - 1 : Front(u)[i] = u[i]
    <2>1. Front(u) \in Seq(Felts) /\ Len(Front(u)) = Len(u) - 1 /\ \A i \in 1 .. Len(u) - 1 : Front(u)[i] = u[i]
        BY <1>5, FrontType, Zenon
    <2> QED BY <1>4, <2>1
<1>7. PICK f \in Seq(Felts) : f = Front(t) /\ Len(f) = n - 1 /\ \A i \in 1 .. n - 1 : f[i] = t[i]
    <2>1. Front(t) \in Seq(Felts) /\ Len(Front(t)) = Len(t) - 1 /\ \A i \in 1 .. Len(t) - 1 : Front(t)[i] = t[i]
        BY FrontType, Zenon
    <2> QED BY <1>1, <2>1
<1>8. PICK w \in Seq(Felts) : w = s \o f
    <2>1. s \o f \in Seq(Felts)
        BY ConcatProperties
    <2> QED BY <2>1
<1>9. Len(w) = k + (n - 1) /\ \A i \in 1 .. k + (n - 1) : w[i] = IF i <= k THEN s[i] ELSE f[i - k]
    BY <1>2, <1>7, <1>8, ConcatProperties
<1>10. ASSUME NEW i \in 1 .. k + n - 1 PROVE Front(u)[i] = w[i]
    <2>1. i \in 1 .. k + n /\ i \in 1 .. k + (n - 1) /\ (i > k => i - k \in 1 .. n - 1)
        OBVIOUS
    <2>2. CASE i <= k
        BY <1>4, <1>6, <1>9, <2>1, <2>2
    <2>3. CASE i > k
        <3>1. Front(u)[i] = t[i - k] /\ w[i] = f[i - k]
            BY <1>4, <1>6, <1>9, <2>1, <2>3
        <3> QED BY <1>7, <2>1, <2>3, <3>1
    <2> QED BY <2>2, <2>3
<1>11. Front(u) = w
    <2>1. Len(w) = k + n - 1
        BY <1>9
    <2> QED BY <1>6, <1>10, <2>1, SeqEqual
<1> QED BY <1>3, <1>5, <1>7, <1>8, <1>11

\* Where the last felt is missing, so is the last call.
LEMMA CutParses ==
    ASSUME NEW calls, NEW datas, CallsAre(calls, datas)
    PROVE  parse_multicall_calls(Front(Batch(calls, datas))) = Upto(calls, datas, Len(calls) - 1)
<1> DEFINE ss == Pieces2(calls, datas)
           data == Front(Batch(calls, datas))
<1>1. PICK n \in Felts : /\ n = Len(calls) /\ n \in Nat /\ n \in 1 .. n /\ 1 \in 1 .. n /\ DOMAIN calls = 1 .. n
                         /\ \A k \in 1 .. n : /\ calls[k].to \in Felts
                                              /\ datas[k] \in Seq(Felts) /\ Len(datas[k]) < Prime
    <2>1. \A n \in Nat : n \in 1 .. n => 1 \in 1 .. n
        OBVIOUS
    <2> QED BY <2>1, CallsCount
<1>2. ss \in Seq(Seq(Felts)) /\ Len(ss) = n /\ Batch(calls, datas) = <<n>> \o Cat(ss)
    BY <1>1, BatchType
<1>3. \A k \in 1 .. n : /\ ss[k] = CallFelts(calls[k].to, datas[k]) /\ ss[k] \in Seq(Felts)
                        /\ Len(ss[k]) = 3 + Len(datas[k]) /\ ss[k][3] = Len(datas[k])
    <2>1. \A k \in 1 .. n : ss[k] = CallFelts(calls[k].to, datas[k])
        BY <1>1 DEF Pieces2
    <2>2. \A k \in 1 .. n : /\ CallFelts(calls[k].to, datas[k]) \in Seq(Felts)
                            /\ Len(CallFelts(calls[k].to, datas[k])) = 3 + Len(datas[k])
                            /\ CallFelts(calls[k].to, datas[k])[3] = Len(datas[k])
        <3>1. \A to \in Felts, d \in Seq(Felts) : Len(d) < Prime =>
                /\ CallFelts(to, d) \in Seq(Felts) /\ Len(CallFelts(to, d)) = 3 + Len(d)
                /\ CallFelts(to, d)[3] = Len(d)
            BY CallFeltsType
        <3> QED BY <1>1, <3>1, Zenon
    <2> QED BY <2>1, <2>2
<1> HIDE DEF ss
<1>4. PICK tails \in [0 .. n -> Seq(Felts)] : IsTails(tails, ss)
    BY <1>2, CatTails
<1>5. \A k \in 1 .. n : tails[k - 1] = ss[k] \o tails[k] /\ tails[k] \in Seq(Felts) /\ tails[k - 1] \in Seq(Felts)
    <2>1. \A k \in 1 .. n : k \in 0 .. n /\ k - 1 \in 0 .. n
        BY <1>1
    <2>2. \A k \in 1 .. n : tails[k - 1] = ss[k] \o tails[k]
        BY <1>2, <1>4 DEF IsTails
    <2> QED BY <1>4, <2>1, <2>2
<1>6. ASSUME NEW m \in 0 .. n - 1 PROVE tails[m] \in Seq(Felts) /\ Len(tails[m]) >= 3 /\ tails[m] # <<>>
    <2>1. PICK k \in 1 .. n : k = m + 1 /\ k - 1 = m
        BY <1>1
    <2>2. PICK a \in Seq(Felts), b \in Seq(Felts) : a = ss[k] /\ b = tails[k] /\ tails[m] = a \o b
        BY <1>3, <1>5, <2>1
    <2>3. PICK l \in Nat : Len(a) = 3 + l
        <3>1. Len(datas[k]) \in Nat
            BY <1>1
        <3> QED BY <1>3, <2>2, <3>1
    <2>4. a \o b \in Seq(Felts) /\ Len(a \o b) = Len(a) + Len(b) /\ Len(b) \in Nat
        BY ConcatProperties
    <2>5. PICK u \in Seq(Felts) : u = tails[m] /\ Len(u) = 3 + l + Len(b)
        BY <2>2, <2>3, <2>4
    <2>6. Len(u) >= 3 /\ Len(u) # 0
        BY <2>4, <2>5
    <2>7. u # <<>>
        BY <2>6
    <2> QED BY <2>5, <2>6, <2>7
<1> DEFINE left == [m \in 0 .. n - 1 |-> Front(tails[m])]
<1>7. left \in [0 .. n - 1 -> Seq(Felts)] /\ \A m \in 0 .. n - 1 : left[m] = Front(tails[m])
    BY <1>6, FrontType
<1>8. ASSUME NEW m \in 1 .. n - 1 PROVE left[m - 1] = CallFelts(calls[m].to, datas[m]) \o left[m]
    <2>1. m \in 1 .. n /\ m \in 0 .. n - 1 /\ m - 1 \in 0 .. n - 1
        BY <1>1
    <2>2. Front(ss[m] \o tails[m]) = ss[m] \o Front(tails[m])
        BY <1>3, <1>6, <2>1, FrontOfConcat
    <2> QED BY <1>3, <1>5, <1>7, <2>1, <2>2
<1>9. tails[0] = Cat(ss) /\ tails[0] \in Seq(Felts) /\ Len(tails[0]) >= 3 /\ tails[0] # <<>> /\ left[0] = Front(tails[0])
    <2>1. 0 \in 0 .. n - 1
        BY <1>1
    <2> QED BY <1>4, <1>6, <1>7, <2>1 DEF IsTails
<1>10. data = <<n>> \o left[0]
    <2>1. <<n>> \in Seq(Felts)
        BY <1>1
    <2>2. Front(<<n>> \o tails[0]) = <<n>> \o Front(tails[0])
        BY <1>9, <2>1, FrontOfConcat, Zenon
    <2> HIDE DEF left
    <2> QED BY <1>2, <1>9, <2>2
<1>11. left[0] \in Seq(Felts) /\ Len(left[0]) >= 2
    <2>1. Front(tails[0]) \in Seq(Felts) /\ Len(Front(tails[0])) = Len(tails[0]) - 1 /\ Len(tails[0]) \in Nat \ {0}
        BY <1>9, FrontType, Zenon
    <2> HIDE DEF left
    <2> QED BY <1>9, <2>1
<1>12. data[1] = n /\ Tail(data) = left[0] /\ Len(data) \in Nat /\ Len(data) >= 3
    <2> HIDE DEF data
    <2>1. data[1] = n /\ Tail(data) = left[0] /\ data \in Seq(Felts)
        BY <1>10, <1>11, FirstOf
    <2> HIDE DEF left
    <2>2. PICK l \in Seq(Felts) : l = left[0]
        BY <1>11
    <2>3. Len(<<n>> \o l) = 1 + Len(l) /\ Len(l) \in Nat
        OBVIOUS
    <2>4. Len(data) = 1 + Len(l) /\ Len(l) >= 2
        BY <1>10, <1>11, <2>2, <2>3
    <2>5. Len(data) \in Nat /\ Len(data) >= 3
        BY <2>3, <2>4
    <2> QED BY <2>1, <2>5
<1>13. PICK j \in Nat : j = n - 1 /\ j \in 0 .. n - 1 /\ j + 1 = n /\ j \in 0 .. n
    <2>1. n \in Nat /\ n >= 1
        BY <1>1
    <2> HIDE DEF left, data
    <2>2. n - 1 \in Nat /\ (n - 1) + 1 = n /\ n - 1 \in 0 .. n - 1 /\ n - 1 \in 0 .. n
        BY <2>1
    <2> QED BY <2>2
<1>14. Len(left[j]) < 3 \/ Len(left[j]) < 3 + left[j][3]
    <2>1. PICK d \in Nat : d = Len(datas[n]) /\ Len(ss[n]) = 3 + d /\ ss[n][3] = d /\ ss[n] \in Seq(Felts)
        BY <1>1, <1>3
    <2>2. tails[j] = ss[n]
        <3>1. tails[n - 1] = ss[n] \o tails[n]
            BY <1>1, <1>5
        <3>2. tails[n] = <<>>
            BY <1>2, <1>4 DEF IsTails
        <3>3. ss[n] \o <<>> = ss[n]
            BY <2>1
        <3> QED BY <1>13, <3>1, <3>2, <3>3
    <2>3. left[j] = Front(ss[n]) /\ ss[n] # <<>>
        BY <1>6, <1>7, <1>13, <2>2
    <2>4. Len(left[j]) = 2 + d /\ \A i \in 1 .. 2 + d : left[j][i] = ss[n][i]
        <3>1. Len(ss[n]) - 1 = 2 + d
            BY <2>1
        <3>2. Len(left[j]) = Len(ss[n]) - 1 /\ \A i \in 1 .. Len(ss[n]) - 1 : left[j][i] = ss[n][i]
            <4>1. /\ Len(Front(ss[n])) = Len(ss[n]) - 1
                  /\ \A i \in 1 .. Len(ss[n]) - 1 : Front(ss[n])[i] = ss[n][i]
                BY <2>1, <2>3, FrontType, Zenon
            <4> HIDE DEF left
            <4> QED BY <2>3, <4>1
        <3> HIDE DEF left
        <3> QED BY <3>1, <3>2
    <2> HIDE DEF left
    <2>5. CASE d = 0
        BY <2>4, <2>5
    <2>6. CASE d > 0
        <3>1. left[j][3] = d
            <4>1. 3 \in 1 .. 2 + d
                BY <2>6
            <4> QED BY <2>1, <2>4, <4>1
        <3> QED BY <2>4, <3>1
    <2> QED BY <2>5, <2>6
<1> HIDE DEF data, left
<1>15. parse_multicall_calls(data) = Upto(calls, datas, j)
    <2>1. j \in 0 .. Len(calls) /\ j + 1 = Len(calls) /\ data[1] = Len(calls)
        BY <1>1, <1>12, <1>13
    <2>2. left \in [0 .. j -> Seq(Felts)] /\ Tail(data) = left[0]
        BY <1>7, <1>12, <1>13
    <2>3. \A m \in 1 .. j : left[m - 1] = CallFelts(calls[m].to, datas[m]) \o left[m]
        BY <1>8, <1>13
    <2> QED BY <1>12, <1>14, <2>1, <2>2, <2>3, ParsesUpto
<1> QED BY <1>1, <1>13, <1>15 DEF data

\* Longer parts, longer calldata.
LEMMA BatchGrows ==
    ASSUME NEW calls, NEW datas, NEW more, CallsAre(calls, datas), CallsAre(calls, more),
           \A k \in 1 .. Len(calls) : Len(datas[k]) <= Len(more[k])
    PROVE  Len(Batch(calls, datas)) <= Len(Batch(calls, more))
<1> DEFINE ss == Pieces2(calls, datas)
           tt == Pieces2(calls, more)
<1>1. PICK n \in Nat : n = Len(calls)
    BY CallsCount
<1>2. /\ ss \in Seq(Seq(Felts)) /\ Len(ss) = n
      /\ \A k \in 1 .. n : Len(ss[k]) = 3 + Len(datas[k])
      /\ Len(Batch(calls, datas)) = 1 + Len(Cat(ss))
    <2>1. \A k \in 1 .. Len(calls) : Len(ss[k]) = 3 + Len(datas[k])
        BY PiecesLen
    <2>2. ss \in Seq(Seq(Felts)) /\ Len(ss) = Len(calls) /\ Len(Batch(calls, datas)) = 1 + Len(Cat(ss))
        BY BatchType
    <2> HIDE DEF ss
    <2> QED BY <1>1, <2>1, <2>2, Zenon
<1>3. /\ tt \in Seq(Seq(Felts)) /\ Len(tt) = n
      /\ \A k \in 1 .. n : Len(tt[k]) = 3 + Len(more[k])
      /\ Len(Batch(calls, more)) = 1 + Len(Cat(tt))
    <2>1. \A k \in 1 .. Len(calls) : Len(tt[k]) = 3 + Len(more[k])
        BY PiecesLen
    <2>2. tt \in Seq(Seq(Felts)) /\ Len(tt) = Len(calls) /\ Len(Batch(calls, more)) = 1 + Len(Cat(tt))
        BY BatchType
    <2> HIDE DEF tt
    <2> QED BY <1>1, <2>1, <2>2, Zenon
<1>4. \A k \in 1 .. n : ss[k] \in Seq(Felts) /\ tt[k] \in Seq(Felts) /\ Len(ss[k]) <= Len(tt[k])
    <2> SUFFICES ASSUME NEW k \in 1 .. n PROVE ss[k] \in Seq(Felts) /\ tt[k] \in Seq(Felts) /\ Len(ss[k]) <= Len(tt[k])
        OBVIOUS
    <2>1. PICK a \in Nat, b \in Nat : a = Len(datas[k]) /\ b = Len(more[k]) /\ a <= b
        <3>1. datas[k] \in Seq(Felts) /\ more[k] \in Seq(Felts) /\ Len(datas[k]) <= Len(more[k])
            BY <1>1 DEF CallsAre
        <3> QED BY <3>1
    <2>2. Len(ss[k]) = 3 + a /\ Len(tt[k]) = 3 + b
        BY <1>2, <1>3, <2>1
    <2>3. ss[k] \in Seq(Felts) /\ tt[k] \in Seq(Felts)
        <3> HIDE DEF ss, tt
        <3> QED BY <1>2, <1>3
    <2> QED BY <2>1, <2>2, <2>3
<1> HIDE DEF ss, tt
<1>5. PICK f \in [0 .. n -> Seq(Felts)] : IsTails(f, ss)
    BY <1>2, CatTails
<1>6. PICK g \in [0 .. n -> Seq(Felts)] : IsTails(g, tt)
    BY <1>3, CatTails
<1> DEFINE Q == {m \in Nat : m <= n => Len(f[n - m]) <= Len(g[n - m])}
<1>7. 0 \in Q
    <2>1. f[n] = <<>> /\ g[n] = <<>>
        BY <1>2, <1>3, <1>5, <1>6 DEF IsTails
    <2>2. n - 0 = n /\ Len(f[n]) <= Len(g[n])
        BY <2>1
    <2> QED BY <2>2
<1>8. ASSUME NEW m \in Q PROVE m + 1 \in Q
    <2> SUFFICES ASSUME m + 1 <= n PROVE Len(f[n - (m + 1)]) <= Len(g[n - (m + 1)])
        OBVIOUS
    <2>1. PICK k \in 1 .. n : k = n - m /\ k - 1 = n - (m + 1) /\ k \in 0 .. n
        OBVIOUS
    <2>2. PICK a \in Seq(Felts), b \in Seq(Felts), c \in Seq(Felts), d \in Seq(Felts) :
            a = ss[k] /\ b = f[k] /\ c = tt[k] /\ d = g[k]
        BY <1>4, <1>5, <1>6, <2>1
    <2>3. f[k - 1] = a \o b /\ g[k - 1] = c \o d
        BY <1>2, <1>3, <1>5, <1>6, <2>2 DEF IsTails
    <2>4. Len(a) <= Len(c) /\ Len(b) <= Len(d)
        <3>1. Len(a) <= Len(c)
            BY <1>4, <2>2
        <3>2. m <= n
            OBVIOUS
        <3> QED BY <2>1, <2>2, <3>1, <3>2
    <2>5. Len(a \o b) = Len(a) + Len(b) /\ Len(c \o d) = Len(c) + Len(d)
        OBVIOUS
    <2>6. Len(a) \in Nat /\ Len(b) \in Nat /\ Len(c) \in Nat /\ Len(d) \in Nat
        OBVIOUS
    <2>7. Len(a \o b) <= Len(c \o d)
        BY <2>4, <2>5, <2>6
    <2> QED BY <2>1, <2>3, <2>7
<1>9. n \in Q
    <2> HIDE DEF Q
    <2>1. Nat \subseteq Q
        BY <1>7, <1>8, CountUp
    <2> QED BY <2>1
<1>10. PICK a \in Nat, b \in Nat : a = Len(Cat(ss)) /\ b = Len(Cat(tt)) /\ a <= b
    <2>1. 0 \in 0 .. n /\ n - n = 0
        OBVIOUS
    <2>2. f[0] \in Seq(Felts) /\ g[0] \in Seq(Felts) /\ f[0] = Cat(ss) /\ g[0] = Cat(tt)
        BY <1>5, <1>6, <2>1 DEF IsTails
    <2>3. Len(f[0]) <= Len(g[0])
        BY <1>9, <2>1
    <2> QED BY <2>2, <2>3
<1> QED BY <1>2, <1>3, <1>10

-----------------------------------------------------------------------------
(* The calldata of the calls of a transaction *)

CallsOf(calls) ==
    /\ Len(calls) \in 1 .. MaxCalls /\ DOMAIN calls = 1 .. Len(calls)
    /\ \A k \in 1 .. Len(calls) : /\ calls[k].to \in Contracts /\ calls[k].types \in Abis(calls[k].to)
                                  /\ calls[k].args \in ArgsOf(calls[k].types)
MoreDatas(calls) == [ArgsDatas(calls) EXCEPT ![Len(calls)] = Append(@, 0)]

LEMMA ArgsAre ==
    \A types \in Seq(Types) : \A args \in ArgsOf(types) :
        ValuesAre(types, args) /\ ArgsFelts(types, args) \in Seq(Felts)
<1> SUFFICES ASSUME NEW types \in Seq(Types), NEW args \in ArgsOf(types)
             PROVE  ValuesAre(types, args) /\ ArgsFelts(types, args) \in Seq(Felts)
    OBVIOUS
<1>1. DOMAIN types = 1 .. Len(types)
    OBVIOUS
<1>2. ValuesAre(types, args)
    BY <1>1 DEF ValuesAre, ArgsOf
<1>3. <<>> \in Seq(Felts)
    OBVIOUS
<1>4. ArgsFelts(types, args) \in Seq(Felts)
    BY <1>2, <1>3, CalldataRoundTrip
<1> QED BY <1>2, <1>4

\* The calls of a transaction, and their arguments as felts.
LEMMA CallsTyped ==
    ASSUME NEW calls, CallsOf(calls)
    PROVE  \E n \in Nat \ {0} :
            /\ n = Len(calls) /\ DOMAIN calls = 1 .. n /\ n \in 1 .. Prime - 1 /\ DOMAIN ArgsDatas(calls) = 1 .. n
            /\ \A k \in 1 .. n : /\ calls[k].to \in Contracts /\ calls[k].to \in Felts
                                 /\ calls[k].types \in Seq(Types) /\ ValuesAre(calls[k].types, calls[k].args)
                                 /\ ArgsDatas(calls)[k] = ArgsFelts(calls[k].types, calls[k].args)
                                 /\ ArgsDatas(calls)[k] \in Seq(Felts) /\ Len(ArgsDatas(calls)[k]) < Prime - 1
<1>0. PICK p \in Nat : p = Prime
    BY FieldAssumption
<1>1. PICK m \in 1 .. p - 1 : p = Prime /\ m = MaxCalls
    BY <1>0, CallsAssumption
<1>2. PICK n \in 1 .. m : n = Len(calls)
    BY <1>1 DEF CallsOf
<1>3. n \in Nat \ {0} /\ n \in 1 .. p - 1
    BY <1>1, <1>2
<1>4. DOMAIN calls = 1 .. n /\ DOMAIN ArgsDatas(calls) = 1 .. n
    BY <1>2 DEF CallsOf, ArgsDatas
<1>5. ASSUME NEW k \in 1 .. n
      PROVE  /\ calls[k].to \in Contracts /\ calls[k].to \in Felts
             /\ calls[k].types \in Seq(Types) /\ ValuesAre(calls[k].types, calls[k].args)
             /\ ArgsDatas(calls)[k] = ArgsFelts(calls[k].types, calls[k].args)
             /\ ArgsDatas(calls)[k] \in Seq(Felts) /\ Len(ArgsDatas(calls)[k]) < Prime - 1
    <2>1. calls[k].to \in Contracts /\ calls[k].types \in Abis(calls[k].to) /\ calls[k].args \in ArgsOf(calls[k].types)
        BY <1>2 DEF CallsOf
    <2>2. calls[k].to \in Felts /\ calls[k].types \in Seq(Types)
        BY <2>1, CallsAssumption
    <2>3. Len(ArgsFelts(calls[k].types, calls[k].args)) < Prime - 1
        BY <2>1, CallsAssumption
    <2>4. ArgsDatas(calls)[k] = ArgsFelts(calls[k].types, calls[k].args)
        BY <1>4 DEF ArgsDatas
    <2>5. ValuesAre(calls[k].types, calls[k].args) /\ ArgsFelts(calls[k].types, calls[k].args) \in Seq(Felts)
        BY <2>1, <2>2, ArgsAre, Zenon
    <2> QED BY <2>1, <2>2, <2>3, <2>4, <2>5
<1> QED BY <1>1, <1>2, <1>3, <1>4, <1>5

LEMMA CallsWritten ==
    ASSUME NEW calls, CallsOf(calls)
    PROVE  CallsAre(calls, ArgsDatas(calls)) /\ CallsAre(calls, MoreDatas(calls))
<1>1. PICK p \in Nat : p = Prime
    BY FieldAssumption
<1>2. PICK n \in Nat \ {0} :
            /\ n = Len(calls) /\ DOMAIN calls = 1 .. n /\ n \in 1 .. p - 1 /\ DOMAIN ArgsDatas(calls) = 1 .. n
            /\ \A k \in 1 .. n : /\ calls[k].to \in Felts
                                 /\ ArgsDatas(calls)[k] \in Seq(Felts) /\ Len(ArgsDatas(calls)[k]) < p - 1
    <2>1. PICK n \in Nat \ {0} :
            /\ n = Len(calls) /\ DOMAIN calls = 1 .. n /\ n \in 1 .. Prime - 1 /\ DOMAIN ArgsDatas(calls) = 1 .. n
            /\ \A k \in 1 .. n : /\ calls[k].to \in Felts
                                 /\ ArgsDatas(calls)[k] \in Seq(Felts) /\ Len(ArgsDatas(calls)[k]) < Prime - 1
        BY CallsTyped
    <2> QED BY <1>1, <2>1
<1>3. \A s \in Seq(Felts) : Len(s) < p - 1 => Len(s) < p
    BY <1>1
<1>4. CallsAre(calls, ArgsDatas(calls))
    BY <1>1, <1>2, <1>3 DEF CallsAre
<1>5. \A s \in Seq(Felts) : Append(s, 0) \in Seq(Felts) /\ (Len(s) < p - 1 => Len(Append(s, 0)) < p)
    <2>1. 0 \in Felts
        BY FieldAssumption DEF Felts
    <2> QED BY <1>1, <2>1, AppendProperties
<1>6. \A k \in 1 .. n : MoreDatas(calls)[k] = IF k = n THEN Append(ArgsDatas(calls)[k], 0) ELSE ArgsDatas(calls)[k]
    BY <1>2 DEF MoreDatas
<1>7. \A k \in 1 .. n : MoreDatas(calls)[k] \in Seq(Felts) /\ Len(MoreDatas(calls)[k]) < p
    BY <1>2, <1>3, <1>5, <1>6
<1>8. CallsAre(calls, MoreDatas(calls))
    BY <1>1, <1>2, <1>7 DEF CallsAre
<1> QED BY <1>4, <1>8

LEMMA AppendZero ==
    \A s \in Seq(Felts) : /\ Append(s, 0) = s \o <<0>> /\ Append(s, 0) \in Seq(Felts) /\ s \o <<>> = s
                          /\ Len(Append(s, 0)) = Len(s) + 1 /\ Len(s) \in Nat /\ <<0>> \in Seq(Felts)
<1>1. 0 \in Felts
    BY FieldAssumption DEF Felts
<1> QED BY <1>1, AppendProperties, AppendIsConcat

\* The calls that are read are those of the transaction, up to where it is cut, and
\* with their arguments, unless there is one too many.
LEMMA ParsedIs ==
    ASSUME NEW calls, CallsOf(calls), NEW raw \in Variations(Multicall(calls)) \cup {Longer(calls)}
    PROVE  LET p == parse_multicall_calls(raw)
           IN /\ p \in Seq(ParsedCall) /\ Len(p) \in Nat
              /\ Len(p) = Len(calls) - (IF Len(raw) < Len(Multicall(calls)) THEN 1 ELSE 0)
              /\ \A k \in 1 .. Len(p) :
                    /\ k \in 1 .. Len(calls) /\ p[k].to = calls[k].to
                    /\ p[k].data \in {ArgsDatas(calls)[k], ArgsDatas(calls)[k] \o <<0>>}
              /\ raw \in Seq(Felts)
<1> DEFINE datas == ArgsDatas(calls)
           more == MoreDatas(calls)
           whole == Multicall(calls)
<1>1. PICK n \in Nat \ {0} : /\ n = Len(calls) /\ DOMAIN calls = 1 .. n /\ DOMAIN datas = 1 .. n /\ n \in Felts
                             /\ \A k \in 1 .. n : datas[k] \in Seq(Felts)
    <2>1. PICK p \in Nat : p = Prime
        BY FieldAssumption
    <2>2. PICK n \in Nat \ {0} : /\ n = Len(calls) /\ DOMAIN calls = 1 .. n /\ n \in 1 .. p - 1
                                  /\ DOMAIN datas = 1 .. n /\ \A k \in 1 .. n : datas[k] \in Seq(Felts)
        BY <2>1, CallsTyped
    <2>3. n \in Felts
        BY <2>1, <2>2 DEF Felts
    <2> QED BY <2>2, <2>3
<1>2. CallsAre(calls, datas) /\ CallsAre(calls, more)
    BY CallsWritten
<1>3. \A k \in 1 .. n : more[k] = IF k = n THEN datas[k] \o <<0>> ELSE datas[k]
    BY <1>1, AppendZero DEF MoreDatas
<1>4. Longer(calls) = Batch(calls, more) /\ whole = Batch(calls, datas)
    BY DEF Longer, Multicall, MoreDatas
<1> HIDE DEF datas, more, whole
<1>5. whole \in Seq(Felts) /\ Longer(calls) \in Seq(Felts)
    BY <1>2, <1>4, BatchType
<1>6. ASSUME NEW ds, CallsAre(calls, ds), NEW m \in 0 .. n
      PROVE  /\ Upto(calls, ds, m) \in Seq(ParsedCall) /\ Len(Upto(calls, ds, m)) = m
             /\ \A k \in 1 .. m : Upto(calls, ds, m)[k].to = calls[k].to /\ Upto(calls, ds, m)[k].data = ds[k]
    <2>1. m \in 0 .. Len(calls)
        BY <1>1
    <2>2. Upto(calls, ds, m) \in Seq(ParsedCall) /\ Len(Upto(calls, ds, m)) = m
        BY <1>6, <2>1, UptoType
    <2>3. \A k \in 1 .. m : Upto(calls, ds, m)[k].to = calls[k].to /\ Upto(calls, ds, m)[k].data = ds[k]
        BY DEF Upto
    <2> QED BY <2>2, <2>3
<1> DEFINE p == parse_multicall_calls(raw)
           dropped == IF Len(raw) < Len(whole) THEN 1 ELSE 0
           Good == /\ p \in Seq(ParsedCall) /\ Len(p) \in Nat
                   /\ Len(p) = Len(calls) - dropped
                   /\ \A k \in 1 .. Len(p) :
                         /\ k \in 1 .. Len(calls) /\ p[k].to = calls[k].to
                         /\ p[k].data \in {datas[k], datas[k] \o <<0>>}
                   /\ raw \in Seq(Felts)
<1>11. \A m \in 0 .. n : \A ds \in {datas, more} :
            p = Upto(calls, ds, m) /\ m = n - dropped /\ raw \in Seq(Felts) => Good
    <2> SUFFICES ASSUME NEW m \in 0 .. n, NEW ds \in {datas, more},
                        p = Upto(calls, ds, m), m = n - dropped, raw \in Seq(Felts)
                 PROVE  Good
        OBVIOUS
    <2>1. /\ p \in Seq(ParsedCall) /\ Len(p) = m
          /\ \A k \in 1 .. m : p[k].to = calls[k].to /\ p[k].data = ds[k]
        <3>1. CallsAre(calls, ds)
            BY <1>2
        <3>2. /\ Upto(calls, ds, m) \in Seq(ParsedCall) /\ Len(Upto(calls, ds, m)) = m
              /\ \A k \in 1 .. m : Upto(calls, ds, m)[k].to = calls[k].to /\ Upto(calls, ds, m)[k].data = ds[k]
            BY <1>6, <3>1, Zenon
        <3>3. p = Upto(calls, ds, m)
            OBVIOUS
        <3> HIDE DEF p
        <3> QED BY <3>2, <3>3, Zenon
    <2> HIDE DEF p, dropped
    <2>2. \A k \in 1 .. m : k \in 1 .. n
        BY <1>1
    <2>3. \A k \in 1 .. n : ds[k] \in {datas[k], datas[k] \o <<0>>}
        BY <1>3
    <2>4. m \in Nat /\ Len(p) = Len(calls) - dropped
        BY <1>1, <2>1
    <2> QED BY <1>1, <2>1, <2>2, <2>3, <2>4
<1>12. Len(whole) \in Nat /\ n \in 0 .. n /\ n - 1 \in 0 .. n /\ n - 0 = n
    BY <1>5
<1>7. ASSUME raw = whole PROVE Good
    <2>1. raw = whole \o <<>>
        BY <1>5, <1>7, AppendZero
    <2>2. p = Upto(calls, datas, n)
        <3>1. <<>> \in Seq(Felts)
            OBVIOUS
        <3> QED BY <1>1, <1>2, <1>4, <2>1, <3>1, BatchParses
    <2>3. n = n - dropped
        BY <1>7, <1>12
    <2> HIDE DEF p, dropped, Good
    <2> QED BY <1>5, <1>7, <1>11, <1>12, <2>2, <2>3
<1>8. ASSUME raw = Append(whole, 0) PROVE Good
    <2>1. raw = whole \o <<0>> /\ raw \in Seq(Felts) /\ Len(raw) = Len(whole) + 1 /\ <<0>> \in Seq(Felts)
        BY <1>5, <1>8, AppendZero
    <2>2. p = Upto(calls, datas, n)
        BY <1>1, <1>2, <1>4, <2>1, BatchParses
    <2>3. n = n - dropped
        BY <1>12, <2>1
    <2> HIDE DEF p, dropped, Good
    <2> QED BY <1>11, <1>12, <2>1, <2>2, <2>3
<1>9. ASSUME raw = Front(whole) PROVE Good
    <2>1. whole # <<>>
        <3>1. whole = <<Len(calls)>> \o Cat(Pieces2(calls, datas)) /\ Cat(Pieces2(calls, datas)) \in Seq(Felts)
            BY <1>2, <1>4, BatchType
        <3> QED BY <1>1, <3>1, FirstOf
    <2>2. raw \in Seq(Felts) /\ Len(raw) = Len(whole) - 1
        BY <1>5, <1>9, <2>1, FrontType
    <2>3. p = Upto(calls, datas, n - 1)
        BY <1>1, <1>2, <1>4, <1>9, CutParses
    <2>4. n - 1 = n - dropped
        BY <1>12, <2>2
    <2> HIDE DEF p, dropped, Good
    <2> QED BY <1>11, <1>12, <2>2, <2>3, <2>4
<1>10. ASSUME raw = Longer(calls) PROVE Good
    <2>1. \A k \in 1 .. Len(calls) : Len(datas[k]) <= Len(more[k])
        <3>1. \A s \in Seq(Felts) : Len(s) <= Len(s) /\ Len(s) <= Len(s \o <<0>>)
            <4>1. \A s \in Seq(Felts) : s \o <<0>> = Append(s, 0) /\ Len(Append(s, 0)) = Len(s) + 1 /\ Len(s) \in Nat
                BY AppendZero
            <4> QED BY <4>1
        <3> QED BY <1>1, <1>3, <3>1, Zenon
    <2>2. Len(whole) <= Len(raw) /\ raw \in Seq(Felts)
        BY <1>2, <1>4, <1>5, <1>10, <2>1, BatchGrows
    <2>3. p = Upto(calls, more, n)
        <3>1. <<>> \in Seq(Felts) /\ raw = raw \o <<>>
            BY <2>2, AppendZero
        <3> QED BY <1>1, <1>2, <1>4, <1>10, <3>1, BatchParses
    <2>4. n = n - dropped
        BY <1>12, <2>2
    <2> HIDE DEF p, dropped, Good
    <2> QED BY <1>11, <1>12, <2>2, <2>3, <2>4
<1>13. (raw = whole \/ raw = Append(whole, 0) \/ raw = Front(whole) \/ raw = Longer(calls))
    BY DEF Variations, Front, whole
<1>14. Good
    <2> HIDE DEF Good
    <2> QED BY <1>7, <1>8, <1>9, <1>10, <1>13
<1> QED BY <1>14 DEF whole, datas

-----------------------------------------------------------------------------
(* What the encoder makes of a value *)

EncodeWith(f, p) ==
    EncodeOf(p[1], p[2], [i \in DOMAIN p[2].items |-> f[<<ItemType(p[1], p[2], i), Item(p[2], i)>>]])

LEMMA SentItems ==
    \A n \in 0 .. MaxDepth : \A p \in SentTypes \X NestedIn[n] :
        /\ p[1] \in SentTypes /\ p[2] \in NestedIn[n] /\ n \in 1 .. MaxDepth
        /\ \A i \in DOMAIN p[2].items : <<ItemType(p[1], p[2], i), Item(p[2], i)>> \in SentTypes \X NestedIn[n - 1]
<1> SUFFICES ASSUME NEW n \in 0 .. MaxDepth, NEW t \in SentTypes, NEW v \in NestedIn[n]
             PROVE  /\ n \in 1 .. MaxDepth
                    /\ \A i \in DOMAIN v.items : <<ItemType(t, v, i), Item(v, i)>> \in SentTypes \X NestedIn[n - 1]
    OBVIOUS
<1>1. n \in 1 .. MaxDepth /\ \A i \in DOMAIN v.items : Item(v, i) \in NestedIn[n - 1]
    BY NestedIs
<1>2. Types \subseteq SentTypes /\ Unknown \in Types
    BY TypesAssumption DEF SentTypes
<1>3. ASSUME NEW i \in DOMAIN v.items PROVE ItemType(t, v, i) \in SentTypes
    <2>1. ASSUME v.kind \in {"struct", "enum"} PROVE v.items[i].type \in Types
        <3>1. v.items \in Seq(Field(n))
            BY <2>1, NestedIs
        <3>2. v.items[i] \in Field(n)
            BY <3>1
        <3> QED BY <3>2 DEF Field
    <2>2. ASSUME t.k \in {"array", "tuple"} PROVE t \in Types
        BY <2>2 DEF SentTypes
    <2>3. ASSUME t.k = "array" PROVE t.of[1] \in Types
        <3>1. Len(t.of) = 1 /\ t.of \in Seq(Types)
            BY <2>2, <2>3, TypeIs
        <3> QED BY <3>1
    <2>4. ASSUME t.k = "tuple", i \in DOMAIN t.of PROVE t.of[i] \in Types
        <3>1. t.of \in Seq(Types)
            BY <2>2, <2>4, TypeIs
        <3> QED BY <2>4, <3>1
    <2> QED BY <1>2, <2>1, <2>3, <2>4 DEF ItemType
<1> QED BY <1>1, <1>3

LEMMA EncodeDef ==
    encode_decoded_value = [p \in SentTypes \X DecodedValues |-> EncodeWith(encode_decoded_value, p)]
<1> DEFINE S(n) == SentTypes \X NestedIn[n]
           Solves(f, n) == f = [p \in S(n) |-> EncodeWith(f, p)]
           P == {n \in Nat : n <= MaxDepth => \E f : Solves(f, n)}
<1>0. MaxDepth \in Nat
    BY TypesAssumption
<1>1. 0 \in P
    <2> DEFINE f == [p \in S(0) |-> <<>>]
    <2>1. S(0) = {}
        BY NestedDef
    <2>2. Solves(f, 0)
        BY <2>1
    <2> QED BY <2>2
<1>2. ASSUME NEW n \in P PROVE n + 1 \in P
    <2>0. n \in Nat /\ n + 1 \in Nat
        OBVIOUS
    <2> HIDE DEF Solves
    <2> SUFFICES ASSUME n + 1 <= MaxDepth PROVE \E f : Solves(f, n + 1)
        BY <2>0
    <2> USE DEF Solves
    <2>1. PICK g : Solves(g, n)
        <3>1. n <= MaxDepth
            BY <1>0
        <3> QED BY <3>1
    <2> DEFINE f == [p \in S(n + 1) |-> EncodeWith(g, p)]
    <2>2. n + 1 \in 0 .. MaxDepth /\ n \in 0 .. n + 1 /\ n + 1 - 1 = n
        BY <1>0
    <2>3. S(n) \subseteq S(n + 1)
        <3>1. NestedIn[n] \subseteq NestedIn[n + 1]
            BY <2>2, NestedGrows
        <3> QED BY <3>1
    <2>4. ASSUME NEW q \in S(n) PROVE f[q] = g[q]
        <3> HIDE DEF S
        <3>1. f[q] = EncodeWith(g, q)
            BY <2>3
        <3>2. g[q] = EncodeWith(g, q)
            BY <2>1
        <3> QED BY <3>1, <3>2
    <2>5. ASSUME NEW p \in S(n + 1) PROVE EncodeWith(f, p) = EncodeWith(g, p)
        <3>1. \A i \in DOMAIN p[2].items : <<ItemType(p[1], p[2], i), Item(p[2], i)>> \in S(n)
            BY <2>2, SentItems
        <3> HIDE DEF f, S
        <3>2. \A i \in DOMAIN p[2].items :
                f[<<ItemType(p[1], p[2], i), Item(p[2], i)>>] = g[<<ItemType(p[1], p[2], i), Item(p[2], i)>>]
            BY <2>4, <3>1
        <3>3. [i \in DOMAIN p[2].items |-> f[<<ItemType(p[1], p[2], i), Item(p[2], i)>>]]
              = [i \in DOMAIN p[2].items |-> g[<<ItemType(p[1], p[2], i), Item(p[2], i)>>]]
            BY <3>2
        <3> QED BY <3>3 DEF EncodeWith
    <2>6. Solves(f, n + 1)
        <3> HIDE DEF S
        <3> QED BY <2>5
    <2> HIDE DEF f, Solves
    <2> QED BY <2>6
<1>3. PICK g : Solves(g, MaxDepth)
    <2> HIDE DEF P
    <2>1. Nat \subseteq P
        BY <1>1, <1>2, CountUp
    <2> QED BY <1>0, <2>1 DEF P
<1> DEFINE e == CHOOSE f : Solves(f, MaxDepth)
<1>4. Solves(e, MaxDepth)
    <2> HIDE DEF Solves
    <2> QED BY <1>3
<1>5. encode_decoded_value = e
    BY DEF encode_decoded_value, EncodeWith, DecodedValues
<1> HIDE DEF e
<1> QED BY <1>4, <1>5 DEF DecodedValues

\* The encoder unfolds by one level.
LEMMA EncodesAs ==
    \A t \in SentTypes, v \in DecodedValues :
        encode_decoded_value[<<t, v>>]
        = EncodeOf(t, v, [i \in DOMAIN v.items |-> encode_decoded_value[<<ItemType(t, v, i), Item(v, i)>>]])
<1> SUFFICES ASSUME NEW t \in SentTypes, NEW v \in DecodedValues
             PROVE  encode_decoded_value[<<t, v>>]
                    = EncodeOf(t, v, [i \in DOMAIN v.items |-> encode_decoded_value[<<ItemType(t, v, i), Item(v, i)>>]])
    OBVIOUS
<1> DEFINE e == encode_decoded_value
           p == <<t, v>>
<1>1. p \in SentTypes \X DecodedValues /\ p[1] = t /\ p[2] = v
    OBVIOUS
<1> HIDE DEF e, p
<1>2. e[p] = EncodeWith(e, p)
    BY <1>1, EncodeDef DEF e
<1>3. EncodeWith(e, p) = EncodeOf(t, v, [i \in DOMAIN v.items |-> e[<<ItemType(t, v, i), Item(v, i)>>]])
    BY <1>1 DEF EncodeWith
<1> QED BY <1>2, <1>3 DEF e, p

LEMMA EncodeOfType ==
    ASSUME NEW n \in 0 .. MaxDepth, NEW t \in SentTypes, NEW v \in NestedIn[n], NEW items \in Seq(Seq(Int))
    PROVE  EncodeOf(t, v, items) \in Seq(Int)
<1>1. v.num \in Int /\ (v.kind # "bigint" => v.num \in Nat) /\ (v.kind = "array" => v.items \in Seq(NestedIn[n]))
    BY NestedIs
<1>2. Cat(items) \in Seq(Int)
    BY CatType
<1>3. \A s, u \in Seq(Int) : s \o u \in Seq(Int)
    BY ConcatProperties
<1>4. \A x \in Int : <<x>> \in Seq(Int)
    OBVIOUS
<1>5. \A x, y \in Int : <<x, y>> \in Seq(Int)
    OBVIOUS
<1>6. <<>> \in Seq(Int) /\ Invalid \in Int
    BY FieldAssumption DEF Invalid
<1>7. ASSUME v.kind = "biguint" PROVE split_into_limbs(t, v.num) \in Seq(Int)
    <2>1. PICK w \in Nat \ {0} : w = Word
        BY FieldAssumption
    <2>2. v.num \in Nat
        BY <1>1, <1>7
    <2>3. v.num % w \in Int /\ v.num \div w \in Int
        BY <2>2, Remainder
    <2> QED BY <1>1, <1>4, <1>5, <2>1, <2>3 DEF split_into_limbs
<1>8. ASSUME v.kind = "array" PROVE <<Len(v.items)>> \in Seq(Int)
    <2>1. v.items \in Seq(NestedIn[n])
        BY <1>1, <1>8
    <2>2. Len(v.items) \in Int
        BY <2>1
    <2> QED BY <1>4, <2>2
<1> QED BY <1>1, <1>2, <1>3, <1>4, <1>6, <1>7, <1>8 DEF EncodeOf

\* What the encoder makes of any value is a sequence of numbers.
LEMMA EncodedType ==
    \A t \in SentTypes, v \in DecodedValues : encode_decoded_value[<<t, v>>] \in Seq(Int)
<1> DEFINE P == {n \in Nat : n <= MaxDepth =>
                    \A t \in SentTypes, v \in NestedIn[n] : encode_decoded_value[<<t, v>>] \in Seq(Int)}
<1>0. MaxDepth \in Nat
    BY TypesAssumption
<1>1. 0 \in P
    BY NestedDef
<1>2. ASSUME NEW n \in P PROVE n + 1 \in P
    <2> SUFFICES ASSUME n + 1 <= MaxDepth, NEW t \in SentTypes, NEW v \in NestedIn[n + 1]
                 PROVE  encode_decoded_value[<<t, v>>] \in Seq(Int)
        OBVIOUS
    <2>1. n <= MaxDepth /\ n + 1 \in 0 .. MaxDepth /\ MaxDepth \in 0 .. MaxDepth /\ n + 1 \in 0 .. MaxDepth /\ n + 1 - 1 = n
        BY <1>0
    <2>2. v \in DecodedValues
        BY <2>1, NestedGrows DEF DecodedValues
    <2> DEFINE items == [i \in DOMAIN v.items |-> encode_decoded_value[<<ItemType(t, v, i), Item(v, i)>>]]
    <2>3. \A i \in DOMAIN v.items : ItemType(t, v, i) \in SentTypes /\ Item(v, i) \in NestedIn[n]
        <3> DEFINE p == <<t, v>>
        <3>1. p \in SentTypes \X NestedIn[n + 1] /\ p[1] = t /\ p[2] = v
            OBVIOUS
        <3> HIDE DEF p
        <3>2. PICK k \in 0 .. MaxDepth : k = n + 1 /\ k - 1 = n
            BY <2>1
        <3>3. \A i \in DOMAIN p[2].items : <<ItemType(p[1], p[2], i), Item(p[2], i)>> \in SentTypes \X NestedIn[k - 1]
            BY <3>1, <3>2, SentItems
        <3>4. \A i \in DOMAIN v.items : <<ItemType(t, v, i), Item(v, i)>> \in SentTypes \X NestedIn[n]
            BY <3>1, <3>2, <3>3, Zenon
        <3> QED BY <3>4
    <2>4. \A i \in DOMAIN v.items : encode_decoded_value[<<ItemType(t, v, i), Item(v, i)>>] \in Seq(Int)
        BY <2>1, <2>3
    <2>5. \E m \in Nat : DOMAIN v.items = 1 .. m
        <3>1. v.items = <<>> \/ v.items \in Seq(NestedIn[n + 1]) \/ v.items \in Seq(Field(n + 1))
            BY <2>1, NestedIs
        <3>2. \A S : \A s \in Seq(S) : Len(s) \in Nat /\ DOMAIN s = 1 .. Len(s)
            OBVIOUS
        <3>3. DOMAIN <<>> = 1 .. 0
            OBVIOUS
        <3> QED BY <3>1, <3>2, <3>3
    <2>6. items \in Seq(Seq(Int))
        <3>1. PICK m \in Nat : DOMAIN v.items = 1 .. m
            BY <2>5
        <3>2. items \in [1 .. m -> Seq(Int)]
            BY <2>4, <3>1
        <3> HIDE DEF items
        <3> QED BY <3>2, SeqDef
    <2>7. encode_decoded_value[<<t, v>>] = EncodeOf(t, v, items)
        BY <2>2, EncodesAs
    <2> QED BY <2>1, <2>6, <2>7, EncodeOfType
<1>3. Nat \subseteq P
    <2> HIDE DEF P
    <2> QED BY <1>1, <1>2, CountUp
<1>4. MaxDepth \in P
    <2> HIDE DEF P
    <2> QED BY <1>0, <1>3
<1>5. MaxDepth <= MaxDepth
    BY <1>0
<1> QED BY <1>4, <1>5 DEF DecodedValues

-----------------------------------------------------------------------------
(* The inductive invariant: what the contracts take and what the cache     *)
(* says they do, what has been decoded, and what the encoder has fetched,  *)
(* for the calls the calldata was written for                              *)

SentPcs == {"fetch", "invalid", "simulated"}
SentField == [key : Nat, type : SentTypes, value : DecodedValues]
ShownCall == [to : Contracts, types : Seq(Types), params : Seq(SentField)]
SentBack(call) == [call EXCEPT !.params = [i \in DOMAIN @ |-> AsSent(@[i])]]
AsShown(call) == [to |-> call.to, types |-> call.types, params |-> Displayed(call)]

TxOK == CallsOf(tx) /\ calldata \in Variations(Multicall(tx)) \cup {Longer(tx)}
ChainOK ==
    /\ DOMAIN abi = Contracts /\ DOMAIN cache = Contracts
    /\ \A c \in Contracts : abi[c] \in Abis(c) \cup Upgrades /\ cache[c] \in Abis(c) \cup Upgrades \cup {None}
    /\ upgrades = 0 => /\ \A k \in 1 .. Len(tx) : abi[tx[k].to] = tx[k].types
                       /\ \A c \in Contracts : cache[c] \in {None, abi[c]}
    /\ faults \in 0 .. MaxFaults /\ upgrades \in 0 .. MaxUpgrades
ShownOK ==
    /\ pc \in {"decode", "undecoded", "no_abi", "shown", "unreadable", "fetch", "invalid", "simulated", "ran"}
    /\ shown \in Seq(ShownCall)
    /\ Len(shown) <= Len(Parsed) /\ (pc \in SentPcs \cup {"shown"} => Len(shown) = Len(Parsed))
    /\ \A k \in 1 .. Len(shown) : shown[k].to = tx[k].to
WrittenOK ==
    upgrades = 0 => \A k \in 1 .. Len(shown) :
        /\ Parsed[k].data = ArgsDatas(tx)[k]
        /\ shown[k] = IF pc \in SentPcs THEN SentBack(AsShown(tx[k])) ELSE AsShown(tx[k])
FetchedOK ==
    /\ fetched \in Seq(Seq(Seq(Types) \cup {None}))
    /\ IF pc \in SentPcs THEN Len(fetched) = Len(shown) ELSE fetched = <<>>
    /\ \A k \in DOMAIN fetched :
        /\ fetched[k] = <<>> \/ (fetched[k] = <<fetched[k][1]>> /\ fetched[k][1] \in Seq(Types) \cup {None})
        /\ upgrades = 0 => fetched[k] \in {<<>>, <<None>>, <<tx[k].types>>}
        /\ pc \in {"invalid", "simulated"} => fetched[k] # <<>>
SentOK == sent = None \/ \A i \in DOMAIN sent : sent[i] \in 0 .. Prime - 1
IInv == TxOK /\ ChainOK /\ ShownOK /\ WrittenOK /\ RefusedForAReason /\ FetchedOK /\ SentOK

\* The calls that are read, and those that were written.
LEMMA TxParsed ==
    ASSUME TxOK
    PROVE  \E n, m \in Nat :
            /\ n = Len(tx) /\ m = Len(Parsed) /\ Parsed \in Seq(ParsedCall) /\ DOMAIN tx = 1 .. n
            /\ m = n - (IF Cut THEN 1 ELSE 0)
            /\ \A k \in 1 .. m : /\ k \in 1 .. n /\ Parsed[k].to = tx[k].to
                                 /\ Parsed[k].data \in {ArgsDatas(tx)[k], ArgsDatas(tx)[k] \o <<0>>}
            /\ \A k \in 1 .. n : /\ tx[k].to \in Contracts /\ tx[k].types \in Seq(Types)
                                 /\ ValuesAre(tx[k].types, tx[k].args)
                                 /\ ArgsDatas(tx)[k] = ArgsFelts(tx[k].types, tx[k].args)
                                 /\ ArgsDatas(tx)[k] \in Seq(Felts)
<1>1. CallsOf(tx) /\ calldata \in Variations(Multicall(tx)) \cup {Longer(tx)}
    BY DEF TxOK
<1>2. /\ Parsed \in Seq(ParsedCall) /\ Len(Parsed) \in Nat
      /\ Len(Parsed) = Len(tx) - (IF Cut THEN 1 ELSE 0)
      /\ \A k \in 1 .. Len(Parsed) :
            /\ k \in 1 .. Len(tx) /\ Parsed[k].to = tx[k].to
            /\ Parsed[k].data \in {ArgsDatas(tx)[k], ArgsDatas(tx)[k] \o <<0>>}
    BY <1>1, ParsedIs DEF Parsed, Cut
<1>3. PICK n \in Nat : /\ n = Len(tx) /\ DOMAIN tx = 1 .. n
                       /\ \A k \in 1 .. n : /\ tx[k].to \in Contracts /\ tx[k].types \in Seq(Types)
                                            /\ ValuesAre(tx[k].types, tx[k].args)
                                            /\ ArgsDatas(tx)[k] = ArgsFelts(tx[k].types, tx[k].args)
                                            /\ ArgsDatas(tx)[k] \in Seq(Felts)
    BY <1>1, CallsTyped
<1> QED BY <1>2, <1>3

\* The ABI that is fetched is one of the contract, on chain now unless it was upgraded.
LEMMA FetchedAbi ==
    ASSUME ChainOK, NEW c \in Contracts
    PROVE  /\ fetch_contract_abi(c) \in Abis(c) \cup Upgrades /\ fetch_contract_abi(c) \in Seq(Types)
           /\ fetch_contract_abi(c) # None
           /\ upgrades = 0 => fetch_contract_abi(c) = abi[c]
<1>1. abi[c] \in Abis(c) \cup Upgrades /\ cache[c] \in Abis(c) \cup Upgrades \cup {None}
    BY DEF ChainOK
<1>2. upgrades = 0 => cache[c] \in {None, abi[c]}
    BY DEF ChainOK
<1>3. Abis(c) \cup Upgrades \subseteq Seq(Types) /\ None \notin Abis(c) \cup Upgrades
    BY CallsAssumption
<1> QED BY <1>1, <1>2, <1>3 DEF fetch_contract_abi

\* What one call is decoded as.
LEMMA CallDecoded ==
    ASSUME TxOK, ChainOK, NEW k \in 1 .. Len(Parsed)
    PROVE  LET types == fetch_contract_abi(Parsed[k].to)
               ps == decode_calldata(types, Parsed[k].data)
           IN /\ Parsed[k].to \in Contracts /\ Parsed[k].to = tx[k].to
              /\ types \in Seq(Types) /\ ps.dvs \in Seq(Field(MaxDepth))
              /\ upgrades = 0 /\ ps.some => /\ Parsed[k].data = ArgsDatas(tx)[k] /\ types = tx[k].types
                                            /\ ps.dvs = Displayed(tx[k])
              /\ upgrades = 0 /\ Parsed[k].data = ArgsDatas(tx)[k]
                    /\ (\A i \in DOMAIN tx[k].types : Decodable[tx[k].types[i]]) => ps.some
<1> DEFINE types == fetch_contract_abi(Parsed[k].to)
           ps == decode_calldata(types, Parsed[k].data)
           call == tx[k]
           felts == ArgsFelts(call.types, call.args)
<1>1. /\ Parsed[k].to = call.to /\ call.to \in Contracts /\ call.types \in Seq(Types)
      /\ ValuesAre(call.types, call.args) /\ felts \in Seq(Felts)
      /\ ArgsDatas(tx)[k] = felts /\ Parsed[k].data \in {felts, felts \o <<0>>} /\ k \in 1 .. Len(tx)
    <2>1. PICK n, m \in Nat :
            /\ n = Len(tx) /\ m = Len(Parsed)
            /\ \A j \in 1 .. m : /\ j \in 1 .. n /\ Parsed[j].to = tx[j].to
                                 /\ Parsed[j].data \in {ArgsDatas(tx)[j], ArgsDatas(tx)[j] \o <<0>>}
            /\ \A j \in 1 .. n : /\ tx[j].to \in Contracts /\ tx[j].types \in Seq(Types)
                                 /\ ValuesAre(tx[j].types, tx[j].args)
                                 /\ ArgsDatas(tx)[j] = ArgsFelts(tx[j].types, tx[j].args)
                                 /\ ArgsDatas(tx)[j] \in Seq(Felts)
        BY TxParsed
    <2>2. /\ k \in 1 .. n /\ Parsed[k].to = tx[k].to
          /\ Parsed[k].data \in {ArgsDatas(tx)[k], ArgsDatas(tx)[k] \o <<0>>}
        BY <2>1
    <2> QED BY <2>1, <2>2
<1>2. types \in Seq(Types) /\ (upgrades = 0 => types = call.types)
    <2>1. upgrades = 0 => abi[call.to] = call.types
        BY <1>1 DEF ChainOK
    <2> QED BY <1>1, <2>1, FetchedAbi
<1>3. Parsed[k].data \in Seq(Felts)
    <2>1. <<0>> \in Seq(Felts)
        BY FieldAssumption DEF Felts
    <2>2. felts \o <<0>> \in Seq(Felts)
        BY <1>1, <2>1, ConcatProperties
    <2> QED BY <1>1, <2>2
<1> HIDE DEF types, call, felts
<1>4. ps.dvs \in Seq(Field(MaxDepth))
    BY <1>2, <1>3, CalldataDecodes
<1>5. ASSUME upgrades = 0, NEW rest \in {<<>>, << 0 >>}, Parsed[k].data = felts \o rest
      PROVE  /\ ps.some => rest = <<>> /\ ps.dvs = Displayed(call)
             /\ rest = <<>> /\ (\A i \in DOMAIN call.types : Decodable[call.types[i]]) => ps.some
    <2>1. rest \in Seq(Felts)
        <3>1. <<>> \in Seq(Felts)
            OBVIOUS
        <3>2. <<0>> \in Seq(Felts)
            BY <3>1, AppendZero
        <3> QED BY <1>5, <3>1, <3>2, Zenon
    <2>2. ps = decode_calldata(call.types, ArgsFelts(call.types, call.args) \o rest)
        BY <1>2, <1>5 DEF felts
    <2>3. Displayed(call) = ToShow(call.types, call.args)
        BY <1>1 DEF Displayed, ToShow
    <2> HIDE DEF ps
    <2>4. /\ ps.some => rest = <<>> /\ ps.dvs = ToShow(call.types, call.args)
          /\ rest = <<>> /\ (\A i \in DOMAIN call.types : Decodable[call.types[i]]) => ps.some
        BY <1>1, <2>1, <2>2, CalldataRoundTrip
    <2> QED BY <2>3, <2>4
<1>6. felts \o <<>> = felts /\ felts # felts \o <<0>>
    <2>1. Len(felts \o <<0>>) = Len(felts) + 1 /\ Len(felts) \in Nat
        BY <1>1
    <2> QED BY <1>1, <2>1
<1>7. upgrades = 0 /\ ps.some => Parsed[k].data = felts /\ ps.dvs = Displayed(call)
    <2> HIDE DEF ps
    <2> QED BY <1>1, <1>5, <1>6
<1>8. upgrades = 0 /\ Parsed[k].data = felts /\ (\A i \in DOMAIN call.types : Decodable[call.types[i]]) => ps.some
    <2> HIDE DEF ps
    <2> QED BY <1>1, <1>5, <1>6
<1> HIDE DEF ps
<1>9. /\ Parsed[k].to \in Contracts /\ Parsed[k].to = call.to
      /\ types \in Seq(Types) /\ ps.dvs \in Seq(Field(MaxDepth))
      /\ upgrades = 0 /\ ps.some => /\ Parsed[k].data = ArgsDatas(tx)[k] /\ types = call.types
                                    /\ ps.dvs = Displayed(call)
      /\ upgrades = 0 /\ Parsed[k].data = ArgsDatas(tx)[k]
            /\ (\A i \in DOMAIN call.types : Decodable[call.types[i]]) => ps.some
    BY <1>1, <1>2, <1>4, <1>7, <1>8
<1> QED BY <1>9 DEF ps, types, call

-----------------------------------------------------------------------------
(* Each step keeps the invariant *)

LEMMA InitIInv == Init => IInv
<1> SUFFICES ASSUME Init PROVE IInv
    OBVIOUS
<1>1. \A c \in Contracts : abi[c] \in Abis(c)
    BY DEF Init
<1>2. PICK n \in 1 .. MaxCalls : tx \in [1 .. n -> Calls(abi)]
    BY DEF Init
<1>3. MaxCalls \in Nat /\ MaxFaults \in Nat /\ MaxUpgrades \in Nat
    <2>1. PICK p \in Nat : p = Prime
        BY FieldAssumption
    <2>2. MaxCalls \in 1 .. p - 1
        BY <2>1, CallsAssumption
    <2> QED BY <2>1, <2>2, CallsAssumption
<1>4. DOMAIN tx = 1 .. n /\ Len(tx) = n
    <2>1. tx \in Seq(Calls(abi))
        BY <1>2, <1>3, SeqDef
    <2> QED BY <1>2, <1>3, <2>1
<1>5. \A k \in 1 .. n : /\ tx[k].to \in Contracts /\ tx[k].types = abi[tx[k].to]
                         /\ tx[k].args \in ArgsOf(tx[k].types)
    <2> SUFFICES ASSUME NEW k \in 1 .. n
                 PROVE  /\ tx[k].to \in Contracts /\ tx[k].types = abi[tx[k].to]
                        /\ tx[k].args \in ArgsOf(tx[k].types)
        OBVIOUS
    <2>1. tx[k] \in Calls(abi)
        BY <1>2
    <2>2. PICK c \in Contracts : tx[k] \in {[to |-> c, types |-> abi[c], args |-> a] : a \in ArgsOf(abi[c])}
        BY <2>1 DEF Calls
    <2>3. PICK a \in ArgsOf(abi[c]) : tx[k] = [to |-> c, types |-> abi[c], args |-> a]
        BY <2>2
    <2> QED BY <2>3
<1>6. CallsOf(tx)
    BY <1>1, <1>4, <1>5 DEF CallsOf
<1>7. TxOK
    BY <1>6 DEF TxOK, Init
<1>8. ChainOK
    <2>1. DOMAIN abi = Contracts /\ cache = [c \in Contracts |-> None] /\ faults = 0 /\ upgrades = 0
        BY DEF Init
    <2>2. \A k \in 1 .. Len(tx) : abi[tx[k].to] = tx[k].types
        BY <1>4, <1>5
    <2> QED BY <1>1, <1>3, <2>1, <2>2 DEF ChainOK
<1>9. shown = <<>> /\ fetched = <<>> /\ sent = None /\ pc = "decode" /\ Len(shown) = 0
    BY DEF Init
<1>10. ShownOK /\ WrittenOK
    <2>1. Len(Parsed) \in Nat
        BY <1>7, TxParsed
    <2>2. \A k : k \notin 1 .. 0
        OBVIOUS
    <2>3. ShownOK
        BY <1>9, <2>1, <2>2 DEF ShownOK, SentPcs
    <2> QED BY <1>9, <2>2, <2>3 DEF WrittenOK
<1>11. FetchedOK
    BY <1>9 DEF FetchedOK, SentPcs
<1>12. RefusedForAReason /\ SentOK
    BY <1>9 DEF RefusedForAReason, SentOK
<1> QED BY <1>7, <1>8, <1>10, <1>11, <1>12 DEF IInv

\* What was written and sent does not change.
LEMMA TxSame ==
    ASSUME TxOK, [Next]_vars
    PROVE  TxOK' /\ tx' = tx /\ calldata' = calldata /\ Parsed' = Parsed
<1>1. tx' = tx /\ calldata' = calldata
    <2>1. CASE UNCHANGED vars
        BY <2>1 DEF vars
    <2>2. ASSUME NEW c \in Contracts, Upgrade(c) \/ Lapse(c) PROVE tx' = tx /\ calldata' = calldata
        BY <2>2 DEF Upgrade, Lapse
    <2>3. CASE DecodeCall \/ DecodeWithoutAbi \/ Show \/ Simulate
        BY <2>3 DEF DecodeCall, DecodeWithoutAbi, Show, Simulate
    <2>4. CASE SendBack \/ Encode
        BY <2>4 DEF SendBack, Encode
    <2>5. ASSUME NEW k \in DOMAIN fetched, FetchAbi(k) PROVE tx' = tx /\ calldata' = calldata
        BY <2>5 DEF FetchAbi
    <2> QED BY <2>1, <2>2, <2>3, <2>4, <2>5 DEF Next
<1> QED BY <1>1 DEF TxOK, Parsed

\* A read through the cache leaves it true to the chain.
LEMMA ReadChain ==
    ASSUME ChainOK, NEW c \in Contracts, Fetched(c) \/ FetchFails(c), UNCHANGED <<abi, upgrades, tx>>
    PROVE  ChainOK'
<1>1. fetch_contract_abi(c) \in Abis(c) \cup Upgrades /\ (upgrades = 0 => fetch_contract_abi(c) = abi[c])
    BY FetchedAbi
<1>2. faults' \in 0 .. MaxFaults
    <2>1. MaxFaults \in Nat /\ faults \in 0 .. MaxFaults
        BY CallsAssumption DEF ChainOK
    <2> QED BY <2>1 DEF Fetched, FetchFails
<1>3. CASE FetchFails(c)
    <2>1. cache' = cache
        BY <1>3 DEF FetchFails
    <2> QED BY <1>2, <2>1 DEF ChainOK
<1>4. CASE Fetched(c)
    <2>1. cache' = [cache EXCEPT ![c] = fetch_contract_abi(c)]
        BY <1>4 DEF Fetched
    <2>2. DOMAIN cache = Contracts
        BY DEF ChainOK
    <2>3. \A d \in Contracts : cache'[d] = IF d = c THEN fetch_contract_abi(c) ELSE cache[d]
        BY <2>1, <2>2
    <2> QED BY <1>1, <1>2, <2>1, <2>2, <2>3 DEF ChainOK
<1> QED BY <1>3, <1>4

\* The cache holds what is on chain, unless a contract was upgraded.
LEMMA ChainStep ==
    ASSUME TxOK, ChainOK, ShownOK, FetchedOK, [Next]_vars
    PROVE  ChainOK'
<1>0. tx' = tx
    BY TxSame
<1>1. ASSUME NEW k \in 1 .. Len(Parsed) PROVE Parsed[k].to \in Contracts
    BY CallDecoded
<1>2. Len(Parsed) \in Nat /\ Len(shown) \in Nat
    BY TxParsed DEF ShownOK
<1>3. CASE UNCHANGED <<abi, cache, faults, upgrades>>
    BY <1>0, <1>3 DEF ChainOK
<1>4. ASSUME NEW c \in Contracts, Upgrade(c) PROVE ChainOK'
    <2>1. upgrades \in 0 .. MaxUpgrades /\ MaxUpgrades \in Nat
        BY CallsAssumption DEF ChainOK
    <2>2. upgrades < MaxUpgrades /\ upgrades' = upgrades + 1
        BY <1>4 DEF Upgrade
    <2>3. upgrades' # 0 /\ upgrades' \in 0 .. MaxUpgrades
        BY <2>1, <2>2
    <2>4. PICK ts \in Upgrades : abi' = [abi EXCEPT ![c] = ts]
        BY <1>4 DEF Upgrade
    <2>5. DOMAIN abi' = Contracts /\ \A d \in Contracts : abi'[d] = IF d = c THEN ts ELSE abi[d]
        BY <2>4 DEF ChainOK
    <2>6. cache' = cache /\ faults' = faults
        BY <1>4 DEF Upgrade
    <2> QED BY <2>3, <2>5, <2>6 DEF ChainOK
<1>5. ASSUME NEW c \in Contracts, Lapse(c) PROVE ChainOK'
    <2>1. cache' = [cache EXCEPT ![c] = None] /\ abi' = abi /\ faults' = faults /\ upgrades' = upgrades
        BY <1>5 DEF Lapse
    <2>2. DOMAIN cache' = Contracts /\ \A d \in Contracts : cache'[d] = IF d = c THEN None ELSE cache[d]
        BY <2>1 DEF ChainOK
    <2> QED BY <1>0, <2>1, <2>2 DEF ChainOK
<1>6. CASE DecodeCall
    <2>1. Next1 \in 1 .. Len(Parsed)
        BY <1>2, <1>6 DEF DecodeCall, Next1
    <2>2. Fetched(Parsed[Next1].to) /\ UNCHANGED <<abi, upgrades>>
        BY <1>6 DEF DecodeCall
    <2> QED BY <1>0, <1>1, <2>1, <2>2, ReadChain
<1>7. CASE DecodeWithoutAbi
    <2>1. Next1 \in 1 .. Len(Parsed)
        BY <1>2, <1>7 DEF DecodeWithoutAbi, Next1
    <2>2. FetchFails(Parsed[Next1].to) /\ UNCHANGED <<abi, upgrades>>
        BY <1>7 DEF DecodeWithoutAbi
    <2> QED BY <1>0, <1>1, <2>1, <2>2, ReadChain
<1>8. ASSUME NEW k \in DOMAIN fetched, FetchAbi(k) PROVE ChainOK'
    <2>1. shown[k].to \in Contracts
        <3>1. k \in 1 .. Len(shown)
            BY <1>8 DEF FetchedOK
        <3>2. shown \in Seq(ShownCall)
            BY DEF ShownOK
        <3>3. shown[k] \in ShownCall
            BY <3>1, <3>2
        <3> QED BY <3>3 DEF ShownCall
    <2>2. (Fetched(shown[k].to) \/ FetchFails(shown[k].to)) /\ UNCHANGED <<abi, upgrades>>
        BY <1>8 DEF FetchAbi
    <2> QED BY <1>0, <2>1, <2>2, ReadChain
<1> QED
    BY <1>3, <1>4, <1>5, <1>6, <1>7, <1>8 DEF Next, vars, Show, Simulate, SendBack, Encode

LEMMA AsSentType ==
    \A dv \in SentField : AsSent(dv) \in SentField
<1> SUFFICES ASSUME NEW dv \in SentField PROVE AsSent(dv) \in SentField
    OBVIOUS
<1>1. dv.value \in DecodedValues /\ dv = [key |-> dv.key, type |-> dv.type, value |-> dv.value] /\ dv.key \in Nat
    BY DEF SentField
<1>2. CASE dv.value.kind = "enum"
    <2>1. MaxDepth \in 0 .. MaxDepth
        BY TypesAssumption
    <2>2. dv.value.num \in Nat /\ dv.value.items \in Seq(Field(MaxDepth)) /\ Len(dv.value.items) = 1
        BY <1>1, <1>2, <2>1, NestedIs DEF DecodedValues
    <2>3. dv.value.items[1].value \in DecodedValues
        <3>1. dv.value.items[1] \in Field(MaxDepth)
            BY <2>2
        <3> QED BY <3>1 DEF Field, DecodedValues
    <2> DEFINE t == [Type("variant", <<>>) EXCEPT !.n = dv.value.num]
    <2>4. t \in SentTypes
        <3>1. t = [k |-> "variant", of |-> <<>>, n |-> dv.value.num]
            BY DEF Type
        <3> HIDE DEF t
        <3> QED BY <2>2, <3>1 DEF SentTypes
    <2> HIDE DEF t
    <2>5. AsSent(dv) = [dv EXCEPT !.type = t, !.value = dv.value.items[1].value]
        BY <1>2 DEF AsSent, t
    <2>6. AsSent(dv) = [key |-> dv.key, type |-> t, value |-> dv.value.items[1].value]
        BY <1>1, <2>5
    <2> QED BY <1>1, <2>3, <2>4, <2>6 DEF SentField
<1>3. CASE dv.value.kind # "enum"
    BY <1>3 DEF AsSent
<1> QED BY <1>2, <1>3

LEMMA SentBackType ==
    \A call \in ShownCall : SentBack(call) \in ShownCall /\ SentBack(call).to = call.to
                            /\ Len(SentBack(call).params) = Len(call.params)
<1> SUFFICES ASSUME NEW call \in ShownCall
             PROVE  SentBack(call) \in ShownCall /\ SentBack(call).to = call.to
                    /\ Len(SentBack(call).params) = Len(call.params)
    OBVIOUS
<1>1. call = [to |-> call.to, types |-> call.types, params |-> call.params] /\ call.params \in Seq(SentField)
      /\ call.to \in Contracts /\ call.types \in Seq(Types)
    BY DEF ShownCall
<1> DEFINE ps == [i \in DOMAIN call.params |-> AsSent(call.params[i])]
<1>2. PICK n \in Nat : n = Len(call.params) /\ DOMAIN call.params = 1 .. n
    BY <1>1
<1>3. \A i \in 1 .. n : AsSent(call.params[i]) \in SentField
    BY <1>1, <1>2, AsSentType
<1>4. ps \in [1 .. n -> SentField]
    BY <1>2, <1>3
<1>5. SentBack(call) = [to |-> call.to, types |-> call.types, params |-> ps]
    BY <1>1 DEF SentBack
<1> HIDE DEF ps
<1>6. ps \in Seq(SentField)
    BY <1>4, SeqDef
<1>7. Len(ps) = n
    BY <1>4, <1>6
<1> QED BY <1>1, <1>2, <1>5, <1>6, <1>7 DEF ShownCall

\* One more call is shown, or all are sent back as they were shown.
LEMMA ShownStep ==
    ASSUME TxOK, ChainOK, ShownOK, WrittenOK, [Next]_vars
    PROVE  ShownOK' /\ WrittenOK' /\ DOMAIN shown' \in {DOMAIN shown, 1 .. Len(shown')} /\ Len(shown') \in Nat
<1>0. tx' = tx /\ Parsed' = Parsed
    BY TxSame
<1>1. PICK m \in Nat : m = Len(Parsed)
    BY TxParsed
<1>2. shown \in Seq(ShownCall) /\ Len(shown) \in Nat /\ DOMAIN shown = 1 .. Len(shown) /\ Len(shown) <= m
    BY <1>1 DEF ShownOK
<1>3. CASE UNCHANGED <<pc, shown>> /\ (UNCHANGED upgrades \/ upgrades' # 0)
    <2>1. ShownOK'
        BY <1>0, <1>3 DEF ShownOK
    <2>2. WrittenOK'
        BY <1>0, <1>3 DEF WrittenOK
    <2> QED BY <1>2, <1>3, <2>1, <2>2
<1>4. CASE UNCHANGED <<shown, upgrades>> /\ pc' \in {"undecoded", "no_abi", "shown", "unreadable", "ran"}
           /\ pc \in {"decode", "shown"} /\ (pc' = "shown" => Len(shown) = m)
    <2>1. ShownOK'
        BY <1>0, <1>1, <1>4 DEF ShownOK, SentPcs
    <2>2. WrittenOK'
        BY <1>0, <1>4 DEF WrittenOK, SentPcs
    <2> QED BY <1>2, <1>4, <2>1, <2>2
<1>5. CASE UNCHANGED <<shown, upgrades>> /\ pc' \in SentPcs /\ pc \in SentPcs
    <2>1. ShownOK'
        BY <1>0, <1>1, <1>5 DEF ShownOK, SentPcs
    <2>2. WrittenOK'
        BY <1>0, <1>5 DEF WrittenOK
    <2> QED BY <1>2, <1>5, <2>1, <2>2
<1>6. CASE DecodeCall /\ shown' # shown
    <2> DEFINE types == fetch_contract_abi(Parsed[Next1].to)
               ps == decode_calldata(types, Parsed[Next1].data)
               call == [to |-> Parsed[Next1].to, types |-> types, params |-> ps.dvs]
    <2>1. PICK k \in 1 .. m : k = Next1 /\ k = Len(shown) + 1
        <3>1. PICK n \in Nat : n = Len(shown) /\ Next1 = n + 1
            BY <1>2 DEF Next1
        <3>2. Next1 <= m
            BY <1>1, <1>6 DEF DecodeCall
        <3>3. n + 1 \in 1 .. m
            BY <3>1, <3>2
        <3> QED BY <3>1, <3>3
    <2>2. /\ Parsed[k].to \in Contracts /\ Parsed[k].to = tx[k].to
          /\ types \in Seq(Types) /\ ps.dvs \in Seq(Field(MaxDepth))
          /\ upgrades = 0 /\ ps.some => /\ Parsed[k].data = ArgsDatas(tx)[k] /\ types = tx[k].types
                                        /\ ps.dvs = Displayed(tx[k])
        BY <1>1, <2>1, CallDecoded
    <2>3. ps.some /\ shown' = Append(shown, call) /\ pc' = "decode" /\ pc = "decode" /\ UNCHANGED upgrades
        BY <1>6 DEF DecodeCall
    <2> HIDE DEF ps, types
    <2>4. call \in ShownCall /\ call.to = tx[k].to
        <3>1. Field(MaxDepth) \subseteq SentField
            BY DEF Field, SentField, SentTypes, DecodedValues
        <3>2. ps.dvs \in Seq(SentField)
            BY <2>2, <3>1
        <3> QED BY <2>1, <2>2, <3>2 DEF ShownCall
    <2>5. upgrades = 0 => Parsed[k].data = ArgsDatas(tx)[k] /\ call = AsShown(tx[k])
        BY <2>1, <2>2, <2>3 DEF AsShown
    <2> HIDE DEF call
    <2>6. /\ shown' \in Seq(ShownCall) /\ Len(shown') = k /\ shown'[k] = call
          /\ \A j \in 1 .. Len(shown) : shown'[j] = shown[j]
        BY <1>2, <2>1, <2>3, <2>4, AppendProperties
    <2>7. \A j \in 1 .. k : j \in 1 .. Len(shown) \/ j = k
        BY <1>2, <2>1
    <2>8. ShownOK'
        <3>1. Len(shown') <= Len(Parsed')
            BY <1>0, <1>1, <2>1, <2>6
        <3>2. \A j \in 1 .. k : shown'[j].to = tx[j].to
            BY <2>4, <2>6, <2>7 DEF ShownOK
        <3> QED BY <1>0, <2>3, <2>6, <3>1, <3>2 DEF ShownOK, SentPcs
    <2>9. WrittenOK'
        <3>1. ASSUME upgrades = 0, NEW j \in 1 .. k PROVE Parsed[j].data = ArgsDatas(tx)[j] /\ shown'[j] = AsShown(tx[j])
            <4>1. CASE j = k
                BY <2>5, <2>6, <3>1, <4>1
            <4>2. CASE j \in 1 .. Len(shown)
                BY <2>3, <2>6, <3>1, <4>2 DEF WrittenOK, SentPcs
            <4> QED BY <2>7, <4>1, <4>2
        <3> QED BY <1>0, <2>3, <2>6, <3>1 DEF WrittenOK, SentPcs
    <2>10. DOMAIN shown' = 1 .. Len(shown') /\ Len(shown') \in Nat
        BY <2>6
    <2> QED BY <2>8, <2>9, <2>10
<1>7. CASE SendBack /\ pc' = "fetch"
    <2>1. shown' = [k \in DOMAIN shown |-> SentBack(shown[k])] /\ pc = "shown" /\ UNCHANGED upgrades
        BY <1>7 DEF SendBack, SentBack
    <2>2. PICK n \in Nat : n = Len(shown) /\ DOMAIN shown = 1 .. n
        BY <1>2
    <2>3. \A k \in 1 .. n : SentBack(shown[k]) \in ShownCall /\ SentBack(shown[k]).to = shown[k].to
        BY <1>2, <2>2, SentBackType
    <2>4. shown' \in [1 .. n -> ShownCall]
        BY <2>1, <2>2, <2>3
    <2>5. shown' \in Seq(ShownCall) /\ Len(shown') = n /\ \A k \in 1 .. n : shown'[k] = SentBack(shown[k])
        <3>1. shown' \in Seq(ShownCall)
            BY <2>4, SeqDef
        <3>2. Len(shown') = n
            BY <2>4, <3>1
        <3> QED BY <2>1, <2>2, <3>1, <3>2
    <2>6. ShownOK'
        <3>1. n = m
            BY <1>1, <2>1, <2>2 DEF ShownOK
        <3>2. \A k \in 1 .. n : shown'[k].to = tx[k].to
            BY <2>2, <2>3, <2>5 DEF ShownOK
        <3> QED BY <1>0, <1>1, <1>7, <2>5, <3>1, <3>2 DEF ShownOK
    <2>7. WrittenOK'
        <3>1. ASSUME upgrades = 0, NEW k \in 1 .. n
              PROVE  Parsed[k].data = ArgsDatas(tx)[k] /\ shown'[k] = SentBack(AsShown(tx[k]))
            BY <2>1, <2>2, <2>5, <3>1 DEF WrittenOK, SentPcs
        <3> QED BY <1>0, <1>7, <2>1, <2>5, <3>1 DEF WrittenOK, SentPcs
    <2>8. DOMAIN shown' = 1 .. Len(shown') /\ Len(shown') \in Nat
        BY <2>5
    <2> QED BY <2>6, <2>7, <2>8
<1>8. CASE UNCHANGED vars
    BY <1>3, <1>8 DEF vars
<1>9. ASSUME NEW c \in Contracts, Upgrade(c) \/ Lapse(c)
      PROVE  ShownOK' /\ WrittenOK' /\ DOMAIN shown' \in {DOMAIN shown, 1 .. Len(shown')} /\ Len(shown') \in Nat
    <2>1. UNCHANGED <<pc, shown>>
        BY <1>9 DEF Upgrade, Lapse
    <2>2. upgrades' = upgrades \/ upgrades' # 0
        <3>1. upgrades \in 0 .. MaxUpgrades
            BY DEF ChainOK
        <3>2. upgrades' = upgrades \/ upgrades' = upgrades + 1
            BY <1>9 DEF Upgrade, Lapse
        <3> QED BY <3>1, <3>2
    <2> QED BY <1>3, <2>1, <2>2
<1>10. CASE DecodeCall /\ shown' = shown
    <2>1. pc' \in {"decode", "undecoded"} /\ pc = "decode" /\ UNCHANGED upgrades
        BY <1>10 DEF DecodeCall
    <2> QED BY <1>3, <1>4, <1>10, <2>1
<1>11. CASE DecodeWithoutAbi \/ Simulate
    BY <1>4, <1>11 DEF DecodeWithoutAbi, Simulate
<1>12. CASE Show
    <2>1. Len(shown) = m
        <3>1. PICK n \in Nat : n = Len(shown) /\ Next1 = n + 1 /\ n <= m
            BY <1>2 DEF Next1
        <3>2. Next1 > m
            BY <1>1, <1>12 DEF Show
        <3>3. n = m
            BY <3>1, <3>2
        <3> QED BY <3>1, <3>3
    <2> QED BY <1>4, <1>12, <2>1 DEF Show
<1>13. CASE SendBack /\ pc' # "fetch"
    BY <1>4, <1>13 DEF SendBack
<1>14. CASE Encode
    BY <1>5, <1>14 DEF Encode, SentPcs
<1>15. ASSUME NEW k \in DOMAIN fetched, FetchAbi(k)
       PROVE  ShownOK' /\ WrittenOK' /\ DOMAIN shown' \in {DOMAIN shown, 1 .. Len(shown')} /\ Len(shown') \in Nat
    BY <1>3, <1>15 DEF FetchAbi
<1> QED BY <1>6, <1>7, <1>8, <1>9, <1>10, <1>11, <1>12, <1>13, <1>14, <1>15 DEF Next

\* What is refused had to be.
LEMMA RefusedStep ==
    ASSUME TxOK, ChainOK, ShownOK, RefusedForAReason, [Next]_vars
    PROVE  RefusedForAReason'
<1>0. tx' = tx /\ Parsed' = Parsed
    BY TxSame
<1>1. CASE pc' # "undecoded"
    BY <1>1 DEF RefusedForAReason
<1>2. CASE UNCHANGED <<pc, shown>> /\ (UNCHANGED upgrades \/ upgrades' > 0)
    BY <1>0, <1>2 DEF RefusedForAReason, Next1
<1>3. CASE DecodeCall /\ pc' = "undecoded"
    <2> DEFINE types == fetch_contract_abi(Parsed[Next1].to)
               ps == decode_calldata(types, Parsed[Next1].data)
    <2>1. PICK k \in 1 .. Len(Parsed) : k = Next1
        <3>1. PICK m \in Nat : m = Len(Parsed)
            BY TxParsed
        <3>2. PICK n \in Nat : n = Len(shown) /\ Next1 = n + 1
            BY DEF Next1, ShownOK
        <3>3. Next1 <= m
            BY <1>3, <3>1 DEF DecodeCall
        <3>4. n + 1 \in 1 .. m
            BY <3>2, <3>3
        <3> QED BY <3>1, <3>2, <3>4
    <2>2. /\ upgrades = 0 /\ Parsed[k].data = ArgsDatas(tx)[k]
              /\ (\A i \in DOMAIN tx[k].types : Decodable[tx[k].types[i]]) => ps.some
        BY <2>1, CallDecoded
    <2>3. ~ps.some /\ shown' = shown /\ UNCHANGED upgrades
        BY <1>3 DEF DecodeCall
    <2> HIDE DEF ps
    <2>4. upgrades \in Nat
        BY CallsAssumption DEF ChainOK
    <2>5. Next1' = k
        BY <2>1, <2>3 DEF Next1
    <2>6. \/ Parsed[k].data # ArgsDatas(tx)[k]
          \/ upgrades > 0
          \/ \E i \in DOMAIN tx[k].types : ~Decodable[tx[k].types[i]]
        BY <2>2, <2>3, <2>4
    <2> QED BY <1>0, <2>3, <2>5, <2>6 DEF RefusedForAReason
<1>4. CASE UNCHANGED vars
    BY <1>2, <1>4 DEF vars
<1>5. ASSUME NEW c \in Contracts, Upgrade(c) \/ Lapse(c) PROVE RefusedForAReason'
    <2>1. upgrades \in Nat
        BY CallsAssumption DEF ChainOK
    <2>2. upgrades' = upgrades \/ upgrades' = upgrades + 1
        BY <1>5 DEF Upgrade, Lapse
    <2>3. UNCHANGED <<pc, shown>>
        BY <1>5 DEF Upgrade, Lapse
    <2> QED BY <1>2, <2>1, <2>2, <2>3
<1>6. CASE DecodeWithoutAbi \/ Show \/ Simulate
    BY <1>1, <1>6 DEF DecodeWithoutAbi, Show, Simulate
<1>7. CASE SendBack \/ Encode
    BY <1>1, <1>7 DEF SendBack, Encode
<1>8. ASSUME NEW k \in DOMAIN fetched, FetchAbi(k) PROVE RefusedForAReason'
    BY <1>2, <1>8 DEF FetchAbi
<1> QED BY <1>1, <1>3, <1>4, <1>5, <1>6, <1>7, <1>8 DEF Next

\* The encoder gets the ABI a call was written for, or none.
LEMMA FetchedStep ==
    ASSUME TxOK, ChainOK, ShownOK, WrittenOK, FetchedOK, [Next]_vars
    PROVE  FetchedOK'
<1>0. tx' = tx /\ Parsed' = Parsed
    BY TxSame
<1>1. shown \in Seq(ShownCall) /\ Len(shown) \in Nat /\ DOMAIN shown = 1 .. Len(shown)
    BY DEF ShownOK
<1>2. CASE UNCHANGED <<pc, shown, fetched>> /\ (UNCHANGED upgrades \/ upgrades' # 0)
    BY <1>0, <1>2 DEF FetchedOK
<1>3. CASE pc \notin SentPcs /\ pc' \notin SentPcs /\ UNCHANGED fetched
    <2>1. fetched' = <<>>
        BY <1>3 DEF FetchedOK
    <2> QED BY <1>3, <2>1 DEF FetchedOK
<1>4. CASE Encode
    <2>1. pc \in SentPcs /\ pc' \in {"invalid", "simulated"} /\ UNCHANGED <<shown, fetched, upgrades>>
        BY <1>4 DEF Encode, SentPcs
    <2>2. \A k \in DOMAIN fetched : fetched[k] # <<>>
        BY <1>4 DEF Encode
    <2>3. pc' \in SentPcs
        BY <2>1 DEF SentPcs
    <2> QED BY <1>0, <2>1, <2>2, <2>3 DEF FetchedOK
<1>5. CASE SendBack /\ pc' = "fetch"
    <2>1. /\ shown' = [k \in DOMAIN shown |-> SentBack(shown[k])]
          /\ fetched' = [k \in DOMAIN shown |-> <<>>]
        BY <1>5 DEF SendBack, SentBack
    <2>2. PICK n \in Nat : n = Len(shown) /\ DOMAIN shown = 1 .. n
        BY <1>1
    <2>3. fetched' \in Seq(Seq(Seq(Types) \cup {None})) /\ Len(fetched') = n
        <3>1. fetched' \in [1 .. n -> Seq(Seq(Types) \cup {None})]
            BY <2>1, <2>2
        <3>2. fetched' \in Seq(Seq(Seq(Types) \cup {None}))
            BY <3>1, SeqDef
        <3> QED BY <3>1, <3>2
    <2>4. Len(shown') = n
        <3>1. \A k \in 1 .. n : SentBack(shown[k]) \in ShownCall
            BY <1>1, <2>2, SentBackType
        <3>2. shown' \in [1 .. n -> ShownCall]
            BY <2>1, <2>2, <3>1
        <3>3. shown' \in Seq(ShownCall)
            BY <3>2, SeqDef
        <3> QED BY <3>2, <3>3
    <2>5. DOMAIN fetched' = 1 .. n /\ \A k \in 1 .. n : fetched'[k] = <<>>
        BY <2>1, <2>2
    <2> QED BY <1>5, <2>3, <2>4, <2>5 DEF FetchedOK, SentPcs
<1>6. ASSUME NEW k \in DOMAIN fetched, FetchAbi(k) PROVE FetchedOK'
    <2>1. pc = "fetch" /\ UNCHANGED <<pc, shown, upgrades>>
        BY <1>6 DEF FetchAbi
    <2>2. PICK n \in Nat : n = Len(shown) /\ DOMAIN fetched = 1 .. n /\ k \in 1 .. n
        <3>1. fetched \in Seq(Seq(Seq(Types) \cup {None})) /\ Len(fetched) = Len(shown)
            BY <2>1 DEF FetchedOK, SentPcs
        <3>2. DOMAIN fetched = 1 .. Len(fetched)
            BY <3>1
        <3> QED BY <1>1, <3>1, <3>2
    <2> DEFINE a == fetch_contract_abi(shown[k].to)
    <2>4. PICK b \in {a, None} : fetched' = [fetched EXCEPT ![k] = <<b>>]
        <3>1. \/ fetched' = [fetched EXCEPT ![k] = <<a>>]
              \/ fetched' = [fetched EXCEPT ![k] = <<None>>]
            BY <1>6 DEF FetchAbi
        <3> HIDE DEF a
        <3> QED BY <3>1, Zenon
    <2>5. shown[k] \in ShownCall /\ shown[k].to \in Contracts
        <3>1. shown[k] \in ShownCall
            BY <1>1, <2>2
        <3> QED BY <3>1 DEF ShownCall
    <2>6. a \in Seq(Types) /\ (upgrades = 0 => a = tx[k].types)
        <3>1. a \in Seq(Types) /\ (upgrades = 0 => a = abi[shown[k].to])
            BY <2>5, FetchedAbi
        <3>2. shown[k].to = tx[k].to
            BY <2>2 DEF ShownOK
        <3>3. upgrades = 0 => abi[tx[k].to] = tx[k].types
            <4>1. k \in 1 .. Len(tx)
                <5>1. PICK m \in Nat, l \in Nat : m = Len(Parsed) /\ l = Len(tx) /\ \A j \in 1 .. m : j \in 1 .. l
                    BY TxParsed
                <5>2. n <= m
                    BY <2>2, <5>1 DEF ShownOK
                <5>3. k \in 1 .. m
                    BY <2>2, <5>2
                <5> QED BY <5>1, <5>3
            <4> QED BY <4>1 DEF ChainOK
        <3> QED BY <3>1, <3>2, <3>3
    <2> HIDE DEF a
    <2>7. DOMAIN fetched' = 1 .. n /\ \A j \in 1 .. n : fetched'[j] = IF j = k THEN <<b>> ELSE fetched[j]
        BY <2>2, <2>4
    <2>8. fetched' \in Seq(Seq(Seq(Types) \cup {None})) /\ Len(fetched') = n
        <3>1. <<b>> \in Seq(Seq(Types) \cup {None})
            BY <2>4, <2>6
        <3>2. \A j \in 1 .. n : fetched[j] \in Seq(Seq(Types) \cup {None})
            BY <2>2 DEF FetchedOK
        <3>3. fetched' \in [1 .. n -> Seq(Seq(Types) \cup {None})]
            BY <2>2, <2>4, <3>1, <3>2
        <3>4. fetched' \in Seq(Seq(Seq(Types) \cup {None}))
            BY <3>3, SeqDef
        <3> QED BY <3>3, <3>4
    <2>9. <<b>> = <<<<b>>[1]>> /\ <<b>>[1] = b /\ <<b>> # <<>>
        OBVIOUS
    <2>10. \A j \in 1 .. n :
            /\ fetched'[j] = <<>> \/ (fetched'[j] = <<fetched'[j][1]>> /\ fetched'[j][1] \in Seq(Types) \cup {None})
            /\ upgrades = 0 => fetched'[j] \in {<<>>, <<None>>, <<tx[j].types>>}
        <3> SUFFICES ASSUME NEW j \in 1 .. n
                     PROVE  /\ fetched'[j] = <<>> \/ (fetched'[j] = <<fetched'[j][1]>> /\ fetched'[j][1] \in Seq(Types) \cup {None})
                            /\ upgrades = 0 => fetched'[j] \in {<<>>, <<None>>, <<tx[j].types>>}
            OBVIOUS
        <3>1. CASE j = k
            BY <2>4, <2>6, <2>7, <2>9, <3>1
        <3>2. CASE j # k
            <4>1. fetched'[j] = fetched[j]
                BY <2>7, <3>2
            <4> QED BY <2>2, <4>1 DEF FetchedOK
        <3> QED BY <3>1, <3>2
    <2> QED BY <1>0, <2>1, <2>2, <2>7, <2>8, <2>10 DEF FetchedOK, SentPcs
<1>7. CASE UNCHANGED vars
    BY <1>2, <1>7 DEF vars
<1>8. ASSUME NEW c \in Contracts, Upgrade(c) \/ Lapse(c) PROVE FetchedOK'
    <2>1. UNCHANGED <<pc, shown, fetched>>
        BY <1>8 DEF Upgrade, Lapse
    <2>2. upgrades \in Nat
        BY CallsAssumption DEF ChainOK
    <2>3. upgrades' = upgrades \/ upgrades' = upgrades + 1
        BY <1>8 DEF Upgrade, Lapse
    <2> QED BY <1>2, <2>1, <2>2, <2>3
<1>9. CASE DecodeCall \/ DecodeWithoutAbi
    <2>1. pc \notin SentPcs /\ pc' \notin SentPcs /\ UNCHANGED fetched
        BY <1>9 DEF DecodeCall, DecodeWithoutAbi, SentPcs
    <2> QED BY <1>3, <2>1
<1>10. CASE Show \/ Simulate
    BY <1>3, <1>10 DEF Show, Simulate, SentPcs
<1>11. CASE SendBack /\ pc' # "fetch"
    BY <1>3, <1>11 DEF SendBack, SentPcs
<1> QED BY <1>4, <1>5, <1>6, <1>7, <1>8, <1>9, <1>10, <1>11 DEF Next

\* What the encoder writes is numbers.
LEMMA EncodedList ==
    ASSUME NEW n \in Nat, NEW f, \A i \in 1 .. n : f[i] \in Seq(Int)
    PROVE  Cat([i \in 1 .. n |-> f[i]]) \in Seq(Int)
<1> DEFINE s == [i \in 1 .. n |-> f[i]]
<1>1. s \in [1 .. n -> Seq(Int)]
    OBVIOUS
<1> HIDE DEF s
<1>2. s \in Seq(Seq(Int))
    BY <1>1, SeqDef
<1>3. Cat(s) \in Seq(Int)
    BY <1>2, CatType
<1> QED BY <1>3 DEF s

LEMMA EncodedVariant ==
    \A p \in SentField : p.type.k = "variant" => encode_enum_variant(p) \in Seq(Int)
<1> SUFFICES ASSUME NEW p \in SentField, p.type.k = "variant" PROVE encode_enum_variant(p) \in Seq(Int)
    OBVIOUS
<1>1. p.value \in DecodedValues /\ p.type \in SentTypes /\ Unknown \in SentTypes
    BY TypesAssumption DEF SentField, SentTypes
<1>2. p.type.n \in Int
    <2>1. p.type \in Types => p.type.k \in Kinds
        BY TypesAssumption
    <2>2. "variant" \notin Kinds
        BY DEF Kinds
    <2> QED BY <1>1, <2>1, <2>2 DEF SentTypes
<1>3. <<p.type.n>> \in Seq(Int) /\ <<>> \in Seq(Int)
    BY <1>2
<1>4. encode_decoded_value[<<Unknown, p.value>>] \in Seq(Int)
    BY <1>1, EncodedType
<1> DEFINE e == [i \in DOMAIN p.value.items |-> encode_decoded_value[<<Unknown, p.value.items[i]>>]]
<1>5. ASSUME p.value.kind = "array" PROVE Cat(e) \in Seq(Int)
    <2>1. MaxDepth \in 0 .. MaxDepth
        BY TypesAssumption
    <2>2. p.value.items \in Seq(DecodedValues)
        BY <1>1, <1>5, <2>1, NestedIs DEF DecodedValues
    <2>3. PICK n \in Nat : DOMAIN p.value.items = 1 .. n /\ \A i \in 1 .. n : p.value.items[i] \in DecodedValues
        BY <2>2
    <2>4. DOMAIN e = 1 .. n /\ \A i \in 1 .. n : e[i] \in Seq(Int)
        BY <1>1, <2>3, EncodedType
    <2>5. e = [i \in 1 .. n |-> e[i]]
        BY <2>4
    <2> HIDE DEF e
    <2>6. Cat([i \in 1 .. n |-> e[i]]) \in Seq(Int)
        BY <2>4, EncodedList
    <2> QED BY <2>5, <2>6, Zenon
<1> HIDE DEF e
<1>6. \A s, u \in Seq(Int) : s \o u \in Seq(Int)
    BY ConcatProperties
<1> DEFINE payload == CASE p.value.kind = "string" -> <<>>
                        [] p.value.kind = "array" -> Cat(e)
                        [] OTHER -> encode_decoded_value[<<Unknown, p.value>>]
<1>7. payload \in Seq(Int)
    BY <1>3, <1>4, <1>5
<1>8. encode_enum_variant(p) = <<p.type.n>> \o payload
    BY DEF encode_enum_variant, e
<1> HIDE DEF payload
<1> QED BY <1>3, <1>6, <1>7, <1>8

LEMMA EncodedParams ==
    ASSUME NEW params \in Seq(SentField), NEW types \in Seq(Types)
    PROVE  encode_parameters_with_abi(params, types) \in Seq(Int)
<1> DEFINE t(i) == IF i \in DOMAIN types THEN types[i] ELSE params[i].type
           e(i) == IF params[i].type.k = "variant" THEN encode_enum_variant(params[i])
                   ELSE encode_decoded_value[<<t(i), params[i].value>>]
<1>1. PICK n \in Nat : DOMAIN params = 1 .. n /\ \A i \in 1 .. n : params[i] \in SentField
    OBVIOUS
<1>2. ASSUME NEW i \in 1 .. n PROVE e(i) \in Seq(Int)
    <2>1. params[i].value \in DecodedValues /\ params[i].type \in SentTypes /\ Types \subseteq SentTypes
        BY <1>1 DEF SentField, SentTypes
    <2>2. t(i) \in SentTypes
        BY <2>1
    <2> HIDE DEF t
    <2>3. encode_decoded_value[<<t(i), params[i].value>>] \in Seq(Int)
        BY <2>1, <2>2, EncodedType
    <2>4. params[i].type.k = "variant" => encode_enum_variant(params[i]) \in Seq(Int)
        BY <1>1, EncodedVariant
    <2> QED BY <2>3, <2>4
<1> DEFINE f == [i \in 1 .. n |-> e(i)]
<1>3. encode_parameters_with_abi(params, types) = Cat(f)
    BY <1>1 DEF encode_parameters_with_abi
<1> HIDE DEF e
<1>4. (\A i \in 1 .. n : f[i] \in Seq(Int)) /\ f = [i \in 1 .. n |-> f[i]]
    BY <1>2
<1> HIDE DEF f
<1>5. Cat([i \in 1 .. n |-> f[i]]) \in Seq(Int)
    BY <1>4, EncodedList
<1> QED BY <1>3, <1>4, <1>5, Zenon

LEMMA EncodedBasic ==
    ASSUME NEW params \in Seq(SentField), NEW order \in Orders(Len(params))
    PROVE  encode_parameters_basic(params, order) \in Seq(Int)
<1>1. PICK n \in Nat : n = Len(params) /\ DOMAIN params = 1 .. n /\ \A i \in 1 .. n : params[i] \in SentField
    OBVIOUS
<1>2. \A i \in 1 .. n : order[i] \in 1 .. n
    BY <1>1 DEF Orders
<1> DEFINE f == [i \in 1 .. n |-> encode_decoded_value[<<params[order[i]].type, params[order[i]].value>>]]
<1>3. ASSUME NEW i \in 1 .. n PROVE f[i] \in Seq(Int)
    <2>1. params[order[i]] \in SentField
        BY <1>1, <1>2
    <2>2. params[order[i]].type \in SentTypes /\ params[order[i]].value \in DecodedValues
        BY <2>1 DEF SentField
    <2> QED BY <2>2, EncodedType
<1>4. encode_parameters_basic(params, order) = Cat(f)
    BY <1>1 DEF encode_parameters_basic
<1>5. f = [i \in 1 .. n |-> f[i]]
    OBVIOUS
<1> HIDE DEF f
<1>6. Cat([i \in 1 .. n |-> f[i]]) \in Seq(Int)
    BY <1>3, EncodedList
<1> QED BY <1>4, <1>5, <1>6, Zenon

LEMMA EncodedCallType ==
    ASSUME ShownOK, FetchedOK, pc \in SentPcs, NEW k \in 1 .. Len(shown), fetched[k] # <<>>,
           NEW order \in Orders(Len(shown[k].params))
    PROVE  EncodedCall(k, order) \in Seq(Int)
<1>1. shown[k] \in ShownCall
    BY DEF ShownOK
<1>2. shown[k].to \in Int /\ shown[k].params \in Seq(SentField)
    <2>1. shown[k].to \in Felts
        BY <1>1, CallsAssumption DEF ShownCall
    <2> QED BY <1>1, <2>1, FieldAssumption DEF ShownCall, Felts
<1>3. fetched[k][1] \in Seq(Types) \cup {None}
    <2>1. DOMAIN fetched = 1 .. Len(shown)
        BY DEF FetchedOK
    <2> QED BY <2>1 DEF FetchedOK
<1> DEFINE args == IF fetched[k][1] = None THEN encode_parameters_basic(shown[k].params, order)
                   ELSE encode_parameters_with_abi(shown[k].params, fetched[k][1])
<1>4. args \in Seq(Int)
    <2>1. encode_parameters_basic(shown[k].params, order) \in Seq(Int)
        BY <1>2, EncodedBasic
    <2>2. ASSUME fetched[k][1] # None PROVE encode_parameters_with_abi(shown[k].params, fetched[k][1]) \in Seq(Int)
        BY <1>2, <1>3, <2>2, EncodedParams
    <2> QED BY <2>1, <2>2
<1>5. EncodedCall(k, order) = <<shown[k].to, Selector0, Len(args)>> \o args
    BY DEF EncodedCall
<1> HIDE DEF args
<1>6. \A x, y, z \in Int : <<x, y, z>> \in Seq(Int)
    OBVIOUS
<1>7. Len(args) \in Int /\ Selector0 \in Int
    BY <1>4 DEF Selector0
<1>8. <<shown[k].to, Selector0, Len(args)>> \in Seq(Int)
    BY <1>2, <1>6, <1>7
<1> QED BY <1>4, <1>5, <1>8, ConcatProperties

LEMMA ParsedCalldata ==
    \A raw \in Seq(Int) :
        parse_calldata(raw) = None \/ \A i \in DOMAIN parse_calldata(raw) : parse_calldata(raw)[i] \in 0 .. Prime - 1
<1> SUFFICES ASSUME NEW raw \in Seq(Int), parse_calldata(raw) # None
             PROVE  \A i \in DOMAIN parse_calldata(raw) : parse_calldata(raw)[i] \in 0 .. Prime - 1
    OBVIOUS
<1>1. parse_calldata(raw) = [i \in DOMAIN raw |-> raw[i] % Prime]
    BY DEF parse_calldata
<1>2. PICK p \in Nat : p = Prime /\ p > 0
    BY FieldAssumption
<1>3. \A x \in Int : x % p \in 0 .. p - 1
    BY <1>2, Remainder
<1>4. \A i \in DOMAIN raw : raw[i] \in Int
    OBVIOUS
<1> QED BY <1>1, <1>2, <1>3, <1>4

\* The orders in which the parameters of each call are written.
IsOrder(order) == \A k \in DOMAIN shown : order[k] \in Orders(Len(shown[k].params))
EncodedCalls(order) == <<Len(shown)>> \o Cat([k \in DOMAIN shown |-> EncodedCall(k, order[k])])

LEMMA EncodedCallsType ==
    ASSUME ShownOK, FetchedOK, pc \in SentPcs, \A k \in DOMAIN fetched : fetched[k] # <<>>,
           NEW order, IsOrder(order)
    PROVE  EncodedCalls(order) \in Seq(Int)
<1>1. PICK n \in Nat : n = Len(shown) /\ DOMAIN shown = 1 .. n /\ DOMAIN fetched = 1 .. n
    BY DEF ShownOK, FetchedOK
<1> DEFINE f == [k \in 1 .. n |-> EncodedCall(k, order[k])]
<1>2. ASSUME NEW k \in 1 .. n PROVE f[k] \in Seq(Int)
    <2>1. order[k] \in Orders(Len(shown[k].params)) /\ fetched[k] # <<>> /\ k \in 1 .. Len(shown)
        BY <1>1 DEF IsOrder
    <2>2. EncodedCall(k, order[k]) \in Seq(Int)
        BY <2>1, EncodedCallType
    <2> QED BY <2>2
<1>3. EncodedCalls(order) = <<n>> \o Cat(f)
    BY <1>1 DEF EncodedCalls
<1>4. f = [k \in 1 .. n |-> f[k]]
    OBVIOUS
<1> HIDE DEF f
<1>5. Cat([k \in 1 .. n |-> f[k]]) \in Seq(Int)
    BY <1>2, EncodedList
<1>6. Cat(f) \in Seq(Int) /\ <<n>> \in Seq(Int)
    <2>1. Cat(f) \in Seq(Int)
        BY <1>4, <1>5, Zenon
    <2> QED BY <2>1
<1> QED BY <1>3, <1>6, ConcatProperties

LEMMA FeltsAreNumbers ==
    \A s \in Seq(Felts) : s \in Seq(Int)
<1> SUFFICES ASSUME NEW s \in Seq(Felts) PROVE s \in Seq(Int)
    OBVIOUS
<1>1. PICK n \in Nat : n = Len(s) /\ s \in [1 .. n -> Felts]
    OBVIOUS
<1>2. Felts \subseteq Int
    BY FieldAssumption DEF Felts
<1>3. s \in [1 .. n -> Int]
    BY <1>1, <1>2
<1> QED BY <1>3, SeqDef

\* What is simulated is felts.
LEMMA SentStep ==
    ASSUME TxOK, ShownOK, FetchedOK, SentOK, [Next]_vars
    PROVE  SentOK'
<1>1. CASE UNCHANGED sent
    BY <1>1 DEF SentOK
<1>2. CASE Simulate
    <2>1. sent' = parse_calldata(calldata)
        BY <1>2 DEF Simulate
    <2>2. calldata \in Seq(Felts)
        BY ParsedIs DEF TxOK
    <2>3. calldata \in Seq(Int)
        <3> QED BY <2>2, FeltsAreNumbers
    <2> QED BY <2>1, <2>3, ParsedCalldata DEF SentOK
<1>3. CASE Encode
    <2>1. PICK order : IsOrder(order) /\ sent' = parse_calldata(EncodedCalls(order))
        BY <1>3 DEF Encode, IsOrder, EncodedCalls
    <2>2. EncodedCalls(order) \in Seq(Int)
        BY <1>3, <2>1, EncodedCallsType DEF Encode, SentPcs
    <2> QED BY <2>1, <2>2, ParsedCalldata DEF SentOK
<1>4. CASE UNCHANGED vars
    BY <1>1, <1>4 DEF vars
<1>5. ASSUME NEW c \in Contracts, Upgrade(c) \/ Lapse(c) PROVE SentOK'
    BY <1>1, <1>5 DEF Upgrade, Lapse
<1>6. CASE DecodeCall \/ DecodeWithoutAbi \/ Show \/ SendBack
    BY <1>1, <1>6 DEF DecodeCall, DecodeWithoutAbi, Show, SendBack
<1>7. ASSUME NEW k \in DOMAIN fetched, FetchAbi(k) PROVE SentOK'
    BY <1>1, <1>7 DEF FetchAbi
<1> QED BY <1>2, <1>3, <1>4, <1>5, <1>6, <1>7 DEF Next

\* What is known of every reachable state of the decoding and the encoding of calldata:
\* shown, fetched and sent are what the calls of the transaction make them.
THEOREM Inductive == Spec => []IInv
<1>1. Init => IInv
    BY InitIInv
<1>2. IInv /\ [Next]_vars => IInv'
    <2> SUFFICES ASSUME IInv, [Next]_vars PROVE IInv'
        OBVIOUS
    <2>1. TxOK /\ ChainOK /\ ShownOK /\ WrittenOK /\ RefusedForAReason /\ FetchedOK /\ SentOK
        BY DEF IInv
    <2>2. TxOK' /\ ChainOK' /\ RefusedForAReason'
        BY <2>1, TxSame, ChainStep, RefusedStep
    <2>3. ShownOK' /\ WrittenOK'
        BY <2>1, ShownStep
    <2>4. FetchedOK' /\ SentOK'
        BY <2>1, FetchedStep, SentStep
    <2> QED BY <2>2, <2>3, <2>4 DEF IInv
<1> QED BY <1>1, <1>2, PTL DEF Spec

\* Whatever the calldata was written for, cut or too long, and however contracts are
\* upgraded and the cache lapses: what is shown was written so, and what is refused had to
\* be (DecodedAsWritten).
THEOREM ShownIsWritten == Spec => []DecodedAsWritten
<1>1. IInv => DecodedAsWritten
    <2> SUFFICES ASSUME IInv PROVE DecodedAsWritten
        OBVIOUS
    <2>1. TxOK /\ ChainOK /\ ShownOK /\ WrittenOK /\ RefusedForAReason /\ FetchedOK /\ SentOK
        BY DEF IInv
    <2>2. PICK n, m \in Nat : n = Len(tx) /\ m = Len(Parsed) /\ m = n - (IF Cut THEN 1 ELSE 0)
                              /\ \A k \in 1 .. m : k \in 1 .. n
        BY <2>1, TxParsed
    <2>3. PICK l \in Nat : l = Len(shown) /\ DOMAIN shown = 1 .. l /\ l <= m /\ (pc = "shown" => l = m)
        BY <2>1, <2>2 DEF ShownOK
    <2>4. m <= n
        <3>1. (IF Cut THEN 1 ELSE 0) \in {0, 1}
            OBVIOUS
        <3> QED BY <2>2, <3>1
    <2>5. Len(fetched) \in {0, Len(shown)}
        BY <2>1 DEF FetchedOK
    <2>6. TypeOK
        BY <2>1, <2>2, <2>3, <2>4, <2>5 DEF TypeOK, ChainOK, ShownOK, SentOK
    <2>7. pc = "shown" => Len(shown) = Len(tx) - (IF Cut THEN 1 ELSE 0)
        BY <2>2, <2>3
    <2>8. ASSUME pc \in {"decode", "shown"}, NEW k \in DOMAIN shown
          PROVE  /\ shown[k].to = tx[k].to
                 /\ upgrades = 0 =>
                     /\ Parsed[k].data = ArgsDatas(tx)[k]
                     /\ shown[k] = [to |-> tx[k].to, types |-> tx[k].types, params |-> Displayed(tx[k])]
        BY <2>1, <2>3, <2>8 DEF ShownOK, WrittenOK, AsShown, SentPcs
    <2>9. ShownAsWritten
        BY <2>7, <2>8 DEF ShownAsWritten
    <2> QED BY <2>1, <2>6, <2>9 DEF DecodedAsWritten
<1> QED BY <1>1, Inductive, PTL

-----------------------------------------------------------------------------
(* What is shown is written back *)

\* The numbers of raw, which may be negative, stand for the felts of s.
Encodes(raw, s) ==
    /\ raw \in Seq(Int) /\ s \in Seq(Felts) /\ Len(raw) = Len(s)
    /\ \A i \in 1 .. Len(s) : raw[i] < Prime /\ raw[i] % Prime = s[i]

LEMMA EncodesParsed ==
    \A raw, s : Encodes(raw, s) => parse_calldata(raw) = s
<1> SUFFICES ASSUME NEW raw, NEW s, Encodes(raw, s) PROVE parse_calldata(raw) = s
    OBVIOUS
<1>1. PICK n \in Nat : n = Len(s) /\ DOMAIN raw = 1 .. n /\ DOMAIN s = 1 .. n
    BY DEF Encodes
<1>2. \A i \in 1 .. n : raw[i] \in Int /\ raw[i] < Prime /\ raw[i] % Prime = s[i]
    BY <1>1 DEF Encodes
<1>3. PICK p \in Nat : p = Prime
    BY FieldAssumption
<1>4. ~ \E i \in DOMAIN raw : raw[i] >= Prime
    <2>1. \A i \in 1 .. n : ~ (raw[i] >= p)
        BY <1>2, <1>3
    <2> QED BY <1>1, <1>3, <2>1
<1>5. parse_calldata(raw) = [i \in 1 .. n |-> raw[i] % Prime]
    BY <1>1, <1>4 DEF parse_calldata
<1>6. [i \in 1 .. n |-> raw[i] % Prime] = [i \in 1 .. n |-> s[i]]
    BY <1>2
<1>7. s = [i \in 1 .. n |-> s[i]]
    <2>1. s \in Seq(Felts)
        BY DEF Encodes
    <2> QED BY <1>1, <2>1
<1> QED BY <1>5, <1>6, <1>7

LEMMA EncodesEmpty == Encodes(<<>>, <<>>)
BY DEF Encodes

LEMMA EncodesNumber ==
    \A x \in Int : x < Prime => Encodes(<<x>>, <<x % Prime>>)
<1> SUFFICES ASSUME NEW x \in Int, x < Prime PROVE Encodes(<<x>>, <<x % Prime>>)
    OBVIOUS
<1>1. PICK p \in Nat : p = Prime /\ p > 0
    BY FieldAssumption
<1>2. PICK y \in Felts : y = x % Prime
    BY <1>1, Remainder DEF Felts
<1>3. <<x>> \in Seq(Int) /\ Len(<<x>>) = 1 /\ <<x>>[1] = x
    OBVIOUS
<1>4. <<y>> \in Seq(Felts) /\ Len(<<y>>) = 1 /\ <<y>>[1] = y
    OBVIOUS
<1>5. \A i \in 1 .. 1 : i = 1
    OBVIOUS
<1>6. Encodes(<<x>>, <<y>>)
    BY <1>2, <1>3, <1>4, <1>5 DEF Encodes
<1> QED BY <1>2, <1>6

LEMMA FeltIs ==
    \A x \in Felts : x \in Int /\ x < Prime /\ x % Prime = x /\ Encodes(<<x>>, <<x>>)
<1> SUFFICES ASSUME NEW x \in Felts PROVE x \in Int /\ x < Prime /\ x % Prime = x /\ Encodes(<<x>>, <<x>>)
    OBVIOUS
<1>1. PICK p \in Nat : p = Prime /\ p > 0
    BY FieldAssumption
<1>2. x \in 0 .. p - 1 /\ x \in Int /\ x < p
    BY <1>1 DEF Felts
<1>3. x % p = x
    BY <1>1, <1>2, Remainder
<1> QED BY <1>1, <1>2, <1>3, EncodesNumber

\* Encodings are put together as the felts they stand for.
LEMMA EncodesConcat ==
    \A a, b, s, t : Encodes(a, s) /\ Encodes(b, t) => Encodes(a \o b, s \o t)
<1> SUFFICES ASSUME NEW a, NEW b, NEW s, NEW t, Encodes(a, s), Encodes(b, t) PROVE Encodes(a \o b, s \o t)
    OBVIOUS
<1>1. a \in Seq(Int) /\ b \in Seq(Int) /\ s \in Seq(Felts) /\ t \in Seq(Felts)
    BY DEF Encodes
<1>2. PICK n \in Nat, m \in Nat : n = Len(s) /\ n = Len(a) /\ m = Len(t) /\ m = Len(b)
    BY <1>1 DEF Encodes
<1>3. /\ a \o b \in Seq(Int) /\ Len(a \o b) = n + m
      /\ \A i \in 1 .. n + m : (a \o b)[i] = IF i <= n THEN a[i] ELSE b[i - n]
    BY <1>1, <1>2, ConcatProperties
<1>4. /\ s \o t \in Seq(Felts) /\ Len(s \o t) = n + m
      /\ \A i \in 1 .. n + m : (s \o t)[i] = IF i <= n THEN s[i] ELSE t[i - n]
    <2>1. /\ s \o t \in Seq(Felts) /\ Len(s \o t) = Len(s) + Len(t)
          /\ \A i \in 1 .. Len(s) + Len(t) : (s \o t)[i] = IF i <= Len(s) THEN s[i] ELSE t[i - Len(s)]
        BY <1>1, ConcatProperties
    <2> QED BY <1>2, <2>1, Zenon
<1>5. \A i \in 1 .. n : a[i] < Prime /\ a[i] % Prime = s[i]
    BY <1>2 DEF Encodes
<1>6. \A i \in 1 .. m : b[i] < Prime /\ b[i] % Prime = t[i]
    BY <1>2 DEF Encodes
<1>7. ASSUME NEW i \in 1 .. n + m PROVE (a \o b)[i] < Prime /\ (a \o b)[i] % Prime = (s \o t)[i]
    <2>1. CASE i <= n
        <3>1. i \in 1 .. n /\ (a \o b)[i] = a[i] /\ (s \o t)[i] = s[i]
            BY <1>3, <1>4, <2>1
        <3> QED BY <1>5, <3>1
    <2>2. CASE i > n
        <3>1. i - n \in 1 .. m /\ (a \o b)[i] = b[i - n] /\ (s \o t)[i] = t[i - n]
            BY <1>3, <1>4, <2>2
        <3>2. PICK j \in 1 .. m : j = i - n
            BY <3>1
        <3> QED BY <1>6, <3>1, <3>2
    <2>3. i <= n \/ i > n
        OBVIOUS
    <2> QED BY <2>1, <2>2, <2>3, Zenon
<1> QED BY <1>2, <1>3, <1>4, <1>7 DEF Encodes

LEMMA EncodesCat ==
    ASSUME NEW n \in Nat, NEW fs, NEW ss, fs = [i \in 1 .. n |-> fs[i]], ss = [i \in 1 .. n |-> ss[i]],
           \A i \in 1 .. n : Encodes(fs[i], ss[i])
    PROVE  Encodes(Cat(fs), Cat(ss))
<1>1. fs \in Seq(Seq(Int)) /\ Len(fs) = n
    <2>1. fs \in [1 .. n -> Seq(Int)]
        BY DEF Encodes
    <2>2. fs \in Seq(Seq(Int))
        BY <2>1, SeqDef
    <2> QED BY <2>1, <2>2
<1>2. ss \in Seq(Seq(Felts)) /\ Len(ss) = n
    <2>1. ss \in [1 .. n -> Seq(Felts)]
        BY DEF Encodes
    <2>2. ss \in Seq(Seq(Felts))
        BY <2>1, SeqDef
    <2> QED BY <2>1, <2>2
<1>3. PICK f \in [0 .. n -> Seq(Int)] : IsTails(f, fs)
    BY <1>1, CatTails
<1>4. PICK g \in [0 .. n -> Seq(Felts)] : IsTails(g, ss)
    BY <1>2, CatTails
<1> DEFINE P == {m \in Nat : m <= n => Encodes(f[n - m], g[n - m])}
<1>5. 0 \in P
    <2>1. f[n] = <<>> /\ g[n] = <<>> /\ n - 0 = n
        BY <1>1, <1>2, <1>3, <1>4 DEF IsTails
    <2> QED BY <2>1, EncodesEmpty
<1>6. ASSUME NEW m \in P PROVE m + 1 \in P
    <2> SUFFICES ASSUME m + 1 <= n PROVE Encodes(f[n - (m + 1)], g[n - (m + 1)])
        OBVIOUS
    <2>1. PICK k \in 1 .. n : k = n - m /\ k - 1 = n - (m + 1) /\ m <= n
        OBVIOUS
    <2>2. Encodes(f[k], g[k])
        BY <2>1
    <2>3. f[k - 1] = fs[k] \o f[k] /\ g[k - 1] = ss[k] \o g[k]
        BY <1>1, <1>2, <1>3, <1>4 DEF IsTails
    <2>4. Encodes(fs[k] \o f[k], ss[k] \o g[k])
        BY <2>2, EncodesConcat, Zenon
    <2> QED BY <2>1, <2>3, <2>4
<1>7. n \in P
    <2> HIDE DEF P
    <2> QED BY <1>5, <1>6, CountUp
<1>8. Encodes(f[0], g[0])
    <2>1. n <= n /\ n - n = 0
        OBVIOUS
    <2> QED BY <1>7, <2>1
<1> QED BY <1>3, <1>4, <1>8 DEF IsTails

\* How the encoder writes a number.
LEMMA EncodesNumbers ==
    \A u \in SentTypes, kind \in {"none", "single", "bool", "bigint", "biguint"}, x \in Int :
        V(kind, x, <<>>) \in DecodedValues =>
            encode_decoded_value[<<u, V(kind, x, <<>>)>>]
            = CASE kind = "none" -> <<>>
                [] kind = "biguint" -> split_into_limbs(u, x)
                [] OTHER -> <<x>>
<1> SUFFICES ASSUME NEW u \in SentTypes, NEW kind \in {"none", "single", "bool", "bigint", "biguint"}, NEW x \in Int,
                    V(kind, x, <<>>) \in DecodedValues
             PROVE  encode_decoded_value[<<u, V(kind, x, <<>>)>>]
                    = CASE kind = "none" -> <<>>
                        [] kind = "biguint" -> split_into_limbs(u, x)
                        [] OTHER -> <<x>>
    OBVIOUS
<1> DEFINE d == V(kind, x, <<>>)
<1>1. d.kind = kind /\ d.num = x /\ d.items = <<>> /\ d \in DecodedValues
    BY DEF V
<1> HIDE DEF d
<1>2. PICK items : encode_decoded_value[<<u, d>>] = EncodeOf(u, d, items)
    BY <1>1, EncodesAs
<1>3. EncodeOf(u, d, items) = CASE kind = "none" -> <<>>
                                [] kind = "biguint" -> split_into_limbs(u, x)
                                [] OTHER -> <<x>>
    BY <1>1 DEF EncodeOf
<1> QED BY <1>2, <1>3 DEF d

\* The types by which a value is written back as it was shown: its own, or any if they
\* do not matter for it.
As(u, t) ==
    \/ u = t
    \/ t.k = "struct"
    \/ t.k \in {"felt", "uint", "int", "bool", "unit"} /\ u.k # "u256"
Restores(t, v) ==
    Display[t][v] \in DecodedValues => \A u \in SentTypes : As(u, t) =>
        Encodes(encode_decoded_value[<<u, Display[t][v]>>], Serialize[t][v])

\* Numbers are written back as they were: the limbs of a u256, and the sign of an int.
LEMMA LeafRestores ==
    ASSUME NEW t \in Types, t.k \in {"felt", "uint", "int", "bool", "u256"}, NEW v \in ValuesOf[t]
    PROVE  Restores(t, v)
<1> SUFFICES ASSUME Display[t][v] \in DecodedValues, NEW u \in SentTypes, As(u, t)
             PROVE  Encodes(encode_decoded_value[<<u, Display[t][v]>>], Serialize[t][v])
    BY DEF Restores
<1> DEFINE x == v.leaf
<1>1. CASE t.k \in {"felt", "bool"}
    <2>1. x \in Felts /\ Serialize[t][v] = <<x>>
        BY <1>1, LeafIs, SerializedLeaf
    <2>2. PICK kind \in {"single", "bool"} : Display[t][v] = V(kind, x, <<>>)
        BY <1>1, DisplayedLeaf
    <2> HIDE DEF x
    <2>3. Encodes(<<x>>, <<x>>) /\ x \in Int
        BY <2>1, FeltIs
    <2>4. encode_decoded_value[<<u, V(kind, x, <<>>)>>] = <<x>>
        BY <2>2, <2>3, EncodesNumbers
    <2> QED BY <2>1, <2>2, <2>3, <2>4, Zenon
<1>2. CASE t.k = "uint"
    <2>1. x \in Felts /\ Serialize[t][v] = <<x>>
        BY <1>2, LeafIs, SerializedLeaf
    <2>2. Display[t][v] = V("biguint", x, <<>>)
        BY <1>2, DisplayedLeaf
    <2> HIDE DEF x
    <2>3. Encodes(<<x>>, <<x>>) /\ x \in Int
        BY <2>1, FeltIs
    <2>4. u.k # "u256"
        BY <1>2 DEF As
    <2>5. encode_decoded_value[<<u, V("biguint", x, <<>>)>>] = <<x>>
        BY <2>2, <2>3, <2>4, EncodesNumbers DEF split_into_limbs
    <2> QED BY <2>1, <2>2, <2>3, <2>5, Zenon
<1>3. CASE t.k = "int"
    <2>1. PICK p \in Nat : p = Prime /\ p > 0
        BY FieldAssumption
    <2>2. PICK w \in Nat : w = Word /\ w < p
        BY <2>1, FieldAssumption
    <2>3. x \in -w .. w - 1 /\ Serialize[t][v] = <<x % p>>
        BY <1>3, <2>1, <2>2, LeafIs, SerializedLeaf
    <2>4. Display[t][v] = V("bigint", IF x < 0 THEN x ELSE x - p, <<>>)
        BY <1>3, <2>1, DisplayedLeaf
    <2> HIDE DEF x
    <2>5. PICK y \in Int : y = (IF x < 0 THEN x ELSE x - p) /\ y < p /\ y % p = x % p
        <3>1. CASE x < 0
            <4>1. x \in Int /\ x < p
                BY <2>2, <2>3
            <4> QED BY <3>1, <4>1
        <3>2. CASE ~(x < 0)
            <4>1. x \in 0 .. p - 1 /\ x - p \in Int /\ x - p < p
                BY <2>2, <2>3, <3>2
            <4>2. (x - p) % p = x
                BY <2>1, <4>1, Signed
            <4>3. x % p = x
                BY <2>1, <4>1, Remainder
            <4> QED BY <3>2, <4>1, <4>2, <4>3
        <3> QED BY <3>1, <3>2
    <2>6. Encodes(<<y>>, <<y % p>>)
        BY <2>1, <2>5, EncodesNumber
    <2>7. encode_decoded_value[<<u, V("bigint", y, <<>>)>>] = <<y>>
        BY <2>4, <2>5, EncodesNumbers
    <2> QED BY <2>3, <2>4, <2>5, <2>6, <2>7, Zenon
<1>4. CASE t.k = "u256"
    <2>1. PICK w \in Nat : w = Word /\ w > 0 /\ \A z \in 0 .. w - 1 : z \in Felts
        BY FieldAssumption DEF Felts
    <2>2. x \in 0 .. w * w - 1 /\ Serialize[t][v] = <<x % w, x \div w>>
        BY <1>4, <2>1, LeafIs, SerializedLeaf
    <2>3. Display[t][v] = V("biguint", x, <<>>) /\ u.k = "u256"
        BY <1>4, DisplayedLeaf DEF As
    <2> HIDE DEF x
    <2>4. PICK lo \in Felts, hi \in Felts : lo = x % w /\ hi = x \div w /\ x \in Int
        <3>1. x \in Int
            BY <2>2
        <3>2. x % w \in 0 .. w - 1 /\ x \div w \in 0 .. w - 1
            BY <2>1, <2>2, Limbs, Zenon
        <3> QED BY <2>1, <3>1, <3>2, Zenon
    <2>5. encode_decoded_value[<<u, V("biguint", x, <<>>)>>] = <<lo, hi>>
        BY <2>1, <2>2, <2>3, <2>4, EncodesNumbers DEF split_into_limbs
    <2>6. Encodes(<<lo>> \o <<hi>>, <<lo>> \o <<hi>>)
        BY FeltIs, EncodesConcat
    <2>7. <<lo>> \o <<hi>> = <<lo, hi>>
        BY PairIs
    <2> QED BY <2>2, <2>3, <2>4, <2>5, <2>6, <2>7
<1> QED BY <1>1, <1>2, <1>3, <1>4

\* A unit is written as nothing.
LEMMA UnitWritten ==
    ASSUME NEW t \in Types, t.k = "unit", NEW v \in ValuesOf[t]
    PROVE  Serialize[t][v] = <<>>
<1>1. t.of = <<>> /\ Members(t) = <<>>
    BY TypesAssumption DEF IsType, Members, MembersOf
<1>2. Len(v.list) = 0
    <2>1. Len(ItemTypes(t, v)) = Len(v.list)
        BY ItemsAre DEF Listed
    <2> QED BY <1>1, <2>1 DEF ItemTypes
<1>3. Serialize[t][v] = Cat(Pieces(t, v)) /\ Pieces(t, v) \in Seq(Seq(Felts)) /\ Len(Pieces(t, v)) = 0
    BY <1>2, SerializedList, PiecesType DEF Listed
<1>4. Pieces(t, v) = <<>>
    BY <1>3
<1> QED BY <1>3, <1>4, CatType

LEMMA UnitRestores ==
    ASSUME NEW t \in Types, t.k = "unit", NEW v \in ValuesOf[t]
    PROVE  Restores(t, v)
<1> SUFFICES ASSUME Display[t][v] \in DecodedValues, NEW u \in SentTypes
             PROVE  Encodes(encode_decoded_value[<<u, Display[t][v]>>], Serialize[t][v])
    BY DEF Restores
<1>1. Display[t][v] = V("none", 0, <<>>)
    <2> DEFINE parts == [i \in DOMAIN t.of |-> Display[t.of[i]]]
    <2>1. Display[t] = DisplayOf(t, parts)
        BY DisplayDef
    <2> HIDE DEF parts
    <2> QED BY <2>1 DEF DisplayOf
<1>2. encode_decoded_value[<<u, V("none", 0, <<>>)>>] = <<>>
    <2> DEFINE none == V("none", 0, <<>>)
    <2>1. none.kind = "none" /\ none \in DecodedValues
        BY <1>1 DEF V
    <2> HIDE DEF none
    <2>2. PICK items : encode_decoded_value[<<u, none>>] = EncodeOf(u, none, items)
        BY <2>1, EncodesAs
    <2>3. EncodeOf(u, none, items) = <<>>
        BY <2>1 DEF EncodeOf
    <2> QED BY <2>2, <2>3 DEF none
<1>3. Serialize[t][v] = <<>>
    BY UnitWritten
<1> QED BY <1>1, <1>2, <1>3, EncodesEmpty

\* The parts of a value are its items, and are written back by their own types.
LEMMA ItemsRestore ==
    ASSUME NEW t \in Types, t.k \in {"array", "tuple", "struct"}, NEW v \in ValuesOf[t],
           Display[t][v] \in DecodedValues, NEW u \in SentTypes, As(u, t),
           \A i \in DOMAIN t.of : \A x \in ValuesOf[t.of[i]] : Restores(t.of[i], x)
    PROVE  LET d == Display[t][v]
               items == [i \in DOMAIN d.items |-> encode_decoded_value[<<ItemType(u, d, i), Item(d, i)>>]]
           IN Encodes(Cat(items), Cat(Pieces(t, v))) /\ Len(d.items) = Len(v.list)
<1> DEFINE d == Display[t][v]
           types == ItemTypes(t, v)
           items == [i \in DOMAIN d.items |-> encode_decoded_value[<<ItemType(u, d, i), Item(d, i)>>]]
<1>1. PICK n \in Nat : /\ n = Len(v.list) /\ DOMAIN types = 1 .. n
                      /\ \A i \in 1 .. n : /\ \E j \in DOMAIN t.of : types[i] = t.of[j]
                                           /\ v.list[i] \in ValuesOf[types[i]]
    BY ItemsAre DEF Listed
<1>2. d = IF t.k = "struct" THEN V("struct", 0, ShownFields(t, v)) ELSE V("array", 0, ShownItems(t, v))
    BY DisplayedList DEF Listed
<1>3. /\ d.kind = IF t.k = "struct" THEN "struct" ELSE "array"
      /\ DOMAIN d.items = 1 .. n
      /\ \A i \in 1 .. n : Item(d, i) = Display[types[i]][v.list[i]]
      /\ t.k = "struct" => \A i \in 1 .. n : d.items[i].type = types[i]
    <2>1. CASE t.k = "struct"
        <3>1. d.kind = "struct" /\ d.items = ShownFields(t, v)
            BY <1>2, <2>1 DEF V
        <3>2. DOMAIN d.items = 1 .. n
            BY <1>1, <3>1 DEF ShownFields
        <3>3. \A i \in 1 .. n : /\ d.items[i].type = types[i]
                                 /\ d.items[i].value = Display[types[i]][v.list[i]]
            BY <1>1, <3>1 DEF ShownFields, Decoded
        <3> QED BY <2>1, <3>1, <3>2, <3>3 DEF Item
    <2>2. CASE t.k # "struct"
        <3>1. d.kind = "array" /\ d.items = ShownItems(t, v)
            BY <1>2, <2>2 DEF V
        <3>2. DOMAIN d.items = 1 .. n
            BY <1>1, <3>1 DEF ShownItems
        <3>3. \A i \in 1 .. n : d.items[i] = Display[types[i]][v.list[i]]
            BY <1>1, <3>1 DEF ShownItems
        <3> QED BY <2>2, <3>1, <3>2, <3>3 DEF Item
    <2> QED BY <2>1, <2>2
<1>8. MaxDepth \in 0 .. MaxDepth /\ d \in NestedIn[MaxDepth]
    BY TypesAssumption DEF DecodedValues
<1>9. Len(d.items) = n
    <2>1. d.items \in Seq(Field(MaxDepth)) \/ d.items \in Seq(NestedIn[MaxDepth])
        <3> HIDE DEF d
        <3>1. d.kind \in {"struct", "array"}
            BY <1>3
        <3> QED BY <1>8, <3>1, NestedIs
    <2>2. PICK l \in Nat : l = Len(d.items) /\ DOMAIN d.items = 1 .. l
        BY <2>1
    <2> HIDE DEF d
    <2>3. 1 .. l = 1 .. n
        BY <1>3, <2>2
    <2>4. l = n
        <3>1. (l > 0 => l \in 1 .. n) /\ (n > 0 => n \in 1 .. l)
            BY <2>3
        <3> QED BY <3>1
    <2> QED BY <2>2, <2>4
<1>4. ASSUME NEW i \in 1 .. n PROVE ItemType(u, d, i) = types[i] /\ types[i] \in SentTypes
    <2>1. types[i] \in SentTypes
        <3>1. types \in Seq(Types)
            BY ItemsAre DEF Listed
        <3> QED BY <1>1, <3>1 DEF SentTypes
    <2>2. CASE t.k = "struct"
        BY <1>3, <2>1, <2>2 DEF ItemType
    <2>3. CASE t.k = "array"
        <3>1. types[i] = t.of[1]
            BY <1>1, <2>3 DEF ItemTypes, Copies
        <3>2. u = t /\ d.kind = "array"
            BY <1>3, <2>3 DEF As
        <3> HIDE DEF types, d
        <3> QED BY <2>1, <2>3, <3>1, <3>2 DEF ItemType
    <2>4. CASE t.k = "tuple"
        <3>1. types = t.of
            BY <2>4 DEF ItemTypes, Members, MembersOf
        <3>2. u = t /\ d.kind = "array"
            BY <1>3, <2>4 DEF As
        <3>3. i \in DOMAIN t.of
            BY <1>1, <3>1
        <3> HIDE DEF types, d
        <3> QED BY <2>1, <2>4, <3>1, <3>2, <3>3 DEF ItemType
    <2> QED BY <2>2, <2>3, <2>4
<1>5. ASSUME NEW i \in 1 .. n PROVE Item(d, i) \in DecodedValues
    <2> HIDE DEF d
    <2>1. PICK m : m = MaxDepth /\ m \in 0 .. m /\ m \in 0 .. MaxDepth
        BY <1>8
    <2>2. m \in 1 .. m /\ Item(d, i) \in NestedIn[m - 1]
        BY <1>3, <1>8, <2>1, NestedIs
    <2>3. NestedIn[m - 1] \subseteq NestedIn[m]
        <3>1. m - 1 \in 0 .. m
            BY <2>2
        <3> QED BY <2>1, <3>1, NestedGrows
    <2> QED BY <2>1, <2>2, <2>3 DEF DecodedValues
<1>6. ASSUME NEW i \in 1 .. n
      PROVE  Encodes(encode_decoded_value[<<types[i], Display[types[i]][v.list[i]]>>], Serialize[types[i]][v.list[i]])
    <2>1. PICK j \in DOMAIN t.of : types[i] = t.of[j]
        BY <1>1
    <2>2. Restores(types[i], v.list[i])
        BY <1>1, <2>1
    <2>3. Display[types[i]][v.list[i]] \in DecodedValues /\ types[i] \in SentTypes
        BY <1>3, <1>4, <1>5
    <2> HIDE DEF types
    <2> QED BY <2>2, <2>3 DEF Restores, As
<1>7. Encodes(Cat(items), Cat(Pieces(t, v)))
    <2>1. /\ items = [i \in 1 .. n |-> items[i]]
          /\ \A i \in 1 .. n : items[i] = encode_decoded_value[<<types[i], Display[types[i]][v.list[i]]>>]
        <3> HIDE DEF d, types
        <3> QED BY <1>3, <1>4
    <2>2. /\ Pieces(t, v) = [i \in 1 .. n |-> Pieces(t, v)[i]]
          /\ \A i \in 1 .. n : Pieces(t, v)[i] = Serialize[types[i]][v.list[i]]
        BY <1>1 DEF Pieces
    <2> HIDE DEF items, types, d
    <2>3. \A i \in 1 .. n : Encodes(items[i], Pieces(t, v)[i])
        BY <1>6, <2>1, <2>2
    <2> QED BY <2>1, <2>2, <2>3, EncodesCat
<1> QED BY <1>1, <1>7, <1>9

\* A list is written back as it was if its parts are, an array with its length.
LEMMA ListRestores ==
    ASSUME NEW t \in Types, t.k \in {"array", "tuple", "struct"}, NEW v \in ValuesOf[t],
           \A i \in DOMAIN t.of : \A x \in ValuesOf[t.of[i]] : Restores(t.of[i], x)
    PROVE  Restores(t, v)
<1> SUFFICES ASSUME Display[t][v] \in DecodedValues, NEW u \in SentTypes, As(u, t)
             PROVE  Encodes(encode_decoded_value[<<u, Display[t][v]>>], Serialize[t][v])
    BY DEF Restores
<1> DEFINE d == Display[t][v]
           items == [i \in DOMAIN d.items |-> encode_decoded_value[<<ItemType(u, d, i), Item(d, i)>>]]
<1>1. Encodes(Cat(items), Cat(Pieces(t, v))) /\ Len(d.items) = Len(v.list)
    BY ItemsRestore
<1>2. encode_decoded_value[<<u, d>>] = EncodeOf(u, d, items)
    <2>1. d \in DecodedValues
        OBVIOUS
    <2> HIDE DEF d
    <2> QED BY <2>1, EncodesAs
<1>3. d.kind = IF t.k = "struct" THEN "struct" ELSE "array"
    <2>1. d = IF t.k = "struct" THEN V("struct", 0, ShownFields(t, v)) ELSE V("array", 0, ShownItems(t, v))
        BY DisplayedList DEF Listed
    <2> HIDE DEF d
    <2> QED BY <2>1 DEF V
<1>4. Serialize[t][v] = IF t.k = "array" THEN <<Len(v.list)>> \o Cat(Pieces(t, v)) ELSE Cat(Pieces(t, v))
    BY SerializedList DEF Listed
<1>5. Cat(items) \in Seq(Int)
    BY <1>1 DEF Encodes
<1>6. ASSUME t.k = "array" PROVE Encodes(<<Len(v.list)>>, <<Len(v.list)>>)
    <2>1. Len(v.list) \in Nat /\ Len(v.list) < Prime
        <3>1. Len(v.list) \in Nat /\ Len(v.list) <= MaxArray
            BY <1>6, ItemsAre DEF Listed
        <3> QED BY <3>1, FieldAssumption
    <2>2. PICK p \in Nat : p = Prime
        BY FieldAssumption
    <2>3. Len(v.list) \in Felts
        BY <2>1, <2>2 DEF Felts
    <2> QED BY <2>3, FeltIs
<1> HIDE DEF items, d
<1>7. CASE t.k = "struct"
    <2>1. EncodeOf(u, d, items) = Cat(items)
        BY <1>3, <1>7 DEF EncodeOf
    <2> QED BY <1>1, <1>2, <1>4, <1>7, <2>1 DEF d
<1>8. CASE t.k = "tuple"
    <2>1. u.k = "tuple" /\ d.kind = "array"
        BY <1>3, <1>8 DEF As
    <2>2. EncodeOf(u, d, items) = <<>> \o Cat(items)
        BY <2>1 DEF EncodeOf
    <2>3. <<>> \o Cat(items) = Cat(items)
        BY <1>5
    <2> QED BY <1>1, <1>2, <1>4, <1>8, <2>2, <2>3 DEF d
<1>9. CASE t.k = "array"
    <2>1. u.k = "array" /\ d.kind = "array"
        BY <1>3, <1>9 DEF As
    <2>2. EncodeOf(u, d, items) = <<Len(d.items)>> \o Cat(items)
        BY <2>1 DEF EncodeOf
    <2>3. Encodes(<<Len(v.list)>> \o Cat(items), <<Len(v.list)>> \o Cat(Pieces(t, v)))
        BY <1>1, <1>6, <1>9, EncodesConcat
    <2> QED BY <1>1, <1>2, <1>4, <1>9, <2>2, <2>3 DEF d
<1> QED BY <1>7, <1>8, <1>9

\* Values with no fixed array and no enum in them are written back as they were.
LEMMA PlainRestores ==
    \A t \in Types : IsPlain[t] => \A v \in ValuesOf[t] : Restores(t, v)
<1> DEFINE P == {t \in Types : IsPlain[t] => \A v \in ValuesOf[t] : Restores(t, v)}
<1>1. ASSUME NEW t \in Types, \A i \in DOMAIN t.of : t.of[i] \in P PROVE t \in P
    <2> SUFFICES ASSUME IsPlain[t], NEW v \in ValuesOf[t] PROVE Restores(t, v)
        OBVIOUS
    <2>1. IsPlain[t] = PlainOf(t, [i \in DOMAIN t.of |-> IsPlain[t.of[i]]])
        BY IsPlainDef
    <2>2. t.k \notin {"fixed", "enum"} /\ \A i \in DOMAIN t.of : IsPlain[t.of[i]]
        BY <2>1 DEF PlainOf
    <2>3. \A i \in DOMAIN t.of : \A x \in ValuesOf[t.of[i]] : Restores(t.of[i], x)
        BY <1>1, <2>2
    <2>4. t.k \in Kinds /\ t.k # "unknown"
        BY TypeIs, LeafIs
    <2>5. t.k \in {"felt", "uint", "int", "bool", "u256"} \/ t.k = "unit" \/ t.k \in {"array", "tuple", "struct"}
        BY <2>2, <2>4 DEF Kinds
    <2> QED BY <2>3, <2>5, LeafRestores, UnitRestores, ListRestores
<1>2. Types \subseteq P
    <2> HIDE DEF P
    <2> QED BY <1>1, TypeInduction
<1> QED BY <1>2

-----------------------------------------------------------------------------
(* The parameters of a call *)

LEMMA DisplayKind ==
    ASSUME NEW t \in Types, NEW v \in ValuesOf[t]
    PROVE  /\ Display[t][v].kind = "enum" <=> t.k = "enum"
           /\ IsSmall(t) /\ t.k # "unit" => Display[t][v].kind \in {"single", "bool", "biguint", "bigint", "struct"}
<1>1. t.k \in Kinds /\ t.k # "unknown"
    BY TypeIs, LeafIs
<1>2. CASE t.k \in {"felt", "bool", "uint", "u256", "int"}
    <2>1. PICK kind \in {"single", "bool", "biguint", "bigint"} : \E x : Display[t][v] = V(kind, x, <<>>)
        <3>1. CASE t.k = "felt"
            BY <3>1, DisplayedLeaf
        <3>2. CASE t.k = "bool"
            BY <3>2, DisplayedLeaf
        <3>3. CASE t.k \in {"uint", "u256"}
            BY <3>3, DisplayedLeaf
        <3>4. CASE t.k = "int"
            BY <3>4, DisplayedLeaf
        <3> QED BY <1>2, <3>1, <3>2, <3>3, <3>4
    <2>2. Display[t][v].kind = kind
        BY <2>1 DEF V
    <2> QED BY <1>2, <2>1, <2>2
<1>3. CASE t.k = "unit"
    <2> DEFINE parts == [i \in DOMAIN t.of |-> Display[t.of[i]]]
    <2>1. Display[t] = DisplayOf(t, parts)
        BY DisplayDef
    <2> HIDE DEF parts
    <2>2. Display[t][v] = V("none", 0, <<>>)
        BY <1>3, <2>1 DEF DisplayOf
    <2> QED BY <1>3, <2>2 DEF V
<1>4. CASE t.k \in {"array", "fixed", "tuple", "struct"}
    <2>1. Display[t][v] = IF t.k = "struct" THEN V("struct", 0, ShownFields(t, v)) ELSE V("array", 0, ShownItems(t, v))
        BY <1>4, DisplayedList DEF Listed
    <2> QED BY <1>4, <2>1 DEF V, IsSmall
<1>5. CASE t.k = "enum"
    <2>1. PICK i \in Nat : i + 1 \in DOMAIN t.of /\ v.list[1].leaf = i
        <3>1. PICK i \in 0 .. Len(t.of) - 1 : i \in Felts /\ i + 1 \in DOMAIN t.of /\ v.list[1].leaf = i
            BY <1>5, VariantIs
        <3> QED BY <3>1, FieldAssumption DEF Felts
    <2>2. Display[t][v] = V("enum", i, <<IF t.of[i + 1].k = "unit" THEN Decoded(Unknown, V("string", i, <<>>))
                                       ELSE Decoded(t.of[i + 1], Display[t.of[i + 1]][v.list[2]])>>)
        BY <1>5, <2>1, DisplayedLeaf
    <2>3. Display[t][v].kind = "enum"
        BY <2>2 DEF V
    <2> QED BY <1>5, <2>3 DEF IsSmall
<1> QED BY <1>1, <1>2, <1>3, <1>4, <1>5 DEF Kinds

\* What the payload of an enum is written back as, which has no type of its own.
Payload(v) ==
    CASE v.kind = "string" -> <<>>
      [] v.kind = "array" ->
            Cat([i \in DOMAIN v.items |-> encode_decoded_value[<<Unknown, v.items[i]>>]])
      [] OTHER -> encode_decoded_value[<<Unknown, v>>]

\* So is the payload of an enum, if it is small.
LEMMA PayloadRestores ==
    ASSUME NEW t \in Types, IsSmall(t), NEW v \in ValuesOf[t], NEW i \in Nat,
           NEW d, d = (IF t.k = "unit" THEN V("string", i, <<>>) ELSE Display[t][v]), d \in DecodedValues
    PROVE  Encodes(Payload(d), Serialize[t][v])
<1>1. CASE t.k = "unit"
    <2>1. d.kind = "string"
        BY <1>1 DEF V
    <2>2. Payload(d) = <<>>
        BY <2>1 DEF Payload
    <2>3. Serialize[t][v] = <<>>
        BY <1>1, UnitWritten
    <2> QED BY <2>2, <2>3, EncodesEmpty
<1>2. CASE t.k # "unit"
    <2>1. d = Display[t][v] /\ d.kind \in {"single", "bool", "biguint", "bigint", "struct"}
        BY <1>2, DisplayKind
    <2>2. Payload(d) = encode_decoded_value[<<Unknown, d>>]
        BY <2>1 DEF Payload
    <2>3. Restores(t, v)
        <3>1. CASE t.k = "struct"
            <4>1. IsPlain[t]
                BY <3>1 DEF IsSmall
            <4> QED BY <4>1, PlainRestores
        <3>2. CASE t.k \in {"felt", "uint", "int", "bool"}
            BY <3>2, LeafRestores
        <3> QED BY <1>2, <3>1, <3>2 DEF IsSmall
    <2>4. Unknown \in SentTypes /\ As(Unknown, t)
        <3>1. Unknown \in SentTypes /\ Unknown.k = "unknown"
            BY TypesAssumption DEF SentTypes, Unknown, Type
        <3> QED BY <1>2, <3>1 DEF IsSmall, As
    <2> QED BY <2>1, <2>2, <2>3, <2>4 DEF Restores
<1> QED BY <1>1, <1>2

\* A parameter as it is sent back.
SentParam(t, v) == AsSent(Decoded(t, Display[t][v]))

LEMMA EnumRestores ==
    ASSUME NEW t \in Types, t.k = "enum", \A i \in DOMAIN t.of : IsSmall(t.of[i]), NEW v \in ValuesOf[t],
           SentParam(t, v).value \in DecodedValues
    PROVE  /\ SentParam(t, v).type.k = "variant"
           /\ Encodes(encode_enum_variant(SentParam(t, v)), Serialize[t][v])
<1>1. PICK i \in 0 .. Len(t.of) - 1 : /\ i \in Felts /\ i + 1 \in DOMAIN t.of
                                      /\ v.list[1].leaf = i /\ v.list[2] \in ValuesOf[t.of[i + 1]]
    BY VariantIs
<1>2. PICK n \in Nat, u \in Types : n = i /\ u = t.of[i + 1] /\ IsSmall(u)
    <2>1. i \in Nat
        BY <1>1, FieldAssumption DEF Felts
    <2>2. t.of[i + 1] \in Types /\ IsSmall(t.of[i + 1])
        BY <1>1, TypeIs
    <2> QED BY <2>1, <2>2
<1> DEFINE x == v.list[2]
           d == IF u.k = "unit" THEN V("string", n, <<>>) ELSE Display[u][x]
           dv == IF u.k = "unit" THEN Decoded(Unknown, V("string", n, <<>>)) ELSE Decoded(u, Display[u][x])
           shownAs == Display[t][v]
           sentAs == SentParam(t, v)
<1>3. x \in ValuesOf[u]
    BY <1>1, <1>2
<1>4. shownAs = V("enum", n, <<dv>>)
    BY <1>1, <1>2, DisplayedLeaf
<1>5. dv.value = d
    BY DEF Decoded
<1>6. Serialize[t][v] = <<n>> \o Serialize[u][x]
    BY <1>1, <1>2, SerializedLeaf
<1> HIDE DEF x, dv, d
<1>7. shownAs.kind = "enum" /\ shownAs.num = n /\ shownAs.items[1] = dv
    BY <1>4 DEF V
<1> HIDE DEF shownAs
<1>8. sentAs.type.k = "variant" /\ sentAs.type.n = n /\ sentAs.value = d
    <2> DEFINE ty == [Type("variant", <<>>) EXCEPT !.n = n]
    <2>1. ty.k = "variant" /\ ty.n = n
        BY DEF Type
    <2> HIDE DEF ty
    <2>2. sentAs = [Decoded(t, shownAs) EXCEPT !.type = ty, !.value = d]
        BY <1>5, <1>7 DEF SentParam, AsSent, Decoded, shownAs, ty
    <2>3. sentAs.type = ty /\ sentAs.value = d
        BY <2>2 DEF Decoded
    <2> QED BY <2>1, <2>3
<1>9. d \in DecodedValues
    BY <1>8
<1> HIDE DEF sentAs
<1>10. encode_enum_variant(sentAs) = <<n>> \o Payload(d)
    BY <1>8 DEF encode_enum_variant, Payload
<1>11. Encodes(Payload(d), Serialize[u][x])
    BY <1>2, <1>3, <1>9, PayloadRestores DEF d
<1>12. Encodes(<<n>>, <<n>>)
    BY <1>1, <1>2, FeltIs
<1>13. Encodes(<<n>> \o Payload(d), <<n>> \o Serialize[u][x])
    BY <1>11, <1>12, EncodesConcat
<1> QED BY <1>6, <1>8, <1>10, <1>13 DEF sentAs

\* A parameter is written back by the type in the ABI; a plain one also by its own.
LEMMA ParamRestores ==
    ASSUME NEW t \in Types, NEW v \in ValuesOf[t], Inverted(t), SentParam(t, v).value \in DecodedValues
    PROVE  /\ Encodes(IF SentParam(t, v).type.k = "variant" THEN encode_enum_variant(SentParam(t, v))
                      ELSE encode_decoded_value[<<t, SentParam(t, v).value>>], Serialize[t][v])
           /\ IsPlain[t] => Encodes(encode_decoded_value[<<SentParam(t, v).type, SentParam(t, v).value>>],
                                    Serialize[t][v])
<1>0. IsPlain[t] => t.k # "enum"
    BY IsPlainDef DEF PlainOf
<1>1. CASE t.k = "enum"
    BY <1>0, <1>1, EnumRestores DEF Inverted
<1>2. CASE t.k # "enum"
    <2>1. SentParam(t, v) = Decoded(t, Display[t][v])
        <3>1. Display[t][v].kind # "enum"
            BY <1>2, DisplayKind
        <3> QED BY <3>1 DEF SentParam, AsSent, Decoded
    <2>2. SentParam(t, v).type = t /\ SentParam(t, v).value = Display[t][v]
        BY <2>1 DEF Decoded
    <2>3. t.k # "variant" /\ t \in SentTypes
        BY TypeIs DEF Kinds, SentTypes
    <2>4. IsPlain[t]
        BY <1>2 DEF Inverted
    <2>5. Restores(t, v)
        BY <2>4, PlainRestores
    <2>6. Encodes(encode_decoded_value[<<t, Display[t][v]>>], Serialize[t][v])
        BY <2>2, <2>3, <2>5 DEF Restores, As
    <2> QED BY <2>2, <2>3, <2>6
<1> QED BY <1>1, <1>2

SentParams(types, args) == [i \in 1 .. Len(types) |-> SentParam(types[i], args[i])]

\* What the encoder writes of the parameters it was sent back, with the ABI, is the
\* felts the values were written as (encode_parameters_with_abi after decode_calldata).
THEOREM ParamsRestore ==
    ASSUME NEW types \in Seq(Types), NEW args, ValuesAre(types, args), SentParams(types, args) \in Seq(SentField),
           \A i \in DOMAIN types : Inverted(types[i])
    PROVE  Encodes(encode_parameters_with_abi(SentParams(types, args), types), ArgsFelts(types, args))
<1> DEFINE n == Len(types)
           params == SentParams(types, args)
           fs == [i \in 1 .. n |-> IF params[i].type.k = "variant" THEN encode_enum_variant(params[i])
                                   ELSE encode_decoded_value[<<types[i], params[i].value>>]]
           ss == [i \in 1 .. n |-> Serialize[types[i]][args[i]]]
<1>1. n \in Nat /\ DOMAIN types = 1 .. n /\ DOMAIN params = 1 .. n
    BY DEF SentParams
<1>2. ASSUME NEW i \in 1 .. n PROVE Encodes(fs[i], ss[i])
    <2>1. types[i] \in Types /\ args[i] \in ValuesOf[types[i]] /\ Inverted(types[i])
        BY <1>1 DEF ValuesAre
    <2>2. params[i] = SentParam(types[i], args[i])
        BY DEF SentParams
    <2>3. params[i] \in SentField
        <3> HIDE DEF params, n
        <3>1. params \in Seq(SentField)
            BY DEF params
        <3> QED BY <1>1, <3>1
    <2>4. SentParam(types[i], args[i]).value \in DecodedValues
        <3> HIDE DEF params
        <3> QED BY <2>2, <2>3 DEF SentField
    <2> HIDE DEF n
    <2>5. fs[i] = IF SentParam(types[i], args[i]).type.k = "variant" THEN encode_enum_variant(SentParam(types[i], args[i]))
                  ELSE encode_decoded_value[<<types[i], SentParam(types[i], args[i]).value>>]
        <3> HIDE DEF params
        <3> QED BY <2>2
    <2>6. ss[i] = Serialize[types[i]][args[i]]
        OBVIOUS
    <2> HIDE DEF fs, ss, params
    <2> QED BY <2>1, <2>4, <2>5, <2>6, ParamRestores
<1>3. encode_parameters_with_abi(params, types) = Cat(fs)
    <2> HIDE DEF params
    <2> QED BY <1>1 DEF encode_parameters_with_abi
<1>4. ArgsFelts(types, args) = Cat(ss)
    BY <1>1 DEF ArgsFelts
<1>5. fs = [i \in 1 .. n |-> fs[i]] /\ ss = [i \in 1 .. n |-> ss[i]]
    OBVIOUS
<1> HIDE DEF fs, ss, n
<1>6. Encodes(Cat(fs), Cat(ss))
    BY <1>1, <1>2, <1>5, EncodesCat
<1> QED BY <1>3, <1>4, <1>6 DEF params

\* Without an ABI a single parameter is written back.
LEMMA OneParamRestores ==
    ASSUME NEW types \in Seq(Types), NEW args, ValuesAre(types, args), SentParams(types, args) \in Seq(SentField),
           Len(types) <= 1, \A i \in DOMAIN types : IsPlain[types[i]],
           NEW order \in Orders(Len(SentParams(types, args)))
    PROVE  Encodes(encode_parameters_basic(SentParams(types, args), order), ArgsFelts(types, args))
<1> DEFINE n == Len(types)
           params == SentParams(types, args)
           fs == [i \in 1 .. n |-> encode_decoded_value[<<params[order[i]].type, params[order[i]].value>>]]
           ss == [i \in 1 .. n |-> Serialize[types[i]][args[i]]]
<1>1. n \in Nat /\ n <= 1 /\ DOMAIN types = 1 .. n /\ DOMAIN params = 1 .. n
    BY DEF SentParams
<1>2. \A i \in 1 .. n : order[i] = i
    <2>1. Len(params) = n
        <3> HIDE DEF params
        <3>1. params \in Seq(SentField)
            BY DEF params
        <3>2. PICK l \in Nat : l = Len(params) /\ DOMAIN params = 1 .. l
            BY <3>1
        <3>3. (l > 0 => l \in 1 .. n) /\ (n > 0 => n \in 1 .. l)
            BY <1>1, <3>2
        <3> QED BY <1>1, <3>2, <3>3
    <2>2. \A i \in 1 .. n : order[i] \in 1 .. n
        BY <2>1 DEF Orders
    <2> HIDE DEF n
    <2>3. \A i, j \in 1 .. n : i = j
        BY <1>1
    <2> QED BY <2>2, <2>3
<1>3. ASSUME NEW i \in 1 .. n PROVE Encodes(fs[i], ss[i])
    <2>1. types[i] \in Types /\ args[i] \in ValuesOf[types[i]] /\ IsPlain[types[i]]
        BY <1>1 DEF ValuesAre
    <2>2. params[i] = SentParam(types[i], args[i])
        BY DEF SentParams
    <2>3. params[i] \in SentField
        <3> HIDE DEF params, n
        <3>1. params \in Seq(SentField)
            BY DEF params
        <3> QED BY <1>1, <3>1
    <2>4. SentParam(types[i], args[i]).value \in DecodedValues
        <3> HIDE DEF params
        <3> QED BY <2>2, <2>3 DEF SentField
    <2> HIDE DEF n
    <2>5. fs[i] = encode_decoded_value[<<SentParam(types[i], args[i]).type, SentParam(types[i], args[i]).value>>]
        <3> HIDE DEF params
        <3> QED BY <1>2, <2>2
    <2>6. ss[i] = Serialize[types[i]][args[i]]
        OBVIOUS
    <2> HIDE DEF fs, ss, params
    <2>7. Inverted(types[i])
        BY <2>1 DEF Inverted
    <2> QED BY <2>1, <2>4, <2>5, <2>6, <2>7, ParamRestores
<1>4. encode_parameters_basic(params, order) = Cat(fs)
    <2> HIDE DEF params
    <2> QED BY <1>1 DEF encode_parameters_basic
<1>5. ArgsFelts(types, args) = Cat(ss)
    BY <1>1 DEF ArgsFelts
<1>6. fs = [i \in 1 .. n |-> fs[i]] /\ ss = [i \in 1 .. n |-> ss[i]]
    OBVIOUS
<1> HIDE DEF fs, ss, n
<1>7. Encodes(Cat(fs), Cat(ss))
    BY <1>1, <1>3, <1>6, EncodesCat
<1> QED BY <1>4, <1>5, <1>7 DEF params

\* The length of the arguments is put back.
LEMMA CallRestores ==
    ASSUME NEW types \in Seq(Types), NEW args, ValuesAre(types, args), NEW to \in Felts,
           NEW data, Encodes(data, ArgsFelts(types, args)), Len(ArgsFelts(types, args)) < Prime
    PROVE  Encodes(<<to, Selector0, Len(data)>> \o data, CallFelts(to, ArgsFelts(types, args)))
<1> DEFINE felts == ArgsFelts(types, args)
<1>1. PICK m \in Felts : m = Len(felts) /\ m = Len(data)
    <2>1. PICK p \in Nat : p = Prime
        BY FieldAssumption
    <2>2. Len(felts) \in Nat /\ Len(data) = Len(felts)
        BY DEF Encodes
    <2>3. Len(felts) \in 0 .. p - 1
        BY <2>1, <2>2
    <2> QED BY <2>1, <2>2, <2>3 DEF Felts
<1>2. 0 \in Felts
    BY FieldAssumption DEF Felts
<1> DEFINE three == <<to, 0, m>>
<1>6. Encodes(three, three)
    <2>1. three \in Seq(Felts) /\ Len(three) = 3
        BY <1>2
    <2>2. \A k \in 1 .. 3 : three[k] \in Felts
        BY <1>2
    <2> HIDE DEF three
    <2>3. \A k \in 1 .. 3 : three[k] < Prime /\ three[k] % Prime = three[k]
        BY <2>2, FeltIs
    <2> QED BY <2>1, <2>3, FeltsAreNumbers DEF Encodes
<1>7. Encodes(three \o data, three \o felts)
    <2> HIDE DEF three
    <2> QED BY <1>6, EncodesConcat
<1> QED BY <1>1, <1>7 DEF CallFelts, Selector0

\* A call that was shown is written back as it was.
LEMMA ShownRestores ==
    ASSUME TxOK, ShownOK, WrittenOK, FetchedOK, pc \in SentPcs, upgrades = 0,
           NEW k \in DOMAIN shown, fetched[k] # <<>>, Known(k), NEW order \in Orders(Len(shown[k].params))
    PROVE  k \in 1 .. Len(tx) /\ Encodes(EncodedCall(k, order), CallFelts(tx[k].to, ArgsDatas(tx)[k]))
<1> DEFINE call == tx[k]
<1>1. PICK n \in Nat : n = Len(shown) /\ DOMAIN shown = 1 .. n /\ DOMAIN fetched = 1 .. n
    BY DEF ShownOK, FetchedOK
<1>2. k \in 1 .. Len(tx) /\ call.to \in Felts /\ call.types \in Seq(Types) /\ ValuesAre(call.types, call.args)
      /\ ArgsDatas(tx)[k] = ArgsFelts(call.types, call.args) /\ Len(ArgsFelts(call.types, call.args)) < Prime
    <2>1. PICK l \in Nat, m \in Nat : l = Len(tx) /\ m = Len(Parsed) /\ \A j \in 1 .. m : j \in 1 .. l
        BY TxParsed
    <2>2. n <= m
        BY <1>1, <2>1 DEF ShownOK
    <2>3. k \in 1 .. m
        BY <1>1, <2>2
    <2>4. k \in 1 .. l
        BY <2>1, <2>3
    <2>5. CallsOf(tx)
        BY DEF TxOK
    <2>6. PICK a \in Nat \ {0} :
            /\ a = Len(tx)
            /\ \A j \in 1 .. a : /\ tx[j].to \in Felts
                                 /\ tx[j].types \in Seq(Types) /\ ValuesAre(tx[j].types, tx[j].args)
                                 /\ ArgsDatas(tx)[j] = ArgsFelts(tx[j].types, tx[j].args)
                                 /\ ArgsDatas(tx)[j] \in Seq(Felts) /\ Len(ArgsDatas(tx)[j]) < Prime - 1
        BY <2>5, CallsTyped
    <2>7. k \in 1 .. a
        BY <2>1, <2>4, <2>6
    <2>8. PICK p \in Nat : p = Prime
        BY FieldAssumption
    <2>9. PICK b \in Nat : b = Len(ArgsFelts(call.types, call.args)) /\ b < p - 1
        BY <2>6, <2>7, <2>8
    <2>10. b < p
        BY <2>9
    <2> QED BY <2>1, <2>4, <2>6, <2>7, <2>8, <2>9, <2>10
<1>3. shown[k] = SentBack(AsShown(call)) /\ shown[k] \in ShownCall
    BY <1>1 DEF WrittenOK, ShownOK
<1>4. shown[k].to = call.to /\ shown[k].params = SentParams(call.types, call.args)
    <2>1. AsShown(call).params = Displayed(call) /\ AsShown(call).to = call.to
        BY DEF AsShown
    <2>2. DOMAIN call.types = 1 .. Len(call.types)
        BY <1>2
    <2> HIDE DEF call
    <2>3. /\ shown[k].to = call.to
          /\ shown[k].params = [i \in DOMAIN Displayed(call) |-> AsSent(Displayed(call)[i])]
        BY <1>3, <2>1 DEF SentBack, AsShown
    <2>4. DOMAIN Displayed(call) = 1 .. Len(call.types)
        BY <2>2 DEF Displayed
    <2>5. \A i \in 1 .. Len(call.types) : AsSent(Displayed(call)[i]) = SentParam(call.types[i], call.args[i])
        BY <2>2 DEF Displayed, SentParam
    <2> QED BY <2>3, <2>4, <2>5 DEF SentParams
<1>5. SentParams(call.types, call.args) \in Seq(SentField)
    <2>1. shown[k].params \in Seq(SentField)
        BY <1>3 DEF ShownCall
    <2> QED BY <1>4, <2>1
<1>6. fetched[k][1] \in {None, call.types} /\ call.types # None
    <2>1. fetched[k] \in {<<None>>, <<call.types>>}
        BY <1>1 DEF FetchedOK
    <2>2. call.types # None
        <3>1. call.types \in Abis(call.to) /\ call.to \in Contracts
            BY <1>2 DEF TxOK, CallsOf
        <3> QED BY <3>1, CallsAssumption
    <2> QED BY <2>1, <2>2
<1>7. /\ \A i \in DOMAIN call.types : Inverted(call.types[i])
      /\ \/ fetched[k][1] # None
         \/ Len(call.types) <= 1 /\ \A i \in DOMAIN call.types : IsPlain[call.types[i]]
    BY DEF Known
<1> HIDE DEF call
<1> DEFINE params == SentParams(call.types, call.args)
           data == IF fetched[k][1] = None THEN encode_parameters_basic(params, order)
                   ELSE encode_parameters_with_abi(params, fetched[k][1])
           felts == ArgsFelts(call.types, call.args)
<1>8. Encodes(data, felts)
    <2>1. CASE fetched[k][1] = None
        <3>1. order \in Orders(Len(params))
            BY <1>4
        <3>2. Encodes(encode_parameters_basic(params, order), felts)
            BY <1>2, <1>5, <1>7, <2>1, <3>1, OneParamRestores
        <3> QED BY <2>1, <3>2
    <2>2. CASE fetched[k][1] # None
        <3>1. fetched[k][1] = call.types
            BY <1>6, <2>2
        <3>2. Encodes(encode_parameters_with_abi(params, call.types), felts)
            BY <1>2, <1>5, <1>7, ParamsRestore
        <3> QED BY <2>2, <3>1, <3>2
    <2> QED BY <2>1, <2>2
<1>9. EncodedCall(k, order) = <<call.to, Selector0, Len(data)>> \o data
    BY <1>4 DEF EncodedCall
<1> HIDE DEF data, params
<1>10. Encodes(<<call.to, Selector0, Len(data)>> \o data, CallFelts(call.to, felts))
    BY <1>2, <1>8, CallRestores
<1> QED BY <1>2, <1>9, <1>10 DEF call

\* All calls are written back as they were.
LEMMA CallsRestore ==
    ASSUME TxOK, ShownOK, WrittenOK, FetchedOK, pc \in SentPcs, upgrades = 0,
           \A k \in DOMAIN fetched : fetched[k] # <<>>, \A k \in DOMAIN shown : Known(k),
           NEW order, IsOrder(order)
    PROVE  Encodes(EncodedCalls(order), Multicall(SubSeq(tx, 1, Len(shown))))
<1>1. PICK n \in Nat : n = Len(shown) /\ DOMAIN shown = 1 .. n /\ DOMAIN fetched = 1 .. n
    BY DEF ShownOK, FetchedOK
<1> DEFINE calls == SubSeq(tx, 1, n)
           fs == [k \in 1 .. n |-> EncodedCall(k, order[k])]
           ss == [k \in 1 .. n |-> CallFelts(tx[k].to, ArgsDatas(tx)[k])]
<1>2. ASSUME NEW k \in 1 .. n PROVE k \in 1 .. Len(tx) /\ Encodes(fs[k], ss[k])
    <2>1. order[k] \in Orders(Len(shown[k].params)) /\ fetched[k] # <<>> /\ Known(k) /\ k \in DOMAIN shown
        BY <1>1 DEF IsOrder
    <2>2. k \in 1 .. Len(tx) /\ Encodes(EncodedCall(k, order[k]), CallFelts(tx[k].to, ArgsDatas(tx)[k]))
        BY <2>1, ShownRestores
    <2> QED BY <2>2
<1>3. Len(calls) = n /\ DOMAIN calls = 1 .. n /\ \A k \in 1 .. n : calls[k] = tx[k]
    BY SubSeqProperties
<1>4. ArgsDatas(calls) = [k \in 1 .. n |-> ArgsDatas(tx)[k]]
    <2>1. DOMAIN tx = 1 .. Len(tx)
        BY DEF TxOK, CallsOf
    <2> HIDE DEF calls
    <2> QED BY <1>2, <1>3, <2>1 DEF ArgsDatas
<1>5. Multicall(calls) = <<n>> \o Cat(ss)
    <2> HIDE DEF calls
    <2> QED BY <1>3, <1>4 DEF Multicall, Batch
<1>6. EncodedCalls(order) = <<n>> \o Cat(fs)
    BY <1>1 DEF EncodedCalls
<1>7. fs = [k \in 1 .. n |-> fs[k]] /\ ss = [k \in 1 .. n |-> ss[k]]
    OBVIOUS
<1>8. Encodes(<<n>>, <<n>>)
    <2>1. PICK a \in Nat, m \in Nat : a = Len(tx) /\ m = Len(Parsed) /\ m = a - (IF Cut THEN 1 ELSE 0)
        BY TxParsed
    <2>2. n <= m /\ m <= a
        BY <1>1, <2>1 DEF ShownOK
    <2>3. PICK p \in Nat : p = Prime
        BY FieldAssumption
    <2>4. PICK c \in Nat \ {0} : c = Len(tx) /\ c \in 1 .. p - 1
        BY <2>3, CallsTyped DEF TxOK
    <2>5. n \in 0 .. p - 1
        BY <2>1, <2>2, <2>4
    <2> QED BY <2>3, <2>5, FeltIs DEF Felts
<1> HIDE DEF fs, ss, calls
<1>9. Encodes(Cat(fs), Cat(ss))
    BY <1>2, <1>7, EncodesCat
<1>10. Encodes(<<n>> \o Cat(fs), <<n>> \o Cat(ss))
    BY <1>8, <1>9, EncodesConcat
<1> QED BY <1>1, <1>5, <1>6, <1>10 DEF calls

\* The last step writes all calls back; no other changes what is simulated.
LEMMA RestoredStep ==
    ASSUME IInv, EncodingRestores, [Next]_vars
    PROVE  EncodingRestores'
<1>0. TxOK /\ ChainOK /\ ShownOK /\ WrittenOK /\ FetchedOK /\ tx' = tx
    BY TxSame DEF IInv
<1>1. CASE pc' \notin {"simulated", "invalid"}
    BY <1>1 DEF EncodingRestores
<1>2. CASE UNCHANGED <<pc, shown, fetched, sent>> /\ (UNCHANGED upgrades \/ upgrades' # 0)
    BY <1>0, <1>2 DEF EncodingRestores, Known
<1>3. CASE Encode
    <2> SUFFICES ASSUME upgrades' = 0, \A k \in DOMAIN shown' : Known(k)'
                 PROVE  sent' = Multicall(SubSeq(tx, 1, Len(shown)))'
        BY DEF EncodingRestores
    <2>1. UNCHANGED <<shown, fetched, upgrades>> /\ pc \in SentPcs /\ \A k \in DOMAIN fetched : fetched[k] # <<>>
        BY <1>3 DEF Encode, SentPcs
    <2>2. \A k \in DOMAIN shown : Known(k)
        BY <1>0, <2>1 DEF Known
    <2>3. PICK order : IsOrder(order) /\ sent' = parse_calldata(EncodedCalls(order))
        BY <1>3 DEF Encode, IsOrder, EncodedCalls
    <2>4. Encodes(EncodedCalls(order), Multicall(SubSeq(tx, 1, Len(shown))))
        BY <1>0, <2>1, <2>2, <2>3, CallsRestore
    <2>5. sent' = Multicall(SubSeq(tx, 1, Len(shown)))
        BY <2>3, <2>4, EncodesParsed
    <2> QED BY <1>0, <2>1, <2>5
<1>4. CASE UNCHANGED vars
    BY <1>2, <1>4 DEF vars
<1>5. ASSUME NEW c \in Contracts, Upgrade(c) \/ Lapse(c) PROVE EncodingRestores'
    <2>1. UNCHANGED <<pc, shown, fetched, sent>>
        BY <1>5 DEF Upgrade, Lapse
    <2>2. upgrades \in Nat
        BY <1>0, CallsAssumption DEF ChainOK
    <2>3. upgrades' = upgrades \/ upgrades' = upgrades + 1
        BY <1>5 DEF Upgrade, Lapse
    <2> QED BY <1>2, <2>1, <2>2, <2>3
<1>6. CASE DecodeCall \/ DecodeWithoutAbi \/ Show \/ Simulate \/ SendBack
    <2>1. pc' \in {"decode", "undecoded", "no_abi", "shown", "ran", "fetch", "unreadable"}
        <3>1. CASE DecodeCall
            BY <3>1 DEF DecodeCall
        <3>2. CASE DecodeWithoutAbi \/ Show \/ Simulate \/ SendBack
            BY <3>2 DEF DecodeWithoutAbi, Show, Simulate, SendBack
        <3> QED BY <1>6, <3>1, <3>2
    <2> QED BY <1>1, <2>1
<1>7. ASSUME NEW k \in DOMAIN fetched, FetchAbi(k) PROVE EncodingRestores'
    BY <1>1, <1>7 DEF FetchAbi
<1> QED BY <1>3, <1>4, <1>5, <1>6, <1>7 DEF Next

\* Whatever values are passed of the types that the encoder inverts, and however the cache
\* lapses: unless a contract is upgraded or an ABI of more than one parameter is missing, the
\* calldata that is simulated is the calldata that was decoded (EncodingRestores).
THEOREM SentIsRestored == Spec => []EncodingRestores
<1>1. Init => EncodingRestores
    BY DEF Init, EncodingRestores
<1>2. IInv /\ EncodingRestores /\ [Next]_vars => EncodingRestores'
    BY RestoredStep
<1> QED BY <1>1, <1>2, Inductive, PTL DEF Spec
=============================================================================
