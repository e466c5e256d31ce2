----------------------------- MODULE MCCalldata -----------------------------
(* Two contracts whose functions take values of every kind. *)
EXTENDS Arguments

MCContracts == {1, 2}
Choice == EnumOf(<<Unit, UInt, StructOf(<<UInt, U256>>)>>)
Rich == {<<UInt, U256>>, <<Bool, SInt>>, <<ArrayOf(U256)>>, <<Choice>>, <<TupleOfTypes(<<Felt, ArrayOf(UInt)>>)>>,
           <<StructOf(<<Choice, Bool>>)>>, <<ArrayOf(TupleOfTypes(<<U256, SInt>>))>>,
           <<TupleOfTypes(<<Felt, TupleOfTypes(<<Felt, Bool>>)>>)>>, <<FixedOf(UInt, 2)>>,
           <<ArrayOf(EnumOf(<<Felt, Unit>>))>>, <<ArrayOf(ArrayOf(Felt)), Felt>>}
MCAbis(c) == IF c = 1 THEN Rich ELSE {<<UInt>>, <<Bool, Felt>>}
MCUpgrades == {<<UInt>>, <<ArrayOf(Felt)>>}

RECURSIVE WithParts(_)
WithParts(t) == {t} \cup UNION {WithParts(t.of[i]) : i \in DOMAIN t.of}
MCTypes == UNION {WithParts(ts[i]) : <<ts, i>> \in UNION {{<<us, j>> : j \in DOMAIN us} : us \in Rich \cup MCUpgrades}}
           \cup {Unknown}
MCDepth[t \in MCTypes] == IF t.of = <<>> THEN 0 ELSE 1 + Max({MCDepth[t.of[i]] : i \in DOMAIN t.of})

Seqs(S, n) == UNION {[1 .. m -> S] : m \in 0 .. n}
RECURSIVE ValuesIn(_)
Products(ts) == {List(s) : s \in {f \in [DOMAIN ts -> UNION {ValuesIn(ts[i]) : i \in DOMAIN ts}] :
                                    \A i \in DOMAIN ts : f[i] \in ValuesIn(ts[i])}}
ValuesIn(t) ==
    CASE t.k \in {"felt", "bool"} -> {Leaf(0), Leaf(1)}
      [] t.k = "uint" -> {Leaf(3)}
      [] t.k = "int" -> {Leaf(-1), Leaf(2)}
      [] t.k = "u256" -> {Leaf(3 * Word + 2)}
      [] t.k = "unknown" -> {}
      [] t.k = "array" /\ t.of[1].k = "array" ->      \* fewer, as calls come in pairs
             {List(s) : s \in Seqs({List(u) : u \in Seqs({Leaf(1)}, 2)}, 2)}
      [] t.k = "array" -> {List(s) : s \in Seqs(ValuesIn(t.of[1]), 2)}
      [] t.k = "enum" -> UNION {{List(<<Leaf(i - 1), v>>) : v \in ValuesIn(t.of[i])} : i \in DOMAIN t.of}
      [] OTHER -> Products(Members(t))
MCValuesOf == [t \in MCTypes |-> ValuesIn(t)]
=============================================================================
