----------------------------- MODULE DataDecoder -----------------------------
(***************************************************************************)
(* The types and decoded values of data-decoder, and its decoder of        *)
(* calldata by the types of an ABI (calldata_decoder.rs).  What it reads   *)
(* is written by Cairo: the serialization of values (Serialize) is         *)
(* external, and what the values should be shown as (Display) is the       *)
(* reference the decoder is held against.                                  *)
(*                                                                         *)
(* What is recursive over a type is a function of its parts' functions:    *)
(* F[t] = FOf(t, <<F of each part of t>>).                                 *)
(***************************************************************************)
EXTENDS Integers, Sequences, FiniteSets

CONSTANTS
    Prime,      \* the size of the field
    Word,       \* u128 is 0 .. Word - 1
    MaxArray,   \* the longest array that is read (is_allocation_safe)
    Types,      \* the types that ABIs mention, and their parts
    Depth,      \* how deep each of them nests
    MaxDepth,   \* bound: no type nests as deep as this
    ValuesOf    \* the values of each type that are passed

\* Types by structure: their names, which the code parses, stand for it.
Type(k, of) == [k |-> k, of |-> of, n |-> 0]
Felt == Type("felt", <<>>)
UInt == Type("uint", <<>>)
SInt == Type("int", <<>>)
Unit == Type("unit", <<>>)
Unknown == Type("unknown", <<>>)
Bool == Type("bool", <<Unit, Unit>>)
U256 == Type("u256", <<UInt, UInt>>)
ArrayOf(t) == Type("array", <<t>>)
FixedOf(t, n) == [Type("fixed", <<t>>) EXCEPT !.n = n]
TupleOfTypes(ts) == Type("tuple", ts)
StructOf(ts) == Type("struct", ts)
EnumOf(ts) == Type("enum", ts)

Felts == 0 .. Prime - 1
Kinds == {"felt", "uint", "int", "unit", "unknown", "bool", "u256", "array", "fixed",
          "tuple", "struct", "enum"}
IsType(t) ==
    /\ t.k \in {"felt", "uint", "int", "unit", "unknown"} => t.of = <<>>
    /\ t.k = "bool" => t.of = <<Unit, Unit>>
    /\ t.k = "u256" => t.of = <<UInt, UInt>>
    /\ t.k \in {"array", "fixed"} => Len(t.of) = 1

\* What the parts stand for, once for each element of an array of fixed length.
MembersOf(t, parts) == IF t.k = "fixed" THEN [i \in 1 .. t.n |-> parts[1]] ELSE parts
Members(t) == MembersOf(t, t.of)
Copies(part, n) == [i \in 1 .. n |-> part]

\* A value is a number or a list of values; the value of an enum lists the
\* variant and its payload.
Leaf(n) == [leaf |-> n]
List(s) == [list |-> s]

IsNumber(v, S) == v = Leaf(v.leaf) /\ v.leaf \in S
IsListOf(v, types) ==
    /\ v = List(v.list) /\ v.list \in Seq(UNION {ValuesOf[types[i]] : i \in DOMAIN types})
    /\ Len(v.list) = Len(types) /\ \A i \in DOMAIN types : v.list[i] \in ValuesOf[types[i]]
IsValue(t, v) ==
    CASE t.k = "felt" -> IsNumber(v, Felts)
      [] t.k = "uint" -> IsNumber(v, 0 .. Word - 1)
      [] t.k = "int" -> IsNumber(v, -Word .. Word - 1)
      [] t.k = "bool" -> IsNumber(v, {0, 1})
      [] t.k = "u256" -> IsNumber(v, 0 .. Word * Word - 1)
      [] t.k = "array" ->
            v = List(v.list) /\ v.list \in Seq(ValuesOf[t.of[1]]) /\ Len(v.list) <= MaxArray
      [] t.k = "enum" ->
            /\ v = List(<<v.list[1], v.list[2]>>) /\ IsNumber(v.list[1], 0 .. Len(t.of) - 1)
            /\ v.list[2] \in ValuesOf[t.of[v.list[1].leaf + 1]]
      [] t.k = "unknown" -> FALSE
      [] OTHER -> IsListOf(v, Members(t))

ASSUME FieldAssumption ==
    /\ Prime \in Nat /\ Word \in Nat /\ 1 < Word /\ Word < Prime
    /\ MaxArray \in Nat /\ MaxArray < Prime
ASSUME TypesAssumption ==
    /\ Unknown \in Types
    /\ Types \subseteq [k : Kinds, of : Seq(Types), n : Nat]
    /\ MaxDepth \in Nat /\ Depth \in [Types -> 0 .. MaxDepth - 1]
    /\ \A t \in Types : IsType(t) /\ Len(t.of) <= Prime
    /\ \A t \in Types : \A i \in DOMAIN t.of : Depth[t.of[i]] < Depth[t]
ASSUME ValuesAssumption ==
    /\ DOMAIN ValuesOf = Types
    /\ \A t \in Types : \A v \in ValuesOf[t] : IsValue(t, v)
-----------------------------------------------------------------------------
\* One sequence after another.
Cat(seqs) ==
    LET ss == <<>> \o seqs
        n == Len(ss)
        last[m \in 0 .. n] == IF m = 0 THEN <<>> ELSE ss[n - m + 1] \o last[m - 1]
    IN last[n]

\* What Cairo writes.
SerializeOf(t, parts) ==
    [v \in ValuesOf[t] |->
        CASE t.k \in {"felt", "uint", "bool"} -> <<v.leaf>>
          [] t.k = "int" -> <<v.leaf % Prime>>
          [] t.k = "u256" -> <<v.leaf % Word, v.leaf \div Word>>
          [] t.k = "array" ->
                <<Len(v.list)>> \o Cat([i \in DOMAIN v.list |-> parts[1][v.list[i]]])
          [] t.k = "enum" -> <<v.list[1].leaf>> \o parts[v.list[1].leaf + 1][v.list[2]]
          [] OTHER -> Cat([i \in DOMAIN v.list |-> MembersOf(t, parts)[i][v.list[i]]])]
Serialize ==
    LET of[t \in Types] == SerializeOf(t, [i \in DOMAIN t.of |-> of[t.of[i]]])
    IN [t \in Types |-> of[t]]
-----------------------------------------------------------------------------
\* DecodedValueType and DecodedValue; `key` is the place of a field in a struct.
V(kind, num, items) == [kind |-> kind, num |-> num, items |-> items]
Single(n) == V("single", n, <<>>)
Decoded(t, v) == [key |-> 0, type |-> t, value |-> v]
Result(some, dv, at) == [some |-> some, dv |-> dv, at |-> at]
Fails(at) == Result(FALSE, Decoded(Unknown, V("none", 0, <<>>)), at)

\* The values that nest less than n deep.
Nested(items) ==
    [kind : {"none", "single", "bool", "biguint", "string"}, num : Nat, items : {<<>>}]
    \cup [kind : {"bigint"}, num : Int, items : {<<>>}]
    \cup [kind : {"array"}, num : {0}, items : Seq(items)]
    \cup [kind : {"struct"}, num : {0}, items : Seq([key : Nat, type : Types, value : items])]
    \cup [kind : {"enum"}, num : Nat, items : [1 .. 1 -> [key : Nat, type : Types, value : items]]]
NestedIn[n \in 0 .. MaxDepth] == IF n = 0 THEN {} ELSE Nested(NestedIn[n - 1])
DecodedValues == NestedIn[MaxDepth]
Item(v, i) == IF v.kind \in {"struct", "enum"} THEN v.items[i].value ELSE v.items[i]

\* x | y
BitOr(x, y) ==
    LET or[p \in (0 .. x) \X (0 .. y)] ==
            IF p[1] = 0 THEN p[2]
            ELSE (IF p[1] % 2 = 1 \/ p[2] % 2 = 1 THEN 1 ELSE 0) + 2 * or[<<p[1] \div 2, p[2] \div 2>>]
    IN or[<<x, y>>]

\* Low and high are looked up at the keys 0 and 1 of the struct.
IsLimbs(v) ==
    /\ v.kind = "struct"
    /\ [i \in DOMAIN v.items |-> v.items[i].key] = <<0, 1>>
    /\ \A i \in DOMAIN v.items : v.items[i].value.kind = "biguint"
\* (high << 128) | low, for a low that may be too large.
FromLimbs(v) ==
    LET low == v.items[1].value.num
        high == v.items[2].value.num
    IN IF low < Word THEN low + Word * high
       ELSE (low % Word) + Word * BitOr(high, low \div Word)
create_decoded_value_by_type(t, v) ==
    Decoded(t, CASE t.k = "bool" /\ v.kind = "single" -> V("bool", IF v.num # 0 THEN 1 ELSE 0, <<>>)
                 [] t.k = "uint" /\ v.kind = "single" -> V("biguint", v.num, <<>>)
                 [] t.k = "int" /\ v.kind = "single" -> V("bigint", v.num - Prime, <<>>)
                 [] t.k = "u256" /\ IsLimbs(v) -> V("biguint", FromLimbs(v), <<>>)
                 [] OTHER -> v)

Values(dvs) == [i \in DOMAIN dvs |-> dvs[i].value]
Keyed(dvs, first) == [i \in DOMAIN dvs |-> [dvs[i] EXCEPT !.key = first + i - 1]]
-----------------------------------------------------------------------------
\* calldata_decoder.rs: `at` is the data that is left.
\* A tuple is split at every comma of its name, those of its parts included.
NameHasComma[t \in Types] ==
    \/ t.k = "tuple" /\ Len(t.of) > 1
    \/ t.k \in {"array", "fixed"} /\ NameHasComma[t.of[1]]
Splits(t) == \A i \in DOMAIN t.of : ~NameHasComma[t.of[i]]

DecodeParts(decoders, data) ==
    LET upto[n \in 0 .. Len(decoders)] ==
            IF n = 0 THEN [some |-> TRUE, dvs |-> <<>>, at |-> data]
            ELSE LET a == upto[n - 1]
                     r == decoders[n][a.at]
                 IN [some |-> a.some /\ r.some, dvs |-> Append(a.dvs, r.dv), at |-> r.at]
    IN upto[Len(decoders)]
Whole(t, kind, ps) ==
    IF ps.some
    THEN Result(TRUE, create_decoded_value_by_type(t, V(kind, 0,
                IF kind = "array" THEN Values(ps.dvs) ELSE Keyed(ps.dvs, 0))), ps.at)
    ELSE Fails(ps.at)
Variant(t, parts, i, data) ==
    IF i >= Len(t.of) THEN Fails(data)
    ELSE IF t.of[i + 1].k = "unit"
    THEN Result(TRUE, Decoded(t, V("enum", i, <<Decoded(Unknown, V("string", i, <<>>))>>)), data)
    ELSE LET r == parts[i + 1][data]
         IN IF r.some THEN Result(TRUE, Decoded(t, V("enum", i, <<r.dv>>)), r.at) ELSE r
CannotRead(t, data) ==
    \/ t.k \in {"unit", "unknown"}
    \/ t.k = "tuple" /\ ~Splits(t)
    \/ t.k \in {"felt", "uint", "int", "bool", "array", "enum"} /\ data = <<>>
    \/ t.k = "array" /\ data[1] > MaxArray
    \/ t.k = "fixed" /\ t.n > MaxArray
DecoderOf(t, parts) ==
    [data \in Seq(Felts) |->
        IF CannotRead(t, data) THEN Fails(data)
        ELSE CASE t.k = "array" -> Whole(t, "array", DecodeParts(Copies(parts[1], data[1]), Tail(data)))
               [] t.k \in {"fixed", "tuple"} -> Whole(t, "array", DecodeParts(MembersOf(t, parts), data))
               [] t.k \in {"struct", "u256"} -> Whole(t, "struct", DecodeParts(parts, data))
               [] t.k = "enum" -> Variant(t, parts, data[1], Tail(data))
               [] OTHER -> Result(TRUE, create_decoded_value_by_type(t, Single(data[1])), Tail(data))]
decode_type ==
    LET of[t \in Types] == DecoderOf(t, [i \in DOMAIN t.of |-> of[t.of[i]]])
    IN [t \in Types |-> of[t]]

\* As it would be without the check for data that is left.
DecodeLoosely(types, data) == DecodeParts([i \in DOMAIN types |-> decode_type[types[i]]], data)
decode_calldata(types, data) ==
    LET ps == DecodeParts([i \in DOMAIN types |-> decode_type[types[i]]], data)
    IN [ps EXCEPT !.some = @ /\ ps.at = <<>>]
-----------------------------------------------------------------------------
\* What a value should be shown as.  The decoder takes the size of the field off a
\* signed integer, also off one that is not negative.
DisplayOf(t, parts) ==
    [v \in ValuesOf[t] |->
        CASE t.k = "felt" -> V("single", v.leaf, <<>>)
          [] t.k = "bool" -> V("bool", v.leaf, <<>>)
          [] t.k \in {"uint", "u256"} -> V("biguint", v.leaf, <<>>)
          [] t.k = "int" -> V("bigint", IF v.leaf < 0 THEN v.leaf ELSE v.leaf - Prime, <<>>)
          [] t.k = "unit" -> V("none", 0, <<>>)
          [] t.k = "array" -> V("array", 0, [i \in DOMAIN v.list |-> parts[1][v.list[i]]])
          [] t.k \in {"fixed", "tuple"} ->
                V("array", 0, [i \in DOMAIN v.list |-> MembersOf(t, parts)[i][v.list[i]]])
          [] t.k = "struct" ->
                V("struct", 0, [i \in DOMAIN v.list |->
                    [Decoded(t.of[i], parts[i][v.list[i]]) EXCEPT !.key = i - 1]])
          [] OTHER ->
                LET i == v.list[1].leaf
                IN V("enum", i, <<IF t.of[i + 1].k = "unit" THEN Decoded(Unknown, V("string", i, <<>>))
                                  ELSE Decoded(t.of[i + 1], parts[i + 1][v.list[2]])>>)]
Display ==
    LET of[t \in Types] == DisplayOf(t, [i \in DOMAIN t.of |-> of[t.of[i]]])
    IN [t \in Types |-> of[t]]

\* The types whose values the decoder reads: no tuple in a tuple, whose name it cannot
\* split, no unit but as the payload of an enum, and no fixed array that is too long.
DecodableOf(t, parts) ==
    /\ t.k \notin {"unit", "unknown"}
    /\ t.k = "tuple" => Splits(t)
    /\ t.k = "fixed" => t.n <= MaxArray
    /\ t.k # "bool" =>
          \A i \in DOMAIN parts : parts[i] \/ (t.k = "enum" /\ t.of[i].k = "unit")
Decodable ==
    LET of[t \in Types] == DecodableOf(t, [i \in DOMAIN t.of |-> of[t.of[i]]])
    IN [t \in Types |-> of[t]]
=============================================================================
