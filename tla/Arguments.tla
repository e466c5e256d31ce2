----------------------------- MODULE Arguments -----------------------------
(***************************************************************************)
(* The calls of Calldata are run, so that their arguments are also seen in *)
(* the memory of the VM and in events, by the other two decoders.          *)
(***************************************************************************)
EXTENDS Calldata, ArgumentDecoders

\* The shape of a decoded value, to compare it with what Cairo wrote.
RECURSIVE Reading(_)
Reading(v) ==
    CASE v.kind = "enum" /\ v.num = -1 -> Reading(v.items[1].value)
      [] v.kind = "enum" ->
            List(<<Leaf(v.num), IF v.items[1].value.kind = "string" THEN List(<<>>)
                                ELSE Reading(v.items[1].value)>>)
      [] v.kind = "array" -> List([i \in DOMAIN v.items |-> Reading(v.items[i])])
      [] v.kind = "struct" -> List([i \in DOMAIN v.items |-> Reading(v.items[i].value)])
      [] OTHER -> Leaf(v.num)

\* The parts of a value.  Every decoder takes the size of the field off a signed
\* integer, also off one that is not negative.
RECURSIVE Nodes(_, _)
Nodes(t, v) ==
    {<<t, v>>} \cup
    CASE t.k = "enum" -> Nodes(t.of[v.list[1].leaf + 1], v.list[2])
      [] t.k \in {"array", "fixed", "tuple", "struct"} ->
            UNION {Nodes(IF t.k = "array" THEN t.of[1] ELSE Members(t)[i], v.list[i]) : i \in DOMAIN v.list}
      [] OTHER -> {}
NotNegative(t, v) == \E n \in Nodes(t, v) : n[1].k = "int" /\ n[2].leaf >= 0
EmptyArray(t, v) == \E n \in Nodes(t, v) : n[1].k = "array" /\ n[2].list = <<>>
RECURSIVE Fixed(_)
Fixed(t) == t.k = "fixed" \/ \E i \in DOMAIN t.of : Fixed(t.of[i])

\* What memory and events show: an enum without the name of its variant unless it
\* is all there is, and a u256 of an event as its two limbs.
RECURSIVE Compact(_, _, _)
Compact(t, v, limbs) ==
    CASE t.k = "enum" /\ t.of[v.list[1].leaf + 1].k = "unit" -> v.list[1]
      [] t.k = "enum" -> Compact(t.of[v.list[1].leaf + 1], v.list[2], limbs)
      [] t.k = "u256" /\ limbs -> List(<<Leaf(v.leaf % Word), Leaf(v.leaf \div Word)>>)
      [] t.k \in {"array", "tuple", "struct"} ->
            List([i \in DOMAIN v.list |->
                    Compact(IF t.k = "array" THEN t.of[1] ELSE t.of[i], v.list[i], limbs)])
      [] OTHER -> v

\* The arguments of a call as the debugger shows them, read from the memory they are
\* laid out in (decode_internal_datas).  An empty array is excepted: it is shown with
\* the cell that its pointers name.
MemoryShowsValue ==
    pc = "ran" => \A k \in DOMAIN tx : \A i \in DOMAIN tx[k].args :
        LET t == tx[k].types[i]
            v == tx[k].args[i]
            c == Cells(t, v, <<0>>)
            r == decode_internal_datas(t, c.cells, 0, c.mem \o c.cells \o <<0>>)
        IN ~Fixed(t) /\ ~NotNegative(t, v) /\ ~EmptyArray(t, v)
            => r.some /\ r.at = Len(c.cells) /\ Reading(r.dv.value) = Compact(t, v, FALSE)

\* The same value in an event, followed by whatever else the memory holds
\* (decode_event_datas).
EventShowsValue ==
    pc = "ran" => \A k \in DOMAIN tx : \A i \in DOMAIN tx[k].args :
        LET t == tx[k].types[i]
            v == tx[k].args[i]
            r == decode_event_datas(t, Serialize[t][v] \o <<1, 1>>, 0)
        IN ~Fixed(t) /\ ~NotNegative(t, v)
            => r.some /\ r.at = Len(Serialize[t][v]) /\ Reading(r.dv.value) = Compact(t, v, TRUE)

\* The debugger's arguments and events show the values that the transaction has.
ArgumentsShown == MemoryShowsValue /\ EventShowsValue
=============================================================================
