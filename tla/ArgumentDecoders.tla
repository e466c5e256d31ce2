-------------------------- MODULE ArgumentDecoders --------------------------
(***************************************************************************)
(* The two decoders of data-decoder for what a run leaves behind: function *)
(* arguments by the memory of the VM (internal_function_decoder.rs), and   *)
(* events by the types of the Sierra program (event_decoder.rs).  The      *)
(* layout of values in memory (Cells) is Cairo's, and external.            *)
(***************************************************************************)
EXTENDS DataDecoder, SequencesExt, FiniteSetsExt

RECURSIVE Size(_)
Size(t) ==
    CASE t.k \in {"felt", "uint", "int", "bool"} -> 1
      [] t.k = "unit" -> 0
      [] t.k = "array" -> 2
      [] t.k = "enum" -> 1 + Max({Size(t.of[i]) : i \in DOMAIN t.of})
      [] OTHER -> FoldLeft(LAMBDA n, m : n + Size(m), 0, Members(t))

\* The selector of variant i: its index, or a jump into a table of branches.
Selector(t, i) == IF Len(t.of) <= 2 THEN i ELSE 2 * (Len(t.of) - 1 - i) + 1

\* The cells of a value, and the memory (cell 0 first) with the arrays it points
\* to.  The payload of an enum is aligned to the end of its cells.
RECURSIVE Cells(_, _, _)
AllCells(ts, vs, mem) ==
    FoldLeft(LAMBDA a, i : LET c == Cells(ts[i], vs[i], a.mem)
                           IN [cells |-> a.cells \o c.cells, mem |-> c.mem],
             [cells |-> <<>>, mem |-> mem], [i \in DOMAIN vs |-> i])
Cells(t, v, mem) ==
    CASE t.k = "array" ->
            LET e == AllCells(Copies(t.of[1], Len(v.list)), v.list, mem)
            IN [cells |-> <<Len(e.mem), Len(e.mem) + Len(e.cells)>>, mem |-> e.mem \o e.cells]
      [] t.k = "enum" ->
            LET i == v.list[1].leaf
                p == Cells(t.of[i + 1], v.list[2], mem)
                gap == Size(t) - 1 - Len(p.cells)
            IN [cells |-> <<Selector(t, i)>> \o [j \in 1 .. gap |-> 0] \o p.cells, mem |-> p.mem]
      [] t.k \in {"felt", "uint", "int", "bool", "u256", "unit"} ->
            [cells |-> Serialize[t][v], mem |-> mem]
      [] OTHER -> AllCells(Members(t), v.list, mem)
-----------------------------------------------------------------------------
\* event_decoder.rs: `at` is the index into the values.  A part that cannot be
\* decoded is left out of a tuple or a struct; the keys of a struct count the
\* type argument that names it, and so start at 1.  An enum has the name of its type
\* in place of its variant's (-1).
FirstKey == 1

RECURSIVE decode_event_datas(_, _, _)
\* As it would be if the parts of a value did not move the index.
EventPartsInPlace(ts, values, at) ==
    [all |-> \A i \in DOMAIN ts : decode_event_datas(ts[i], values, at).some, at |-> at,
     dvs |-> [i \in DOMAIN ts |-> decode_event_datas(ts[i], values, at).dv]]
EventParts(ts, values, at) ==
    FoldLeft(LAMBDA a, i : LET r == decode_event_datas(ts[i], values, a.at)
                           IN [all |-> a.all /\ r.some, at |-> r.at,
                               dvs |-> IF r.some THEN Append(a.dvs, [r.dv EXCEPT !.key = FirstKey + i - 1])
                                                 ELSE a.dvs],
             [all |-> TRUE, dvs |-> <<>>, at |-> at], [i \in DOMAIN ts |-> i])
decode_event_datas(t, values, at) ==
    CASE values = <<>> \/ t.k = "unit" -> Fails(at)
      [] t.k \in {"felt", "uint", "int", "bool", "array", "enum"} /\ at >= Len(values) -> Fails(at)
      [] t.k \in {"felt", "uint", "int"} ->
            Result(TRUE, create_decoded_value_by_type(t, Single(values[at + 1])), at + 1)
      [] t.k = "array" ->
            LET ps == EventParts(Copies(t.of[1], values[at + 1]), values, at + 1)
            IN IF ps.all THEN Result(TRUE, create_decoded_value_by_type(t, V("array", 0, Values(ps.dvs))), ps.at)
                         ELSE Fails(ps.at)
      [] t.k \in {"enum", "bool"} /\ values[at + 1] >= Len(t.of) -> Fails(at)
      [] t.k \in {"enum", "bool"} /\ t.of[values[at + 1] + 1].k = "unit" ->
            Result(TRUE, create_decoded_value_by_type(t, Single(values[at + 1])), at + 1)
      [] t.k = "enum" ->
            LET r == decode_event_datas(t.of[values[at + 1] + 1], values, at + 1)
            IN IF r.some THEN Result(TRUE, create_decoded_value_by_type(t, V("enum", -1, <<r.dv>>)), r.at) ELSE r
      [] OTHER ->
            LET ps == EventParts(t.of, values, at)
                items == IF t.k = "tuple" THEN Values(ps.dvs) ELSE ps.dvs
            IN IF ps.dvs = <<>> THEN Fails(ps.at)
               ELSE Result(TRUE, create_decoded_value_by_type(t,
                        V(IF t.k = "tuple" THEN "array" ELSE "struct", 0, items)), ps.at)
-----------------------------------------------------------------------------
\* internal_function_decoder.rs: `at` is the index into the cells of the value,
\* arrays are read from the memory.
VariantIndex(t, selector) ==
    IF Len(t.of) > 2 THEN Max({0, Len(t.of) - ((selector + 1) \div 2)}) ELSE selector

is_valid_relocated_memory_range(values, at, mem) ==
    /\ at + 2 <= Len(values)
    /\ values[at + 1] > 0
    /\ values[at + 2] >= values[at + 1]
    /\ values[at + 2] < Len(mem)
\* An empty range is read as one cell.
extract_memory_values(mem, start, end) ==
    IF end > start THEN SubSeq(mem, start + 1, end) ELSE <<mem[end + 1]>>

RECURSIVE decode_internal_datas(_, _, _, _)
MemoryParts(ts, values, at, mem) ==
    FoldLeft(LAMBDA a, t : LET r == decode_internal_datas(t, values, a.at, mem)
                           IN [at |-> r.at, dvs |-> IF r.some THEN Append(a.dvs, r.dv) ELSE a.dvs],
             [dvs |-> <<>>, at |-> at], ts)
\* One attempt per cell: those after the last element find nothing.
decode_array_elements_from_memory(t, cells, mem) ==
    FoldLeft(LAMBDA a, i :
                LET r == decode_internal_datas(t, SubSeq(cells, a.index + 1, Len(cells)), 0, mem)
                IN IF r.some THEN [vs |-> Append(a.vs, r.dv.value), index |-> a.index + r.at] ELSE a,
             [vs |-> <<>>, index |-> 0], cells).vs
decode_internal_datas(t, values, at, mem) ==
    CASE t.k = "unit" -> Fails(at)
      [] t.k \in {"felt", "uint", "int", "bool", "enum"} /\ at >= Len(values) -> Fails(at)
      [] t.k \in {"felt", "uint", "int"} ->
            Result(TRUE, create_decoded_value_by_type(t, Single(values[at + 1])), at + 1)
      [] t.k = "array" ->
            IF ~is_valid_relocated_memory_range(values, at, mem) THEN Fails(at)
            ELSE LET cells == extract_memory_values(mem, values[at + 1], values[at + 2])
                 IN IF Len(cells) > MaxArray THEN Fails(at)
                    ELSE Result(TRUE, create_decoded_value_by_type(t,
                        V("array", 0, decode_array_elements_from_memory(t.of[1], cells, mem))), at + 2)
      [] t.k \in {"enum", "bool"} ->
            LET i == VariantIndex(t, values[at + 1])
            IN IF i \notin 0 .. Len(t.of) - 1 THEN Fails(at)
               ELSE LET start == at + Size(t) - Size(t.of[i + 1])
                        r == decode_internal_datas(t.of[i + 1], values, start, mem)
                    IN IF t.k = "bool" THEN Result(TRUE, create_decoded_value_by_type(t, Single(i)), start)
                       ELSE IF t.of[i + 1].k = "unit" THEN Result(TRUE, Decoded(t, V("string", i, <<>>)), start)
                       ELSE IF r.some THEN Result(TRUE, Decoded(t, r.dv.value), r.at)
                       ELSE r
      [] OTHER ->
            LET ps == MemoryParts(t.of, values, at, mem)
            IN IF ps.dvs = <<>> THEN Fails(ps.at)
               ELSE Result(TRUE, create_decoded_value_by_type(t, V("struct", 0, Keyed(ps.dvs, 0))), ps.at)
=============================================================================
