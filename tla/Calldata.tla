------------------------------ MODULE Calldata ------------------------------
(***************************************************************************)
(* A client has the calldata of a transaction decoded                      *)
(* (server/src/handlers/calldata_decoder.rs), and sends the decoded calls  *)
(* back to be simulated (handlers/simulate.rs, calldata_encoder.rs).  Both *)
(* requests read the ABIs through a cache (abi_fetcher.rs) while contracts *)
(* are upgraded.                                                           *)
(***************************************************************************)
EXTENDS DataDecoder

CONSTANTS
    Contracts,      \* addresses
    Abis(_),        \* what the function of a contract may take: sequences of types
    Upgrades,       \* what it may take once the contract is upgraded
    None,           \* no ABI, or no calldata
    MaxCalls, MaxUpgrades, MaxFaults    \* bounds

VARIABLES
    abi,        \* the inputs of the function of each contract, on chain
    cache,      \* the ABIs in the cache
    tx,         \* history: the calls the client's calldata was written for
    calldata,   \* what the client sent to be decoded
    pc,
    shown,      \* the calls decoded so far, with the types they were decoded by
    fetched,    \* the ABIs the encoder has got
    sent,       \* the calldata that is simulated
    faults, upgrades
vars == <<abi, cache, tx, calldata, pc, shown, fetched, sent, faults, upgrades>>

Selector0 == 0
ArgsOf(ts) == {a \in [DOMAIN ts -> UNION {ValuesOf[ts[i]] : i \in DOMAIN ts}] :
                    \A i \in DOMAIN ts : a[i] \in ValuesOf[ts[i]]}
ArgsFelts(types, args) == Cat([i \in DOMAIN types |-> Serialize[types[i]][args[i]]])

\* Addresses are felts, and so is the length of any calldata, with a felt to spare.
ASSUME CallsAssumption ==
    /\ Contracts \subseteq Felts
    /\ MaxCalls \in 1 .. Prime - 1 /\ MaxUpgrades \in Nat /\ MaxFaults \in Nat
    /\ Upgrades \subseteq Seq(Types) /\ None \notin Upgrades
    /\ \A c \in Contracts : Abis(c) \subseteq Seq(Types) /\ None \notin Abis(c)
    /\ \A c \in Contracts : \A ts \in Abis(c) : \A a \in ArgsOf(ts) : Len(ArgsFelts(ts, a)) < Prime - 1

\* The calldata of an account: the number of calls, and for each its contract,
\* selector and arguments.
CallFelts(to, data) == <<to, Selector0, Len(data)>> \o data
Batch(calls, datas) == <<Len(calls)>> \o Cat([k \in DOMAIN calls |-> CallFelts(calls[k].to, datas[k])])
ArgsDatas(calls) == [k \in DOMAIN calls |-> ArgsFelts(calls[k].types, calls[k].args)]
Multicall(calls) == Batch(calls, ArgsDatas(calls))

Calls(on) == UNION {{[to |-> c, types |-> on[c], args |-> a] : a \in ArgsOf(on[c])} : c \in Contracts}
\* Whole, cut short, or with a felt too many.
Variations(raw) == {raw, SubSeq(raw, 1, Len(raw) - 1), Append(raw, 0)}
\* The last call has an argument too many.
Longer(calls) == Batch(calls, [ArgsDatas(calls) EXCEPT ![Len(calls)] = Append(@, 0)])

Init ==
    /\ abi \in [Contracts -> UNION {Abis(c) : c \in Contracts}]
    /\ \A c \in Contracts : abi[c] \in Abis(c)
    /\ \E n \in 1 .. MaxCalls : tx \in [1 .. n -> Calls(abi)]
    /\ calldata \in Variations(Multicall(tx)) \cup {Longer(tx)}
    /\ cache = [c \in Contracts |-> None]
    /\ pc = "decode"
    /\ shown = <<>> /\ fetched = <<>> /\ sent = None
    /\ faults = 0 /\ upgrades = 0
-----------------------------------------------------------------------------
\* A contract takes another class; an entry of the cache lapses.
Upgrade(c) ==
    /\ upgrades < MaxUpgrades
    /\ \E ts \in Upgrades \ {abi[c]} : abi' = [abi EXCEPT ![c] = ts]
    /\ upgrades' = upgrades + 1
    /\ UNCHANGED <<cache, tx, calldata, pc, shown, fetched, sent, faults>>
Lapse(c) ==
    /\ cache[c] # None
    /\ cache' = [cache EXCEPT ![c] = None]
    /\ UNCHANGED <<abi, tx, calldata, pc, shown, fetched, sent, faults, upgrades>>

fetch_contract_abi(c) == IF cache[c] # None THEN cache[c] ELSE abi[c]
Fetched(c) == cache' = [cache EXCEPT ![c] = fetch_contract_abi(c)] /\ UNCHANGED faults
FetchFails(c) == cache[c] = None /\ faults < MaxFaults /\ faults' = faults + 1 /\ UNCHANGED cache
-----------------------------------------------------------------------------
\* A call of which not all is there ends the list.
parse_multicall_calls(data) ==
    LET parsed[n \in 0 .. data[1]] ==
            IF n = 0 THEN [calls |-> <<>>, rest |-> Tail(data)]
            ELSE LET a == parsed[n - 1]
                     rest == a.rest
                 IN IF Len(rest) < 3 \/ Len(rest) < 3 + rest[3] THEN a
                    ELSE [calls |-> Append(a.calls, [to |-> rest[1], data |-> SubSeq(rest, 4, 3 + rest[3])]),
                          rest |-> SubSeq(rest, 4 + rest[3], Len(rest))]
    IN IF Len(data) < 3 THEN <<>> ELSE parsed[data[1]].calls

Parsed == parse_multicall_calls(calldata)
Next1 == Len(shown) + 1

\* decode_calldata_handler: call by call, and no answer unless all can be decoded.
DecodeCall ==
    /\ pc = "decode" /\ Next1 <= Len(Parsed)
    /\ LET call == Parsed[Next1]
           types == fetch_contract_abi(call.to)
           ps == decode_calldata(types, call.data)
       IN /\ Fetched(call.to)
          /\ shown' = IF ps.some THEN Append(shown, [to |-> call.to, types |-> types, params |-> ps.dvs])
                                 ELSE shown
          /\ pc' = IF ps.some THEN "decode" ELSE "undecoded"
    /\ UNCHANGED <<abi, tx, calldata, fetched, sent, upgrades>>
DecodeWithoutAbi ==
    /\ pc = "decode" /\ Next1 <= Len(Parsed)
    /\ FetchFails(Parsed[Next1].to)
    /\ pc' = "no_abi"
    /\ UNCHANGED <<abi, tx, calldata, shown, fetched, sent, upgrades>>
Show ==
    /\ pc = "decode" /\ Next1 > Len(Parsed)
    /\ pc' = "shown"
    /\ UNCHANGED <<abi, cache, tx, calldata, shown, fetched, sent, faults, upgrades>>
\* A text that is not a number is Invalid, and refused.
Invalid == Prime
parse_calldata(raw) ==
    IF \E i \in DOMAIN raw : raw[i] >= Prime THEN None ELSE [i \in DOMAIN raw |-> raw[i] % Prime]

\* The client may also simulate the calldata as it is.
Simulate ==
    /\ pc = "decode" /\ shown = <<>> /\ calldata = Multicall(tx)
    /\ sent' = parse_calldata(calldata) /\ pc' = "ran"
    /\ UNCHANGED <<abi, cache, tx, calldata, shown, fetched, faults, upgrades>>
-----------------------------------------------------------------------------
\* The client sends back what it was shown; a parameter that is an enum in the
\* form the encoder expects, with the name of the variant in its type.
HoldsEnum[v \in DecodedValues] ==
    v.kind = "enum" \/ \E i \in DOMAIN v.items : HoldsEnum[Item(v, i)]
SentTypes == Types \cup [k : {"variant"}, of : {<<>>}, n : Nat]
AsSent(dv) ==
    IF dv.value.kind = "enum"
    THEN [dv EXCEPT !.type = [Type("variant", <<>>) EXCEPT !.n = dv.value.num],
                    !.value = dv.value.items[1].value]
    ELSE dv
\* An enum inside a value does not survive the JSON.
IsReadable(calls) ==
    \A k \in DOMAIN calls : \A i \in DOMAIN calls[k].params : ~HoldsEnum[calls[k].params[i].value]
SendBack ==
    /\ pc = "shown"
    /\ LET calls == [k \in DOMAIN shown |->
                        [shown[k] EXCEPT !.params = [i \in DOMAIN @ |-> AsSent(@[i])]]]
       IN IF IsReadable(calls)
          THEN /\ shown' = calls /\ pc' = "fetch"
               /\ fetched' = [k \in DOMAIN shown |-> <<>>]
          ELSE /\ pc' = "unreadable" /\ UNCHANGED <<shown, fetched>>
    /\ UNCHANGED <<abi, cache, tx, calldata, sent, faults, upgrades>>

\* encode_decoded_calldata fetches all ABIs at once.
FetchAbi(k) ==
    /\ pc = "fetch" /\ fetched[k] = <<>>
    /\ LET c == shown[k].to
       IN \/ Fetched(c) /\ fetched' = [fetched EXCEPT ![k] = <<fetch_contract_abi(c)>>]
          \/ FetchFails(c) /\ fetched' = [fetched EXCEPT ![k] = <<None>>]
    /\ UNCHANGED <<abi, tx, calldata, pc, shown, sent, upgrades>>

\* As it would be without limbs.
OneLimb(t, n) == <<n>>
split_into_limbs(t, n) == IF t.k = "u256" THEN <<n % Word, n \div Word>> ELSE <<n>>
\* The items of an array have no types of their own.
ItemType(t, v, i) ==
    IF v.kind \in {"struct", "enum"} THEN v.items[i].type
    ELSE IF t.k = "array" THEN t.of[1]
    ELSE IF t.k = "tuple" /\ i \in DOMAIN t.of THEN t.of[i]
    ELSE Unknown
EncodeOf(t, v, items) ==
    CASE v.kind = "none" -> <<>>
      [] v.kind = "string" -> <<Invalid>>
      [] v.kind = "biguint" -> split_into_limbs(t, v.num)
      [] v.kind = "array" -> (IF t.k = "tuple" THEN <<>> ELSE <<Len(v.items)>>) \o Cat(items)
      [] v.kind = "struct" -> Cat(items)
      [] v.kind = "enum" -> <<v.num>> \o Cat(items)
      [] OTHER -> <<v.num>>
encode_decoded_value[p \in SentTypes \X DecodedValues] ==
    EncodeOf(p[1], p[2], [i \in DOMAIN p[2].items |->
        encode_decoded_value[<<ItemType(p[1], p[2], i), Item(p[2], i)>>]])

\* The elements of an array are written without its length.
encode_enum_variant(p) ==
    <<p.type.n>> \o
    CASE p.value.kind = "string" -> <<>>
      [] p.value.kind = "array" ->
            Cat([i \in DOMAIN p.value.items |-> encode_decoded_value[<<Unknown, p.value.items[i]>>]])
      [] OTHER -> encode_decoded_value[<<Unknown, p.value>>]

encode_parameters_with_abi(params, types) ==
    Cat([i \in DOMAIN params |->
            IF params[i].type.k = "variant" THEN encode_enum_variant(params[i])
            ELSE encode_decoded_value[<<IF i \in DOMAIN types THEN types[i] ELSE params[i].type,
                                        params[i].value>>]])
\* Without an ABI the parameters are in a HashMap, and come in any order.
encode_parameters_basic(params, order) ==
    Cat([i \in DOMAIN params |-> encode_decoded_value[<<params[order[i]].type, params[order[i]].value>>]])

Orders(n) == {p \in [1 .. n -> 1 .. n] : \A i, j \in 1 .. n : p[i] = p[j] => i = j}
EncodedCall(k, order) ==
    LET args == IF fetched[k][1] = None THEN encode_parameters_basic(shown[k].params, order)
                ELSE encode_parameters_with_abi(shown[k].params, fetched[k][1])
    IN <<shown[k].to, Selector0, Len(args)>> \o args
Encode ==
    /\ pc = "fetch" /\ \A k \in DOMAIN fetched : fetched[k] # <<>>
    /\ \E order \in [DOMAIN shown -> UNION {Orders(Len(shown[k].params)) : k \in DOMAIN shown}] :
        /\ \A k \in DOMAIN shown : order[k] \in Orders(Len(shown[k].params))
        /\ sent' = parse_calldata(<<Len(shown)>> \o Cat([k \in DOMAIN shown |-> EncodedCall(k, order[k])]))
    /\ pc' = IF sent' = None THEN "invalid" ELSE "simulated"
    /\ UNCHANGED <<abi, cache, tx, calldata, shown, fetched, faults, upgrades>>

Next ==
    \/ \E c \in Contracts : Upgrade(c) \/ Lapse(c)
    \/ DecodeCall \/ DecodeWithoutAbi \/ Show \/ Simulate
    \/ SendBack \/ Encode
    \/ \E k \in DOMAIN fetched : FetchAbi(k)
Spec == Init /\ [][Next]_vars
-----------------------------------------------------------------------------
TypeOK ==
    /\ \A c \in Contracts : abi[c] \in Abis(c) \cup Upgrades /\ cache[c] \in Abis(c) \cup Upgrades \cup {None}
    /\ pc \in {"decode", "undecoded", "no_abi", "shown", "unreadable", "fetch", "invalid", "simulated", "ran"}
    /\ Len(shown) <= Len(tx) /\ Len(fetched) \in {0, Len(shown)}
    /\ sent = None \/ \A i \in DOMAIN sent : sent[i] \in 0 .. Prime - 1
    /\ faults \in 0 .. MaxFaults /\ upgrades \in 0 .. MaxUpgrades

\* The calls that are shown are those of the calldata, up to where it is cut; and
\* as long as no contract takes another class they have the arguments that were written
\* (parse_multicall_calls, decode_calldata).
Cut == Len(calldata) < Len(Multicall(tx))
Displayed(call) ==
    [i \in DOMAIN call.types |-> Decoded(call.types[i], Display[call.types[i]][call.args[i]])]
ShownAsWritten ==
    /\ pc = "shown" => Len(shown) = Len(tx) - (IF Cut THEN 1 ELSE 0)
    /\ pc \in {"decode", "shown"} =>
        \A k \in DOMAIN shown :
            /\ shown[k].to = tx[k].to
            /\ upgrades = 0 =>
                /\ Parsed[k].data = ArgsDatas(tx)[k]
                /\ shown[k] = [to |-> tx[k].to, types |-> tx[k].types, params |-> Displayed(tx[k])]

\* Calldata is refused only if it is too long, a contract has taken another class, or
\* a type is not one that the decoder reads, as a tuple nested in another.
RefusedForAReason ==
    pc = "undecoded" =>
        LET k == Next1
        IN \/ Parsed[k].data # ArgsDatas(tx)[k]
           \/ upgrades > 0
           \/ \E i \in DOMAIN tx[k].types : ~Decodable[tx[k].types[i]]

\* Decoding: what is shown was written so, and what is refused had to be.
DecodedAsWritten == TypeOK /\ ShownAsWritten /\ RefusedForAReason

\* What is simulated is the calldata the client had decoded, if no contract takes
\* another class in between and no ABI is missing: limbs, lengths, variants and signs are put
\* back.  A call whose ABI is missing is put together in any order, and right only with
\* one parameter (calldata_encoder.rs).  Fixed arrays, enums inside values and large
\* payloads of enums are excepted: the encoder does not invert the decoder there.
PlainOf(t, parts) == t.k \notin {"fixed", "enum"} /\ \A i \in DOMAIN parts : parts[i]
IsPlain ==
    LET of[t \in Types] == PlainOf(t, [i \in DOMAIN t.of |-> of[t.of[i]]])
    IN [t \in Types |-> of[t]]
IsSmall(t) == t.k \in {"unit", "felt", "uint", "int", "bool"} \/ (t.k = "struct" /\ IsPlain[t])
Inverted(t) == IsPlain[t] \/ (t.k = "enum" /\ \A i \in DOMAIN t.of : IsSmall(t.of[i]))
Known(k) ==
    /\ \A i \in DOMAIN tx[k].types : Inverted(tx[k].types[i])
    /\ \/ fetched[k][1] # None
       \/ Len(tx[k].types) <= 1 /\ \A i \in DOMAIN tx[k].types : IsPlain[tx[k].types[i]]
EncodingRestores ==
    pc \in {"simulated", "invalid"} /\ upgrades = 0 /\ (\A k \in DOMAIN shown : Known(k))
        => sent = Multicall(SubSeq(tx, 1, Len(shown)))
=============================================================================
