------------------------------ MODULE MCExchange ------------------------------
(* Instances of Exchange for TLC: the jobs of each driver.                  *)
EXTENDS Exchange

\* A command with every optional part absent.
Bare(intent, target) ==
    [id |-> "c1", intent |-> intent, target |-> target, kind |-> None, payload |-> None,
     headers |-> <<>>, content_type |-> None, method |-> None, path |-> None,
     delivery |-> None, durable_name |-> None, shared_group |-> None,
     extensions |-> None, correlation |-> None]

Header(name, case, value) == [key |-> [name |-> name, case |-> case], value |-> value]
Val(type, v)              == [type |-> type, v |-> v]
Entry(key, value)         == [key |-> key, value |-> value]
Capture(protocol, headers, entries) == [protocol |-> protocol, headers |-> headers, entries |-> entries]
UpTo2(S) == {<<>>} \cup {<<a>> : a \in S} \cup {<<a, b>> : a \in S, b \in S}

H1    == Header("h1", "Canonical", "x")
OldH1 == Header("h1", "Lower", "y")
Typed == Header("content-type", "Lower", "json")
HeaderSeqs == {<<>>, <<H1>>, <<H1, OldH1>>, <<OldH1, H1>>, <<Typed, H1>>}

-----------------------------------------------------------------------------
MCHttpResource ==
    ("r1" :> [method |-> "GET", slug |-> "/a", headers |-> None]) @@
    ("r2" :> [method |-> "POST", slug |-> "/b",
              headers |-> <<Header("h1", "Lower", "z"), Header("h1", "Canonical", "w")>>])

Response(status, length, type, body) ==
    [status |-> status, head |-> 2, length |-> length, body |-> body,
     headers |-> IF type = None THEN <<>> ELSE <<Header("content-type", "Lower", type)>>]

HttpJob(c, response, sent) == [driver |-> "HTTP", command |-> c, response |-> response, sent |-> sent]

HttpEntries ==
    {Entry("path", Val("Str", "/p")), Entry("path", Val("Str", "/q")), Entry("path", Val("U64", 1)),
     Entry("method", Val("Str", "PUT")), Entry("status_code", Val("U64", U16Max + 1)),
     Entry("content_type", Val("Str", "text")), Entry("topic", Val("Str", "t"))}
HttpCaptures ==
    {None, Capture("MQTT", None, <<>>)} \cup
    {Capture("HTTP", h, es) : h \in {None, <<Header("h1", "Lower", "k"), Header("h2", "Lower", "l")>>},
                              es \in UpTo2(HttpEntries)}
HttpPlanning ==
    {[Bare(i, t) EXCEPT !.extensions = e, !.headers = h, !.path = p, !.content_type = ct,
                        !.payload = IF i = "Read" THEN None ELSE Val("Bytes", <<1>>)] :
        i \in {"Invoke"}, t \in {"r1", "r2"}, e \in HttpCaptures, h \in HeaderSeqs,
        p \in {None, "/o"}, ct \in {None, "text"}}
HttpCalls ==
    {[Bare(i, t) EXCEPT !.payload = p, !.method = m] :
        i \in {"Read", "Write", "Invoke", "Send"}, t \in {"r1", "r2", "r3"}, m \in {None, "PUT"},
        p \in {Val("Bytes", <<1>>), Val("String", <<1>>), Val("Null", <<>>), Val("U64", <<1>>)}}
Responses ==
    {Response(s, l, t, b) : s \in {200, 404, None}, l \in {None, 0, 1, 2, 3}, t \in {None, "text", "json"},
                            b \in {<<>>, <<1>>, <<1, 0>>, <<1, 0, 1>>}}

MCHttpJobs ==
    {HttpJob(c, Response(200, 0, None, <<>>), 0) : c \in HttpPlanning \cup HttpCalls}
    \cup UNION {{HttpJob(c, r, n) : n \in 0..ResponseSize(r)} :
                   c \in {Bare("Read", "r1"), [Bare("Read", "r1") EXCEPT !.correlation =
                            [request_id |-> "k1", reply_to |-> None]]}, r \in Responses}

-----------------------------------------------------------------------------
MqttJob(c, version) == [driver |-> "MQTT", command |-> c, version |-> version]

MCUnbuildable ==
    [topic_alias |-> {0}, response_topic |-> {"t/#"}, subscription_identifier |-> {0},
     filter |-> {<<None, "t#">>, <<"g", "t#">>}, user_properties |-> {<<H1, OldH1, Header("h1", "Lower", "k")>>}]
MqttEntries ==
    {Entry("topic_alias", Val("U64", 0)), Entry("topic_alias", Val("U64", 1)), Entry("topic_alias", Val("U64", 2)),
     Entry("topic_alias", Val("U64", U16Max + 1)), Entry("topic_alias", Val("Str", "1")),
     Entry("correlation_data", Val("Bytes", <<7>>)), Entry("response_topic", Val("Str", "t2")),
     Entry("response_topic", Val("Str", "t/#")), Entry("subscription_identifiers", Val("U64List", <<0, 1>>)),
     Entry("content_type", Val("Str", "json")), Entry("message_expiry_interval_secs", Val("U64", 3)),
     Entry("payload_format", Val("Str", "utf8")), Entry("payload_format", Val("Str", "other")),
     Entry("retain", Val("Bool", TRUE)), Entry("no_local", Val("Bool", TRUE)),
     Entry("retain_handling", Val("U64", 1)), Entry("durable_name", Val("Str", "d")),
     Entry("subscription_identifiers", Val("U64List", <<1, 2>>)),
     Entry("subscription_identifiers", Val("U64List", <<1, U32Max + 1>>)), Entry("x", Val("Str", "y"))}
MqttCaptures ==
    {None, Capture("HTTP", None, <<>>), Capture("MQTT", <<>>, <<>>)} \cup
    {Capture("MQTT", h, es) : h \in {None, <<Header("h1", "Lower", "k")>>}, es \in UpTo2(MqttEntries)}
Correlations ==
    {None} \cup {[request_id |-> "k1", reply_to |-> r] :
                    r \in {[kind |-> "Channel", name |-> "t3"], [kind |-> "Resource", name |-> "r1"]}}
MqttPlanning ==
    {[Bare(i, "t1") EXCEPT !.extensions = e, !.correlation = k, !.payload = Val("Bytes", <<1>>)] :
        i \in {"Send", "Subscribe"}, e \in MqttCaptures, k \in Correlations}
MqttCalls ==
    {[Bare(i, t) EXCEPT !.kind = k, !.delivery = d, !.durable_name = n, !.shared_group = g, !.headers = h,
                        !.payload = p] :
        i \in MessagingIntents \cup {"Read"}, t \in {"t1", "t/#", "t#"}, k \in {None, "Topic", "Queue"},
        d \in {None, "AtLeastOnce", "ExactlyOnce"}, n \in {None, "d"}, g \in {None, "g"},
        h \in {<<>>, <<H1, OldH1>>},
        p \in {Val("Bytes", <<1>>), Val("Null", <<>>), Val("U64", <<1>>)}}

MCMqttJobs == {MqttJob(c, v) : c \in MqttPlanning \cup MqttCalls, v \in {"v3", "v5"}}

-----------------------------------------------------------------------------
MCZenohJobs ==
    {[driver |-> "Zenoh", command |-> [Bare(i, t) EXCEPT !.kind = k, !.payload = p]] :
        i \in RequestIntents \cup MessagingIntents, t \in {"t1", "queryable"}, k \in {None, "Topic", "Queue"},
        p \in {Val("Bytes", <<1>>), Val("String", <<1>>), Val("Null", <<>>), Val("U64", <<1>>), Val("Map", "t1")}}

-----------------------------------------------------------------------------
Kinds == {"Coil", "DiscreteInput", "HoldingRegister", "InputRegister"}
MCModbusResource ==
    [r \in Kinds \X Codecs \X {None, 0, 2, 4} |-> [kind |-> r[1], codec |-> r[2], quantity |-> r[3]]]
MCFrameLimit == [Tcp |-> 17, Udp |-> 17, Rtu |-> 13, Ascii |-> 27]

\* Floats of four bits: sign, two of exponent, one of mantissa; the magnitudes are 0, 1,
\* 2, 3, 4, 6, infinity and NaN.  Rounded to nearest, ties to even: 5 to 4, 7 to infinity.
MinusZero == 100
Infinity  == 101
NaN       == 102
TwoAndABit == 103
MCAsF32 ==
    [n \in -9..16 \cup {MinusZero, Infinity, -Infinity, NaN, TwoAndABit} |->
        LET size == IF n < 0 THEN -n ELSE n
            sign == IF n < 0 \/ n = MinusZero THEN 8 ELSE 0
        IN  sign + CASE size = MinusZero  -> 0
                     [] size = NaN        -> 7
                     [] size = TwoAndABit -> 2
                     [] size <= 4         -> size
                     [] size \in {5, 6}  -> size - 1
                     [] OTHER             -> 6]
MCAsF64 ==
    [b \in 0..15 |->
        LET size == b % 8
            magnitude == CASE size = 6 -> Infinity [] size = 5 -> 6 [] OTHER -> size
        IN  IF size = 7 THEN NaN ELSE IF b = 8 THEN MinusZero
            ELSE IF b > 8 THEN -magnitude ELSE magnitude]

List(of, v) == [type |-> "List", of |-> of, v |-> v]
Payloads ==
    {Val("Bool", <<b>>) : b \in {0, 1}} \cup {List("Bool", <<1, 0>>), List("Bool", <<0, 1, 1, 0>>)}
    \cup {Val("I64", <<n>>) : n \in {-9, -8, -6, -1, 0, 2, 7, 8}}
    \cup {Val("U64", <<n>>) : n \in {0, 1, 3, 4, 6, 11, 15, 16}}
    \cup {Val("F64", <<n>>) : n \in {3, 5, -7, MinusZero, Infinity, NaN, TwoAndABit}}
    \cup {List("I64", <<-6, 3>>), List("U64", <<6, 9>>), List("U64", <<1, 2>>), List("F64", <<-6, TwoAndABit>>)}
    \cup {Val(t, v) : t \in {"Bytes", "String"}, v \in {<<1, 1>>, <<0, 1>>, <<1, 0, 0, 1>>}}
    \cup {Val("Null", <<>>)}

KindOf(codec) == IF codec \in BitCodecs THEN "Coil" ELSE "HoldingRegister"

\* The payloads a codec may have written.
Stored(codec) == {p \in Payloads : ModbusWrite([kind |-> KindOf(codec), codec |-> codec], p).ok}

ModbusJob(c, proto, stored, fault, lost, extra) ==
    [driver |-> "Modbus", command |-> c, proto |-> proto, stored |-> stored, fault |-> fault,
     lost |-> lost, extra |-> extra]
Protos == {"Tcp", "Udp", "Rtu", "Ascii"}

\* What the device and the line do: [fault, lost, extra].
Lines == [fault : {None}, lost : {0}, extra : {0, 2}] \cup [fault : {None}, lost : {1, 2, 3, 5, 30}, extra : {0}]
         \cup [fault : {1, 2}, lost : {0, 1}, extra : {0}]

\* ... and answers with data in them, cut after each of their bytes.
Cuts == 1..Max({FrameLimit[p] : p \in Protos})
Sample(codec) == CHOOSE p \in Stored(codec) : \E i \in DOMAIN p.v : p.v[i] # 0

MCModbusJobs ==
    {ModbusJob(Bare(i, r), p, None, None, 0, 0) :
        i \in {"Read", "Invoke"}, r \in DOMAIN MCModbusResource \cup {<<"Coil", "Bool", 7>>}, p \in {"Tcp", "Rtu"}}
    \cup {ModbusJob([Bare("Write", r) EXCEPT !.payload = v], p, None, n.fault, n.lost, n.extra) :
        r \in (Kinds \ {"DiscreteInput"}) \X Codecs \X {None}, v \in Payloads \cup {None}, p \in {"Tcp"},
        n \in {m \in Lines : m.lost + m.extra < 2 /\ m.fault # 2}}
    \cup UNION {{ModbusJob(Bare("Read", <<KindOf(codec), codec, q>>), p, s, n.fault, n.lost, n.extra) :
                   q \in {None, 4}, s \in Stored(codec), p \in Protos, n \in Lines} : codec \in Codecs}
    \cup {ModbusJob(Bare("Read", <<KindOf(codec), codec, 4>>), p, Sample(codec), None, n, 0) :
        codec \in Codecs, p \in Protos, n \in Cuts}

MCOutages == {[driver |-> "outage", config |-> c] : c \in Configs}
=============================================================================
