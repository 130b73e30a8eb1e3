------------------------------ MODULE Exchange ------------------------------
(***************************************************************************)
(* One command through a driver: it is planned natively or through the     *)
(* bridge, encoded, sent, and what the peer sends back is read in pieces,  *)
(* framed, decoded and put into a result.  Composes the operators of       *)
(* Bridge and of the four drivers' conversions with the read loops of      *)
(* HTTP (handler.rs, send_request) and Modbus (transport.rs); MQTT and     *)
(* Zenoh requests are handed to the session (MqttSession, ZenohDriver).    *)
(* A job is a command with what the peer does; an outage is a job of the   *)
(* reconnect policies.  Retries and timeouts of Modbus: ModbusTransport.   *)
(***************************************************************************)
EXTENDS HttpConvert, MqttConvert, ZenohConvert, ModbusConvert, Backoff

CONSTANTS
    HttpJobs,   \* [driver, command, response, sent]
    MqttJobs,   \* [driver, command, version]
    ZenohJobs,  \* [driver, command]
    ModbusJobs, \* [driver, command, proto, stored, fault, lost, extra]
    Outages,    \* [driver, config]
    MaxAttempt, \* bound: attempts of one outage
    BufferSize  \* the most bytes one read returns

\* The headers in the capture of a command.
CapturedHeaders(c) == IF c.extensions = None THEN <<>> ELSE Or(c.extensions.headers, <<>>)

\* The first entry under each key.
FirstOnly(entries) ==
    FoldLeft(LAMBDA es, e : IF \E i \in DOMAIN es : es[i].key = e.key THEN es ELSE Append(es, e),
             <<>>, entries)

CommandFields ==
    {"id", "intent", "target", "kind", "payload", "headers", "content_type", "method", "path",
     "delivery", "durable_name", "shared_group", "extensions", "correlation"}

IsList(s) == s \in Seq(ToSet(s))

\* A capture, without its headers or its later entries.
CaptureVariants(e) ==
    {[protocol |-> e.protocol, headers |-> h, entries |-> es] :
        h \in {None, e.headers}, es \in {e.entries, FirstOnly(e.entries)}}

\* A command and its capture have their parts, entries and headers are lists, None is
\* neither a capture, a list nor a correlation, and a Send has a payload.
WellFormed(c) ==
    /\ DOMAIN c = CommandFields
    /\ c.extensions # None => /\ DOMAIN c.extensions = {"protocol", "headers", "entries"}
                              /\ IsList(c.extensions.entries)
                              /\ None \notin CaptureVariants(c.extensions)
    /\ IsList(c.headers) /\ IsList(CapturedHeaders(c))
    /\ None \notin {c.headers \o CapturedHeaders(c), CapturedHeaders(c)}
    /\ c.intent = "Send" => c.payload # None
    /\ CorrelationFor(c) # None

\* The server sends its response or the beginning of it; a status that parses fits
\* its field, and None is no capture of a result.
AnswersHttp(j) ==
    /\ j.response.status # None =>
         /\ j.response.status \in 0..U16Max
         /\ HttpResult(j.command, j.response).transport # None
    /\ j.response.head \in Nat /\ j.response.length \in Nat \cup {None}
    /\ j.response.body \in Seq(Nat) /\ j.sent \in 0..ResponseSize(j.response)

\* What a payload for a codec is made of: bytes, numbers with an f32 next to them, or integers.
CodecValues(codec) ==
    IF codec \in RawCodecs THEN 0..(Base - 1) ELSE IF codec \in FloatCodecs THEN DOMAIN AsF32 ELSE Int

\* What a read of resource r returns fits one frame, and so does an acknowledgement.
AnswerFits(proto, r) ==
    LET read == ModbusRead(r)
        data == 1..(IF r.kind \in {"Coil", "DiscreteInput"} THEN read.value ELSE 2 * read.value)
    IN  /\ WireSize(proto, [kind |-> "ack"]) <= FrameLimit[proto]
        /\ read.ok => WireSize(proto, [kind |-> "data", bytes |-> [i \in data |-> 0]]) <= FrameLimit[proto]

\* The device answers, or reports a fault: a code, and nothing more in a datagram.  What
\* it holds was written to the resource.
AnswersModbus(j) ==
    /\ j.proto \in {"Tcp", "Udp", "Rtu", "Ascii"} /\ j.proto \in DOMAIN FrameLimit
    /\ j.fault \in (Nat \ {0}) \cup {None} /\ j.lost \in Nat /\ j.extra \in Nat
    /\ j.fault # None /\ j.proto = "Udp" => j.extra = 0
    /\ j.command.target \in DOMAIN ModbusResource =>
         LET r == ModbusResource[j.command.target] IN
         /\ r.codec \in Codecs /\ r.quantity \in Nat \cup {None} /\ AnswerFits(j.proto, r)
         /\ j.stored # None => ModbusWrite(r, j.stored).ok /\ j.stored.v \in Seq(CodecValues(r.codec))

ASSUME ExchangeAssumptions ==
    /\ MaxAttempt \in Nat \ {0} /\ BufferSize \in Nat \ {0}
    /\ \A r \in DOMAIN HttpResource : IsList(Or(HttpResource[r].headers, <<>>))
    /\ \A j \in HttpJobs   : j.driver = "HTTP" /\ WellFormed(j.command) /\ AnswersHttp(j)
                             /\ DOMAIN j = {"driver", "command", "response", "sent"}
    /\ \A j \in MqttJobs   : j.driver = "MQTT" /\ WellFormed(j.command)
                             /\ DOMAIN j = {"driver", "command", "version"}
    /\ \A j \in ZenohJobs  : j.driver = "Zenoh" /\ WellFormed(j.command)
                             /\ DOMAIN j = {"driver", "command"}
    /\ \A j \in ModbusJobs : j.driver = "Modbus" /\ WellFormed(j.command) /\ AnswersModbus(j)
                             /\ DOMAIN j = {"driver", "command", "proto", "stored", "fault", "lost", "extra"}
    /\ \A j \in Outages    : j.driver = "outage" /\ j.config \in Configs

VARIABLES
    job,      \* the command and its peer; never changes
    path,     \* "native" or "bridge" once planned
    stage,    \* "command", "planned", "reading", "done"
    request,  \* what the planner and encoder returned
    received, \* bytes read so far
    outcome,  \* the result, or the error
    attempt   \* of an outage
vars == <<job, path, stage, request, received, outcome, attempt>>

-----------------------------------------------------------------------------
(* The request.                                                            *)

RequestOn(p, j) ==
    LET c == j.command IN
    CASE j.driver = "HTTP"   -> IF p = "native" THEN HttpNativeRequest(c) ELSE HttpBridgeRequest(c)
      [] j.driver = "MQTT"   -> IF p = "native" THEN MqttNativeRequest(c, j.version)
                                ELSE MqttBridgeRequest(c, j.version)
      [] j.driver = "Zenoh"  -> IF p = "native" THEN ZenohNativeRequest(c) ELSE ZenohBridgeRequest(c)
      [] j.driver = "Modbus" -> IF p = "native" THEN ModbusNativeRequest(c) ELSE ModbusBridgeRequest(c)

-----------------------------------------------------------------------------
(* The peers (external).                                                   *)

\* A Modbus device that holds what the write of job.stored stored, or reports a fault.
DeviceAnswer ==
    LET resource == ModbusResource[job.command.target]
        written  == IF job.stored = None THEN Ok(<<>>) ELSE ModbusWrite(resource, job.stored)
        held     == IF written.ok THEN written.value ELSE <<>>
        units    == IF request.value.is_write THEN <<>>
                    ELSE [i \in 1..request.value.quantity |-> IF i <= Len(held) THEN held[i] ELSE 0]
    IN  [kind  |-> IF job.fault # None THEN "exception"
                   ELSE IF request.value.is_write THEN "ack" ELSE "data",
         code  |-> job.fault, mbap |-> TRUE, units |-> units,
         bytes |-> IF resource.kind \in {"Coil", "DiscreteInput"} THEN units ELSE Unpack(units)]

AnswerSize == IF job.driver = "HTTP" THEN ResponseSize(job.response) ELSE WireSize(job.proto, DeviceAnswer)

\* The bytes the peer sends before it closes or falls silent.
Sent == IF job.driver = "HTTP" THEN job.sent
        ELSE IF job.lost > 0 THEN Greatest(AnswerSize - job.lost, 0)
        ELSE AnswerSize + job.extra

-----------------------------------------------------------------------------
(* Operations.                                                             *)

Init ==
    /\ \/ job \in HttpJobs \/ job \in MqttJobs \/ job \in ZenohJobs
       \/ job \in ModbusJobs \/ job \in Outages
    /\ path = None /\ request = None /\ outcome = None
    /\ stage = "command" /\ received = 0 /\ attempt = 1

End(o) == stage' = "done" /\ outcome' = o

\* Both outbound paths.
Plan(p) ==
    /\ stage = "command" /\ job.driver # "outage"
    /\ path' = p
    /\ request' = RequestOn(p, job)
    /\ IF ~request'.ok THEN End(request')
       ELSE IF job.driver \in {"HTTP", "Modbus"} THEN stage' = "planned" /\ UNCHANGED outcome
       ELSE End(None)
    /\ UNCHANGED <<job, received, attempt>>

\* Connecting, writing and flushing.
Send ==
    /\ stage = "planned" /\ stage' = "reading"
    /\ UNCHANGED <<job, path, request, received, outcome, attempt>>

SendFails ==
    /\ stage = "planned" /\ End(Err("failed to send"))
    /\ UNCHANGED <<job, path, request, received, attempt>>

\* What is made of n bytes once the read loop has ended.
Decoded(n) ==
    IF job.driver = "HTTP"
    THEN Then(ParseResponse(job.response, n), LAMBDA r : Ok(HttpResult(job.command, r)))
    ELSE LET frame == TrimFrame(job.proto, DeviceAnswer, n) IN
         Then(ModbusDecode(job.proto, request.value.decoder, DeviceAnswer, frame),
              LAMBDA p : Ok(ModbusResult(job.command, p)))

IsDatagram == job.driver = "Modbus" /\ job.proto = "Udp"
IsFramed   == job.driver = "Modbus" /\ job.proto # "Udp"

\* One round of the loop of read_stream_response_socket, read_stream_response_serial
\* or send_request.
ReadSome(k) ==
    /\ stage = "reading" /\ ~IsDatagram
    /\ received + k <= Sent
    /\ IF IsFramed /\ received + k > FrameLimit[job.proto]
       THEN End(Err("frame exceeded")) /\ UNCHANGED received
       ELSE /\ received' = received + k
            /\ IF IsFramed /\ FrameComplete(job.proto, DeviceAnswer, received')
               THEN End(Decoded(received')) ELSE UNCHANGED <<stage, outcome>>
    /\ UNCHANGED <<job, path, request, attempt>>

\* A read of no bytes, or a closed connection: an answer of nothing is an error of
\* the Modbus reader, the rest is decoded as far as it came.
ReadEnd ==
    /\ stage = "reading" /\ ~IsDatagram
    /\ received = Sent
    /\ End(IF IsFramed /\ received = 0 THEN Err("failed to read: Closed") ELSE Decoded(received))
    /\ UNCHANGED <<job, path, request, received, attempt>>

\* read_datagram_response: one datagram, cut at the size of the buffer.
ReadDatagram ==
    /\ stage = "reading" /\ IsDatagram
    /\ received' = Least(Sent, FrameLimit["Udp"])
    /\ End(Decoded(received'))
    /\ UNCHANGED <<job, path, request, attempt>>

ReadFails ==
    /\ stage = "reading" /\ End(Err("failed to read"))
    /\ UNCHANGED <<job, path, request, received, attempt>>

\* The next attempt of the same outage.
Retry ==
    /\ job.driver = "outage" /\ attempt < MaxAttempt /\ attempt' = attempt + 1
    /\ UNCHANGED <<job, path, stage, request, received, outcome>>

Next ==
    \/ \E p \in {"native", "bridge"} : Plan(p)
    \/ Send
    \/ SendFails
    \/ \E k \in 1..BufferSize : ReadSome(k)
    \/ ReadEnd
    \/ ReadDatagram
    \/ ReadFails
    \/ Retry

Spec == Init /\ [][Next]_vars

-----------------------------------------------------------------------------
(* Properties.                                                             *)

Accepted == request # None /\ request.ok
Answered == stage = "done" /\ outcome # None /\ outcome.ok

\* "accept and reject identically": planning a command through the bridge accepts
\* what the native planner accepts and builds the same request.  Zenoh's two paths
\* accept different commands; what both accept they encode alike.
PathsAgree ==
    request # None =>
        LET other == RequestOn(IF path = "native" THEN "bridge" ELSE "native", job) IN
        /\ job.driver # "Zenoh" => request.ok = other.ok
        /\ request.ok /\ other.ok => request.value = other.value

\* "first occurrence wins on every path": a later entry under a key of a capture,
\* well formed or not, changes neither the request nor whether there is one.
FirstOccurrenceWins ==
    request # None /\ job.command.extensions # None =>
        request = RequestOn(path, [job EXCEPT !.command.extensions.entries = FirstOnly(@)])

\* The headers a command plans, in order: its options', then its capture's.
PlannedHeaders ==
    LET c == job.command IN
    CASE c.intent = "Subscribe"   -> CapturedHeaders(c)
      [] c.intent = "Unsubscribe" -> <<>>
      [] OTHER                    -> c.headers \o CapturedHeaders(c)
HttpContentType ==
    LET c == job.command IN Or(c.content_type, HttpView(c.extensions).value.fields.content_type)
Named(headers, n) == {i \in DOMAIN headers : headers[i].key.name = n}

\* No header is lost, reordered or sent twice on the way: an MQTT 5 packet carries the
\* planned ones as its user properties; an HTTP request carries the last value
\* planned under each name, whatever its case, once (or as often as the resource).
HeadersSurvive ==
    Accepted =>
        CASE job.driver = "MQTT" /\ job.version = "v5" /\ job.command.intent # "Unsubscribe" ->
               request.value.props.user_properties = PlannedHeaders
          [] job.driver = "HTTP" ->
               \A i \in DOMAIN PlannedHeaders :
                  LET n     == PlannedHeaders[i].key.name
                      own   == Or(HttpResource[job.command.target].headers, <<>>)
                      typed == n = "content-type" /\ HttpContentType # None
                  IN  /\ Cardinality(Named(request.value.headers, n)) =
                             Greatest(1, Cardinality(Named(own, n)))
                      /\ HeaderValue(request.value.headers, n) =
                             IF typed THEN HttpContentType
                             ELSE PlannedHeaders[Max(Named(PlannedHeaders, n))].value
          [] OTHER -> TRUE

\* A command accepted for MQTT 3.1.1 is sent whole: the MQTT 5 packet of the same
\* command would carry no property that the 3.1.1 packet leaves out.
V3LosesNothing ==
    job.driver = "MQTT" /\ Accepted =>
        (job.version = "v3" /\ job.command.intent # "Unsubscribe" =>
            LET v5 == RequestOn(path, [job EXCEPT !.version = "v5"]) IN
            /\ v5.ok
            /\ [v5.value.packet EXCEPT !.version = "v3"] = request.value.packet
            /\ \A f \in DOMAIN v5.value.props : v5.value.props[f] \in {None, <<>>})

\* The raw decoders take the code of an exception on a serial line for the size of
\* the data, and the checksum for the data.
UncheckedException ==
    job.fault # None /\ job.proto \in {"Rtu", "Ascii"} /\ request.value.decoder \in RawCodecs

\* An answer cut short by the peer, wherever, is never taken for a whole one: the
\* body of an HTTP result has the length declared, and a Modbus result is what the
\* whole frame says, with no exception taken for an answer (UncheckedException apart).
WholeAnswer ==
    Answered =>
        IF job.driver = "HTTP"
        THEN Len(outcome.value.payload.v) >= IF job.response.length = None THEN 0 ELSE job.response.length
        ELSE \/ UncheckedException
             \/ /\ job.fault = None
                /\ outcome.value.payload = IF request.value.is_write THEN [type |-> "Null", v |-> <<>>]
                                           ELSE DecodeValue(request.value.decoder, DeviceAnswer.units)

\* The read loop has to fail: the peer reports a fault, sends too little, or sends so
\* much in one piece that the frame limit is passed.
MayFail ==
    \/ job.fault # None \/ job.lost > 0
    \/ job.extra > 0 /\ (Sent > FrameLimit[job.proto] \/ IsDatagram)

\* What the registers of a codec keep of a number: of a float, the nearest f32.
Kept(codec, n) == IF codec \in FloatCodecs THEN AsF64[AsF32[n]] ELSE n

\* However the bytes of an answer are split and whatever follows them, a Modbus
\* answer that arrives is decoded, and reading a register back yields what was
\* written to it, in every width, sign and byte order; of a float, whether it was
\* given as F64, I64 or U64, the number rounded to single precision once.
ReadsBackWrites ==
    stage = "done" /\ job.driver = "Modbus" /\ Accepted =>
        \/ ~outcome.ok /\ (MayFail \/ outcome.error \in {"failed to send", "failed to read"})
        \/ outcome.ok /\ (job.stored = None \/ request.value.is_write \/ job.fault # None)
        \/ outcome.ok /\ \A i \in DOMAIN outcome.value.payload.v :
               outcome.value.payload.v[i] =
                   Kept(request.value.decoder, IF i <= Len(job.stored.v) THEN job.stored.v[i] ELSE 0)

\* An HTTP result loses nothing in the bridge envelope: a refusal of the server is a
\* failure that keeps its body and cause and is not retried, and capture and headers
\* put together again are what the driver captured.
ResultsSurviveBridge ==
    Answered /\ job.driver = "HTTP" =>
        LET r == outcome.value
            b == RoutedResultToBridge(r)
        IN  /\ b.outcome = IF job.response.status < 400 THEN "Success" ELSE "Failure"
            /\ b.payload = r.payload /\ b.error = r.error /\ ~b.retryable
            /\ b.correlation # None /\ b.command_id = job.command.id
            /\ [b.transport EXCEPT !.headers = b.headers] = r.transport
            /\ HttpView(r.transport).value.fields.status_code = job.response.status

\* The provers know nothing of ^ but this.
ASSUME Powers == \A b \in 1..Limit, n \in 0..MaxAttempt : b^0 = 1 /\ b^(n + 1) = b^n * b

\* What "multiply the delay by `multiplier` for each later attempt" computes,
\* without loop, overflow or early exit.
Exponential(c, cap, n) == Least(Greatest(c.initial, 1) * Greatest(c.multiplier, 1)^(n - 1), cap)

\* "Multiply the delay by `multiplier` for each later attempt, capped by
\* `max_delay_ms`" (BackoffStrategy; the Modbus cap "falls back to `initial_delay`
\* when omitted"): from the second attempt on, the saturating loops of both policies
\* compute exactly that, for zero delays, caps and multipliers too, Modbus in whole
\* milliseconds and no more of them than a Duration is made from.
DelaysAreExponential ==
    job.driver = "outage" /\ attempt > 1 =>
        LET c == job.config IN
        c.strategy = "Exponential" =>
            /\ c.max # None => BrokerDelay(c, attempt) = Exponential(c, c.max, attempt)
            /\ LET ms  == [c EXCEPT !.initial = AsMillis(@)]
                   cap == Greatest(AsMillis(Or(c.max, c.initial)), 1)
               IN  ModbusDelay(c, attempt) = Ticks * Least(Exponential(ms, cap, attempt), MillisMax)

\* The delays of one outage never become shorter from attempt to attempt under
\* the broker policy, whatever the order of initial_delay_ms and max_delay_ms.
BrokerRises ==
    [][job.driver = "outage" /\ job.config.max # None
         => BrokerDelay(job.config, attempt') >= BrokerDelay(job.config, attempt)]_vars
=============================================================================
