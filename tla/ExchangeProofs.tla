--------------------------- MODULE ExchangeProofs ---------------------------
(***************************************************************************)
(* Proofs about Exchange: for every command, capture, resource and reading *)
(* of an answer.                                                           *)
(***************************************************************************)
EXTENDS Exchange, WellFoundedInduction, TLAPS

-----------------------------------------------------------------------------
(* Captures.                                                               *)

\* DecodeView by the parts of the capture.
DecodeParts(protocol, schema, from, headers, entries) ==
    LET firsts   == FirstEntries(entries)
        known    == {i \in firsts : entries[i].key \in DOMAIN schema}
        Bad(i)   == LET e == entries[i] IN
                    ~WellTyped(schema[e.key], e.value) \/ ~Fits(schema[e.key], e.value)
        bad      == {i \in known : Bad(i)}
        first    == entries[Min(bad)]
        Found(k) == {i \in known : entries[i].key = k}
    IN  IF from # protocol THEN Err("ForeignExtensions")
        ELSE IF bad # {}
             THEN Err(IF WellTyped(schema[first.key], first.value)
                      THEN "InvalidExtensionValue" ELSE "InvalidExtensionType")
        ELSE Ok([headers |-> headers,
                 fields  |-> [k \in DOMAIN schema |->
                                IF Found(k) = {} THEN schema[k].default
                                ELSE entries[CHOOSE i \in Found(k) : TRUE].value.v]])

\* The parts are all that the view looks at.
LEMMA ViewByParts ==
    ASSUME NEW protocol, NEW schema, NEW meta
    PROVE  DecodeView(protocol, schema, meta)
             = DecodeParts(protocol, schema, meta.protocol, meta.headers, meta.entries)
  BY DEF DecodeView, DecodeParts

\* Headers decide neither whether a capture is decoded nor its fields.
LEMMA HeadersApart ==
    ASSUME NEW protocol, NEW schema, NEW from, NEW h, NEW g, NEW entries
    PROVE  LET a == DecodeParts(protocol, schema, from, h, entries)
               b == DecodeParts(protocol, schema, from, g, entries)
           IN  /\ a.ok \in BOOLEAN /\ a.ok = b.ok /\ (~a.ok => a = b)
               /\ a.ok => a.value.headers = h /\ b.value.headers = g /\ a.value.fields = b.value.fields
  BY DEF DecodeParts, Ok, Err

\* A list is the same with nothing before it.
LEMMA NothingBefore ==
    ASSUME NEW s, IsList(s) PROVE <<>> \o s = s
  <1>1. s \in Seq(ToSet(s))
    BY DEF IsList
  <1> HIDE DEF ToSet
  <1> QED BY <1>1

\* What the bridge carries of a command's capture is decoded like the capture itself,
\* and its headers are those of the options followed by those of the capture.
LEMMA CarriedView ==
    ASSUME NEW c, WellFormed(c), NEW headers, headers \o CapturedHeaders(c) # None, NEW protocol, NEW schema
    PROVE  LET carried == CaptureWithHeaders(c.extensions, headers)
               native  == ViewOf(protocol, schema, c.extensions)
               bridged == ViewOf(protocol, schema, carried.transport)
           IN  /\ native.ok \in BOOLEAN /\ native.ok = bridged.ok /\ (~native.ok => native = bridged)
               /\ native.ok => /\ native.value.fields = bridged.value.fields
                               /\ Merge(headers, native.value.headers) = Or(carried.headers, <<>>)
  <1> DEFINE t == c.extensions
             s == SplitCaptureHeaders(t)
             all == Merge(headers, s.headers)
             carried == CaptureWithHeaders(t, headers)
  <1>1. carried.transport = s.transport /\ carried.headers = (IF all = <<>> THEN None ELSE all)
    BY DEF CaptureWithHeaders
  <1>2. CASE t = None
    <2>1. s.transport = None /\ s.headers = None
      BY <1>2 DEF SplitCaptureHeaders
    <2>2. all = headers \o CapturedHeaders(c) /\ all # None
      BY <1>2, <2>1 DEF Merge, CapturedHeaders, Or
    <2>3. Or(carried.headers, <<>>) = all
      BY <1>1, <2>2 DEF Or
    <2>4. ViewOf(protocol, schema, t) = Ok(DefaultView(schema))
      BY <1>2 DEF ViewOf
    <2>5. ViewOf(protocol, schema, carried.transport) = Ok(DefaultView(schema))
      BY <1>1, <2>1 DEF ViewOf
    <2>6. DefaultView(schema).headers = None
      BY DEF DefaultView
    <2> QED BY <2>1, <2>3, <2>4, <2>5, <2>6 DEF Ok
  <1>3. CASE t # None
    <2>1. DOMAIN t = {"protocol", "headers", "entries"}
      BY <1>3 DEF WellFormed
    <2> DEFINE u == [t EXCEPT !.headers = None]
    <2>2. u.protocol = t.protocol /\ u.entries = t.entries
      BY <2>1
    <2>3. s.transport = u /\ s.headers = (IF t.headers = <<>> THEN None ELSE t.headers)
      BY <1>3 DEF SplitCaptureHeaders
    <2>4. all = headers \o CapturedHeaders(c) /\ all # None /\ all = Merge(headers, t.headers)
      BY <1>3, <2>3 DEF Merge, CapturedHeaders, Or
    <2>5. Or(carried.headers, <<>>) = all
      BY <1>1, <2>4 DEF Or
    <2>6. ViewOf(protocol, schema, t) = DecodeParts(protocol, schema, t.protocol, t.headers, t.entries)
      BY <1>3, ViewByParts DEF ViewOf
    <2>7. u # None
      <3>1. u = [protocol |-> t.protocol, headers |-> None, entries |-> t.entries]
        BY <2>1
      <3> QED BY <1>3, <3>1 DEF WellFormed, CaptureVariants
    <2>8. ViewOf(protocol, schema, carried.transport)
             = DecodeParts(protocol, schema, t.protocol, u.headers, t.entries)
      BY <1>1, <2>2, <2>3, <2>7, ViewByParts DEF ViewOf
    <2> QED BY <2>4, <2>5, <2>6, <2>8, HeadersApart
  <1> QED BY <1>2, <1>3

-----------------------------------------------------------------------------
(* Both outbound paths of each driver.                                     *)

\* What two paths agree on: both refuse a command, or both build the same request.
Alike(a, b) == a.ok = b.ok /\ (a.ok => a.value = b.value)

\* HTTP: the plan made of the bridge message is the native plan.
LEMMA HttpPathsAlike ==
    ASSUME NEW c, WellFormed(c) PROVE HttpNativeRequest(c) = HttpBridgeRequest(c)
  <1> DEFINE carried == CaptureWithHeaders(c.extensions, c.headers)
             plain   == BridgeCommand(c, "RequestResponse", c.intent,
                                      IF c.intent = "Read" THEN None ELSE c.payload, carried)
             b == [plain EXCEPT !.method = c.method, !.content_type = c.content_type, !.path = c.path]
             native  == ViewOf("HTTP", HttpSchema, c.extensions)
             bridged == ViewOf("HTTP", HttpSchema, carried.transport)
  <1>1. CASE c.intent \notin RequestIntents
    BY <1>1 DEF HttpNativeRequest, HttpBridgeRequest, HttpNativePlan, CommandToRequestResponse, Then, Err
  <1>2. CASE c.intent \in RequestIntents
    <2>1. CommandToRequestResponse(c) = Ok(b)
      BY <1>2 DEF CommandToRequestResponse
    <2>2. /\ b.op = "RequestResponse" /\ b.target = c.target
          /\ b.payload = (IF c.intent = "Read" THEN None ELSE c.payload)
          /\ b.method = c.method /\ b.content_type = c.content_type /\ b.path = c.path
          /\ b.transport = carried.transport /\ b.headers = carried.headers
      BY DEF BridgeCommand
    <2>3. c.headers \o CapturedHeaders(c) # None
      BY DEF WellFormed
    <2>4. /\ native.ok \in BOOLEAN /\ native.ok = bridged.ok /\ (~native.ok => native = bridged)
          /\ native.ok => /\ native.value.fields = bridged.value.fields
                          /\ Merge(c.headers, native.value.headers) = Or(carried.headers, <<>>)
      BY <2>3, CarriedView
    <2> HIDE DEF b, carried, native, bridged
    <2>5. HttpView(c.extensions) = native /\ HttpView(b.transport) = bridged
      BY <2>2 DEF HttpView, native, bridged
    <2>6. HttpNativePlan(c) = HttpPlanFromBridge(b)
      BY <1>2, <2>2, <2>4, <2>5 DEF HttpNativePlan, HttpPlanFromBridge, Then
    <2>7. Then(CommandToRequestResponse(c), HttpPlanFromBridge) = HttpPlanFromBridge(b)
      BY <2>1 DEF Then, Ok
    <2> QED BY <2>6, <2>7 DEF HttpNativeRequest, HttpBridgeRequest
  <1> QED BY <1>1, <1>2

\* Modbus: options are ignored on both paths.
LEMMA ModbusPathsAlike ==
    ASSUME NEW c PROVE ModbusNativeRequest(c) = ModbusBridgeRequest(c)
  <1>1. ModbusNativePlan(c) = ModbusBridgePlan(c)
    BY DEF ModbusNativePlan, ModbusBridgePlan, CommandToRegisterAccess, BridgeCommand, ModbusPlan, Then, Ok, Err
  <1> QED BY <1>1 DEF ModbusNativeRequest, ModbusBridgeRequest

\* Zenoh: what both paths accept they encode alike.
LEMMA ZenohPathsAlike ==
    ASSUME NEW c, WellFormed(c), ZenohNativeRequest(c).ok, ZenohBridgeRequest(c).ok
    PROVE  ZenohNativeRequest(c).value = ZenohBridgeRequest(c).value
  <1>1. CASE c.intent \in {"Send", "Read"}
    <2>1. CASE c.intent = "Send"
      BY <2>1 DEF ZenohNativeRequest, ZenohBridgeRequest, ZenohPlan, ZenohEncodePlan, ZenohEncodeBridge,
         CommandToMessaging, BridgeCommand, MessagingIntents, WellFormed, Then, Ok, Err
    <2>2. CASE c.intent = "Read"
      BY <2>2 DEF ZenohNativeRequest, ZenohBridgeRequest, ZenohPlan, ZenohEncodePlan, ZenohEncodeBridge,
         CommandToRequestResponse, RequestIntents, BridgeCommand, MessagingIntents, Then, Ok, Err, Query
    <2> QED BY <1>1, <2>1, <2>2
  <1>2. CASE c.intent \notin {"Send", "Read"}
    BY <1>2 DEF ZenohBridgeRequest, ZenohEncodeBridge, CommandToMessaging, CommandToRequestResponse, RequestIntents,
       BridgeCommand, MessagingIntents, Then, Ok, Err
  <1> QED BY <1>1, <1>2

\* MQTT: how a bridge message is read.
ReadBridge(m) ==
    Then(MqttView(m.transport), LAMBDA view :
      IF m.action = "Publish"
      THEN Ok(PublishView(m.id, m.target, m.payload, m.delivery, view, m.correlation, Or(m.headers, <<>>)))
      ELSE Ok(SubscribeView(m.action, m.id, m.target, m.delivery, m.durable_name, m.shared_group, view,
                            Or(m.headers, <<>>))))

\* The bridge path reads the message that a command is planned as.
LEMMA ReadThroughBridge ==
    ASSUME NEW c, c.intent \in MessagingIntents, NEW b, CommandToMessaging(c) = Ok(b)
    PROVE  MqttBridgeView(c) = IF ~SupportedKind(c) THEN Err("UnsupportedChannelKind") ELSE ReadBridge(b)
  <1>1. MqttBridgeView(c) = IF ~SupportedKind(c) THEN Err("UnsupportedChannelKind")
                            ELSE Then(CommandToMessaging(c), ReadBridge)
    BY DEF MqttBridgeView, ReadBridge
  <1>2. Then(CommandToMessaging(c), ReadBridge) = ReadBridge(b)
    <2>1. CommandToMessaging(c).ok /\ CommandToMessaging(c).value = b
      BY DEF Ok
    <2> QED BY <2>1 DEF Then
  <1> QED BY <1>1, <1>2

\* MQTT: both plans are read as one view.  With two defects in a command the paths may
\* report different ones.
LEMMA MqttViewsAlike ==
    ASSUME NEW c, WellFormed(c)
    PROVE  /\ MqttNativeView(c).ok \in BOOLEAN
           /\ Alike(MqttNativeView(c), MqttBridgeView(c))
  <1>1. CASE c.intent = "Send"
    <2> DEFINE carried == CaptureWithHeaders(c.extensions, c.headers)
               b == [BridgeCommand(c, "Messaging", "Publish", c.payload, carried) EXCEPT !.delivery = c.delivery]
               native  == MqttView(c.extensions)
               bridged == MqttView(carried.transport)
    <2>1. CommandToMessaging(c) = Ok(b)
      BY <1>1 DEF CommandToMessaging
    <2>2. /\ b.action = "Publish" /\ b.id = c.id /\ b.target = c.target /\ b.payload = c.payload
          /\ b.delivery = c.delivery /\ b.correlation = c.correlation
          /\ b.transport = carried.transport /\ b.headers = carried.headers
      BY DEF BridgeCommand
    <2>3. /\ native.ok \in BOOLEAN /\ native.ok = bridged.ok
          /\ native.ok => /\ native.value.fields = bridged.value.fields
                          /\ Merge(c.headers, native.value.headers) = Or(carried.headers, <<>>)
      BY CarriedView DEF MqttView, WellFormed
    <2> HIDE DEF b, carried, native, bridged
    <2>4. MqttView(c.extensions) = native /\ MqttView(b.transport) = bridged
      BY <2>2 DEF native, bridged
    <2>5. MqttNativeView(c) =
              IF ~native.ok THEN native
              ELSE IF ~SupportedKind(c) THEN Err("UnsupportedChannelKind")
              ELSE Ok(PublishView(c.id, c.target, c.payload, c.delivery, native.value, c.correlation,
                                  Merge(c.headers, native.value.headers)))
      BY <1>1, <2>4 DEF MqttNativeView, MergedUserProperties, Then
    <2>6. MqttBridgeView(c) =
              IF ~SupportedKind(c) THEN Err("UnsupportedChannelKind")
              ELSE IF ~bridged.ok THEN bridged
              ELSE Ok(PublishView(c.id, c.target, c.payload, c.delivery, bridged.value, c.correlation,
                                  Or(carried.headers, <<>>)))
      BY <1>1, <2>1, <2>2, <2>4, ReadThroughBridge DEF MessagingIntents, ReadBridge, Then
    <2>7. native.ok => PublishView(c.id, c.target, c.payload, c.delivery, native.value, c.correlation,
                                   Merge(c.headers, native.value.headers))
                     = PublishView(c.id, c.target, c.payload, c.delivery, bridged.value, c.correlation,
                                   Or(carried.headers, <<>>))
      BY <2>3 DEF PublishView
    <2>8. CASE native.ok /\ SupportedKind(c)
      BY <2>3, <2>5, <2>6, <2>7, <2>8 DEF Alike, Ok
    <2>9. CASE ~native.ok \/ ~SupportedKind(c)
      <3>1. MqttNativeView(c).ok = FALSE
        BY <2>3, <2>5, <2>9 DEF Err
      <3>2. MqttBridgeView(c).ok = FALSE
        BY <2>3, <2>6, <2>9 DEF Err
      <3> QED BY <3>1, <3>2 DEF Alike
    <2> QED BY <2>8, <2>9
  <1>2. CASE c.intent = "Subscribe"
    <2> DEFINE carried == CaptureWithHeaders(c.extensions, <<>>)
               b == [BridgeCommand(c, "Messaging", "Subscribe", None, carried)
                       EXCEPT !.delivery = c.delivery, !.durable_name = c.durable_name,
                              !.shared_group = c.shared_group]
               native  == MqttView(c.extensions)
               bridged == MqttView(carried.transport)
    <2>1. CommandToMessaging(c) = Ok(b)
      BY <1>2 DEF CommandToMessaging
    <2>2. /\ b.action = "Subscribe" /\ b.id = c.id /\ b.target = c.target
          /\ b.delivery = c.delivery /\ b.durable_name = c.durable_name /\ b.shared_group = c.shared_group
          /\ b.transport = carried.transport /\ b.headers = carried.headers
      BY DEF BridgeCommand
    <2>3. /\ native.ok \in BOOLEAN /\ native.ok = bridged.ok
          /\ native.ok => /\ native.value.fields = bridged.value.fields
                          /\ Merge(<<>>, native.value.headers) = Or(carried.headers, <<>>)
      <3>1. <<>> \o CapturedHeaders(c) # None
        BY NothingBefore DEF WellFormed
      <3> QED BY <3>1, CarriedView DEF MqttView
    <2> HIDE DEF b, carried, native, bridged
    <2>4. MqttView(c.extensions) = native /\ MqttView(b.transport) = bridged
      BY <2>2 DEF native, bridged
    <2>5. MqttNativeView(c) =
              IF ~native.ok THEN native
              ELSE IF ~SupportedKind(c) THEN Err("UnsupportedChannelKind")
              ELSE Ok(SubscribeView("Subscribe", c.id, c.target, c.delivery, c.durable_name, c.shared_group,
                                    native.value, Merge(<<>>, native.value.headers)))
      BY <1>2, <2>4 DEF MqttNativeView, MergedUserProperties, Then
    <2>6. MqttBridgeView(c) =
              IF ~SupportedKind(c) THEN Err("UnsupportedChannelKind")
              ELSE IF ~bridged.ok THEN bridged
              ELSE Ok(SubscribeView("Subscribe", c.id, c.target, c.delivery, c.durable_name, c.shared_group,
                                    bridged.value, Or(carried.headers, <<>>)))
      BY <1>2, <2>1, <2>2, <2>4, ReadThroughBridge DEF MessagingIntents, ReadBridge, Then
    <2>7. native.ok => SubscribeView("Subscribe", c.id, c.target, c.delivery, c.durable_name, c.shared_group,
                                     native.value, Merge(<<>>, native.value.headers))
                     = SubscribeView("Subscribe", c.id, c.target, c.delivery, c.durable_name, c.shared_group,
                                     bridged.value, Or(carried.headers, <<>>))
      BY <2>3 DEF SubscribeView
    <2>8. CASE native.ok /\ SupportedKind(c)
      BY <2>3, <2>5, <2>6, <2>7, <2>8 DEF Alike, Ok
    <2>9. CASE ~native.ok \/ ~SupportedKind(c)
      <3>1. MqttNativeView(c).ok = FALSE
        BY <2>3, <2>5, <2>9 DEF Err
      <3>2. MqttBridgeView(c).ok = FALSE
        BY <2>3, <2>6, <2>9 DEF Err
      <3> QED BY <3>1, <3>2 DEF Alike
    <2> QED BY <2>8, <2>9
  <1>3. CASE c.intent = "Unsubscribe"
    <2> DEFINE b == BridgeCommand(c, "Messaging", "Unsubscribe", None, NothingCarried)
               unsubscribe == SubscribeView("Unsubscribe", c.id, c.target, None, None, None,
                                            DefaultView(MqttSchema), <<>>)
    <2>1. CommandToMessaging(c) = Ok(b)
      BY <1>3 DEF CommandToMessaging
    <2>2. /\ b.action = "Unsubscribe" /\ b.id = c.id /\ b.target = c.target
          /\ b.delivery = None /\ b.durable_name = None /\ b.shared_group = None
          /\ b.transport = None /\ b.headers = None
      BY DEF BridgeCommand, NothingCarried
    <2> HIDE DEF b
    <2>3. MqttView(b.transport) = Ok(DefaultView(MqttSchema)) /\ Or(b.headers, <<>>) = <<>>
      BY <2>2 DEF MqttView, ViewOf, Or
    <2>4. MqttNativeView(c) = IF ~SupportedKind(c) THEN Err("UnsupportedChannelKind") ELSE Ok(unsubscribe)
      BY <1>3 DEF MqttNativeView
    <2>5. MqttBridgeView(c) = IF ~SupportedKind(c) THEN Err("UnsupportedChannelKind") ELSE Ok(unsubscribe)
      <3>1. MqttView(b.transport).ok /\ MqttView(b.transport).value = DefaultView(MqttSchema)
        BY <2>3 DEF Ok
      <3> QED BY <1>3, <2>1, <2>2, <2>3, <3>1, ReadThroughBridge DEF MessagingIntents, ReadBridge, Then
    <2> QED BY <2>4, <2>5 DEF Alike, Ok, Err
  <1>4. CASE c.intent \notin MessagingIntents
    BY <1>4 DEF MqttNativeView, MqttBridgeView, MessagingIntents, Alike, Err
  <1> QED BY <1>1, <1>2, <1>3, <1>4 DEF MessagingIntents

\* MQTT: the packets built of one view are the same.
LEMMA MqttPathsAlike ==
    ASSUME NEW c, WellFormed(c), NEW version
    PROVE  Alike(MqttNativeRequest(c, version), MqttBridgeRequest(c, version))
  BY MqttViewsAlike DEF MqttNativeRequest, MqttBridgeRequest, Then, Alike
-----------------------------------------------------------------------------
(* The specification.                                                      *)

\* Some driver's job, or an outage.
SomeJob ==
    \/ job \in HttpJobs \/ job \in MqttJobs \/ job \in ZenohJobs
    \/ job \in ModbusJobs \/ job \in Outages

\* A request is what one of the two paths made of the job.
Planned ==
    /\ SomeJob
    /\ request # None => /\ path \in {"native", "bridge"} /\ request = RequestOn(path, job)
                         /\ job.driver # "outage"

LEMMA PlannedInit == Init => Planned
  BY DEF Init, Planned, SomeJob

LEMMA PlannedNext == Planned /\ [Next]_vars => Planned'
  <1> SUFFICES ASSUME Planned, [Next]_vars PROVE Planned'
    OBVIOUS
  <1>1. ASSUME NEW p \in {"native", "bridge"}, Plan(p) PROVE Planned'
    <2>1. job' = job /\ path' = p /\ request' = RequestOn(p, job) /\ job.driver # "outage"
      BY <1>1 DEF Plan
    <2>2. RequestOn(path', job') = RequestOn(p, job)
      BY <2>1
    <2> QED BY <2>1, <2>2 DEF Planned, SomeJob
  <1>2. CASE UNCHANGED <<job, path, request>>
    <2>1. RequestOn(path', job') = RequestOn(path, job)
      BY <1>2
    <2> QED BY <1>2, <2>1 DEF Planned, SomeJob
  <1>3. CASE Next
    BY <1>1, <1>2, <1>3 DEF Next, Send, SendFails, ReadSome, ReadEnd, ReadDatagram, ReadFails, Retry
  <1> QED BY <1>2, <1>3 DEF vars

LEMMA PlannedAlways == Spec => []Planned
  BY PlannedInit, PlannedNext, PTL DEF Spec

\* The driver of a job says which set it is of.
LEMMA JobOfDriver ==
    ASSUME SomeJob
    PROVE  /\ job.driver = "HTTP"   => job \in HttpJobs
           /\ job.driver = "MQTT"   => job \in MqttJobs
           /\ job.driver = "Zenoh"  => job \in ZenohJobs
           /\ job.driver = "Modbus" => job \in ModbusJobs
           /\ job.driver = "outage" => job \in Outages
           /\ job.driver \in {"HTTP", "MQTT", "Zenoh", "Modbus", "outage"}
  BY ExchangeAssumptions DEF SomeJob

\* Both paths, whichever was taken: every driver but Zenoh accepts the same commands
\* on both, and the requests that both paths build are one.
LEMMA PathsAlike ==
    ASSUME Planned, request # None
    PROVE  LET n == RequestOn("native", job)
               b == RequestOn("bridge", job)
           IN  /\ job.driver # "Zenoh" => n.ok = b.ok
               /\ n.ok /\ b.ok => n.value = b.value
  <1>1. CASE job.driver = "HTTP"
    <2>1. WellFormed(job.command)
      BY <1>1, JobOfDriver, ExchangeAssumptions DEF Planned
    <2> QED BY <1>1, <2>1, HttpPathsAlike DEF RequestOn
  <1>2. CASE job.driver = "MQTT"
    <2>1. WellFormed(job.command)
      BY <1>2, JobOfDriver, ExchangeAssumptions DEF Planned
    <2>2. Alike(MqttNativeRequest(job.command, job.version), MqttBridgeRequest(job.command, job.version))
      BY <2>1, MqttPathsAlike
    <2> QED BY <1>2, <2>2 DEF RequestOn, Alike
  <1>3. CASE job.driver = "Zenoh"
    <2>1. WellFormed(job.command)
      BY <1>3, JobOfDriver, ExchangeAssumptions DEF Planned
    <2> QED BY <1>3, <2>1, ZenohPathsAlike DEF RequestOn
  <1>4. CASE job.driver = "Modbus"
    BY <1>4, ModbusPathsAlike DEF RequestOn
  <1> QED BY <1>1, <1>2, <1>3, <1>4, JobOfDriver DEF Planned

\* The bridge accepts and rejects what the native planner does, and the request is the
\* same: for every command of every driver, Zenoh apart as PathsAgree says.
THEOREM PathsAgreeAlways == Spec => []PathsAgree
  <1>1. Planned => PathsAgree
    <2> SUFFICES ASSUME Planned, request # None
                 PROVE  LET other == RequestOn(IF path = "native" THEN "bridge" ELSE "native", job) IN
                        /\ job.driver # "Zenoh" => request.ok = other.ok
                        /\ request.ok /\ other.ok => request.value = other.value
      BY DEF PathsAgree
    <2>1. CASE path = "native"
      <3>1. request = RequestOn("native", job)
        BY <2>1 DEF Planned
      <3> QED BY <2>1, <3>1, PathsAlike
    <2>2. CASE path = "bridge"
      <3>1. request = RequestOn("bridge", job)
        BY <2>2 DEF Planned
      <3> QED BY <2>2, <3>1, PathsAlike
    <2> QED BY <2>1, <2>2 DEF Planned
  <1> QED BY <1>1, PlannedAlways, PTL

-----------------------------------------------------------------------------
(* MQTT 3.1.1.                                                             *)

\* What V3LosesNothing asks of the packets of one view.
LosesNothing(v3, v5) ==
    /\ v5.ok
    /\ [v5.value.packet EXCEPT !.version = "v3"] = v3.value.packet
    /\ \A f \in DOMAIN v5.value.props : v5.value.props[f] \in {None, <<>>}

\* What is absent is never refused.
LEMMA NothingRefused ==
    ASSUME NEW props, \A f \in DOMAIN props : props[f] \in {None, <<>>},
           \A f \in DOMAIN props : f # "user_properties" => props[f] = None
    PROVE  ~Refused(props)
  <1> SUFFICES ASSUME NEW f \in DOMAIN props, f \in DOMAIN Unbuildable, props[f] \in Unbuildable[f]
               PROVE  FALSE
    BY DEF Refused
  <1>1. CASE props[f] = None
    BY <1>1, MqttAssumptions
  <1>2. CASE props[f] = <<>> /\ f = "user_properties"
    BY <1>2, MqttAssumptions
  <1> QED BY <1>1, <1>2

\* A publish that passes validate_v3_publish_support has no property.
LEMMA PublishOnV3 ==
    ASSUME NEW p, BuildPublish(p, "v3").ok
    PROVE  LosesNothing(BuildPublish(p, "v3"), BuildPublish(p, "v5"))
  <1> DEFINE Packet(version) ==
               [version |-> version, type |-> "Publish", command_id |-> p.command_id, topic |-> p.topic,
                qos |-> QosFromDelivery(p.delivery), retain |-> p.retain, payload |-> p.payload]
  <1>1. ~V5OnlyPublish(p) /\ p.topic \notin Wildcards
    BY DEF BuildPublish, Err
  <1>2. BuildPublish(p, "v3") = Ok([packet |-> Packet("v3"), props |-> None])
    BY <1>1 DEF BuildPublish
  <1>4. [Packet("v5") EXCEPT !.version = "v3"] = Packet("v3")
    OBVIOUS
  <1>5. /\ p.payload_format = None /\ p.content_type = None /\ p.expiry = None /\ p.topic_alias = None
        /\ p.response_topic = None /\ p.correlation_data = None /\ p.reply_to = None
        /\ p.correlation_id = None /\ p.user_properties = <<>>
    BY <1>1 DEF V5OnlyPublish
  <1>6. /\ \A f \in DOMAIN PublishProps(p) : PublishProps(p)[f] \in {None, <<>>}
        /\ \A f \in DOMAIN PublishProps(p) : f # "user_properties" => PublishProps(p)[f] = None
    BY <1>5 DEF PublishProps, Or
  <1>3. BuildPublish(p, "v5") = Ok([packet |-> Packet("v5"), props |-> PublishProps(p)])
    BY <1>1, <1>6, NothingRefused DEF BuildPublish
  <1> HIDE DEF Packet
  <1> QED BY <1>2, <1>3, <1>4, <1>6 DEF LosesNothing, Ok

\* A subscription that passes validate_v3_subscribe_support has no property.
LEMMA SubscribeOnV3 ==
    ASSUME NEW s, s.kind = "Subscribe", BuildSubscription(s, "v3").ok
    PROVE  LosesNothing(BuildSubscription(s, "v3"), BuildSubscription(s, "v5"))
  <1> DEFINE Packet(version) ==
               [version |-> version, type |-> s.kind, command_id |-> s.command_id,
                filter |-> <<s.shared_group, s.topic>>, qos |-> QosFromDelivery(s.delivery),
                no_local |-> s.no_local, retain_as_published |-> s.retain_as_published,
                retain_handling |-> s.retain_handling]
  <1>1. ~V5OnlySubscription(s) /\ ~Refused([filter |-> <<s.shared_group, s.topic>>])
    BY DEF BuildSubscription, Err
  <1>2. BuildSubscription(s, "v3") = Ok([packet |-> Packet("v3"), props |-> None])
    BY <1>1 DEF BuildSubscription
  <1>4. [Packet("v5") EXCEPT !.version = "v3"] = Packet("v3")
    OBVIOUS
  <1>5. s.subscription_identifier = None /\ s.user_properties = <<>>
    BY <1>1 DEF V5OnlySubscription
  <1>6. /\ \A f \in DOMAIN SubscriptionProps(s) : SubscriptionProps(s)[f] \in {None, <<>>}
        /\ \A f \in DOMAIN SubscriptionProps(s) : f # "user_properties" => SubscriptionProps(s)[f] = None
    BY <1>5 DEF SubscriptionProps
  <1>3. BuildSubscription(s, "v5") = Ok([packet |-> Packet("v5"), props |-> SubscriptionProps(s)])
    BY <1>1, <1>6, NothingRefused DEF BuildSubscription
  <1> HIDE DEF Packet
  <1> QED BY <1>2, <1>3, <1>4, <1>6 DEF LosesNothing, Ok

\* A view is of a publish or a subscription unless the command unsubscribes.
LEMMA ViewKinds ==
    ASSUME NEW c, WellFormed(c), c.intent # "Unsubscribe"
    PROVE  /\ MqttNativeView(c).ok => MqttNativeView(c).value.kind \in {"Publish", "Subscribe"}
           /\ MqttBridgeView(c).ok => MqttBridgeView(c).value.kind \in {"Publish", "Subscribe"}
  <1>1. CASE c.intent \in {"Send", "Subscribe"}
    <2>1. ~MqttView(c.extensions).ok => ~MqttNativeView(c).ok
      BY <1>1 DEF MqttNativeView, Then
    <2>2. MqttNativeView(c).ok => MqttNativeView(c).value.kind \in {"Publish", "Subscribe"}
      BY <1>1, <2>1 DEF MqttNativeView, Then, Ok, Err, PublishView, SubscribeView
    <2> QED BY <2>2, MqttViewsAlike DEF Alike
  <1>2. CASE c.intent \notin {"Send", "Subscribe"}
    <2>1. ~MqttNativeView(c).ok
      BY <1>2 DEF MqttNativeView, Err
    <2> QED BY <2>1, MqttViewsAlike DEF Alike
  <1> QED BY <1>1, <1>2

\* A command accepted on MQTT 3.1.1 loses nothing there, on either path.
LEMMA RequestOnV3 ==
    ASSUME NEW v, v.ok => v.value.kind \in {"Publish", "Subscribe"},
           Then(v, LAMBDA w : BuildPacket(w, "v3")).ok
    PROVE  LosesNothing(Then(v, LAMBDA w : BuildPacket(w, "v3")), Then(v, LAMBDA w : BuildPacket(w, "v5")))
  <1>1. v.ok
    BY DEF Then
  <1>2. Then(v, LAMBDA w : BuildPacket(w, "v3")) = BuildPacket(v.value, "v3")
    BY <1>1 DEF Then
  <1>3. Then(v, LAMBDA w : BuildPacket(w, "v5")) = BuildPacket(v.value, "v5")
    BY <1>1 DEF Then
  <1>4. LosesNothing(BuildPacket(v.value, "v3"), BuildPacket(v.value, "v5"))
    BY <1>1, <1>2, PublishOnV3, SubscribeOnV3 DEF BuildPacket
  <1> QED BY <1>2, <1>3, <1>4

\* No command is accepted for MQTT 3.1.1 whose MQTT 5 packet would carry a property.
THEOREM V3LosesNothingEver == Spec => []V3LosesNothing
  <1>1. Planned => V3LosesNothing
    <2> DEFINE c == job.command
               job5 == [job EXCEPT !.version = "v5"]
    <2> SUFFICES ASSUME Planned, job.driver = "MQTT", Accepted, job.version = "v3", c.intent # "Unsubscribe"
                 PROVE  LosesNothing(request, RequestOn(path, job5))
      BY DEF V3LosesNothing, LosesNothing
    <2>1. job \in MqttJobs
      BY JobOfDriver DEF Planned
    <2>2. WellFormed(c) /\ DOMAIN job = {"driver", "command", "version"}
      BY <2>1, ExchangeAssumptions
    <2>3. job5.driver = "MQTT" /\ job5.command = c /\ job5.version = "v5"
      BY <2>2
    <2>4. path \in {"native", "bridge"} /\ request = RequestOn(path, job) /\ request.ok
      BY DEF Planned, Accepted
    <2> HIDE DEF job5
    <2>5. CASE path = "native"
      <3>1. request = MqttNativeRequest(c, "v3")
        BY <2>4, <2>5 DEF RequestOn
      <3>2. RequestOn(path, job5) = MqttNativeRequest(c, "v5")
        BY <2>3, <2>5 DEF RequestOn
      <3> QED BY <2>2, <2>4, <3>1, <3>2, ViewKinds, RequestOnV3 DEF MqttNativeRequest
    <2>6. CASE path = "bridge"
      <3>1. request = MqttBridgeRequest(c, "v3")
        BY <2>4, <2>6 DEF RequestOn
      <3>2. RequestOn(path, job5) = MqttBridgeRequest(c, "v5")
        BY <2>3, <2>6 DEF RequestOn
      <3> QED BY <2>2, <2>4, <3>1, <3>2, ViewKinds, RequestOnV3 DEF MqttBridgeRequest
    <2> QED BY <2>4, <2>5, <2>6
  <1> QED BY <1>1, PlannedAlways, PTL

-----------------------------------------------------------------------------
(* MQTT 5.                                                                 *)

\* The headers of a view are those of the capture.
LEMMA ViewHeaders ==
    ASSUME NEW c, NEW headers, MqttView(c.extensions).ok
    PROVE  Merge(headers, MqttView(c.extensions).value.headers) = headers \o CapturedHeaders(c)
  <1> DEFINE t == c.extensions
  <1>1. CASE t = None
    <2>1. MqttView(t) = Ok(DefaultView(MqttSchema))
      BY <1>1 DEF MqttView, ViewOf
    <2>2. MqttView(t).value.headers = None
      BY <2>1 DEF Ok, DefaultView
    <2> QED BY <1>1, <2>2 DEF Merge, Or, CapturedHeaders
  <1>2. CASE t # None
    <2>1. MqttView(t) = DecodeParts("MQTT", MqttSchema, t.protocol, t.headers, t.entries)
      BY <1>2, ViewByParts DEF MqttView, ViewOf
    <2>2. MqttView(t).value.headers = t.headers
      BY <2>1, HeadersApart
    <2> QED BY <1>2, <2>2 DEF Merge, CapturedHeaders
  <1> QED BY <1>1, <1>2

\* Both views hold the headers that the command plans.
LEMMA ViewProperties ==
    ASSUME NEW c, WellFormed(c), c.intent # "Unsubscribe", NEW v, v.ok,
           v = MqttNativeView(c) \/ v = MqttBridgeView(c)
    PROVE  v.value.user_properties = IF c.intent = "Subscribe" THEN CapturedHeaders(c)
                                     ELSE c.headers \o CapturedHeaders(c)
  <1>1. MqttNativeView(c).ok /\ v.value = MqttNativeView(c).value
    BY MqttViewsAlike DEF Alike
  <1> DEFINE n == MqttNativeView(c).value
             view == MqttView(c.extensions)
  <1>2. c.intent \in {"Send", "Subscribe"}
    BY <1>1 DEF MqttNativeView, Err
  <1>3. view.ok
    BY <1>1, <1>2 DEF MqttNativeView, Then
  <1>4. CASE c.intent = "Send"
    <2>1. n.user_properties = Merge(c.headers, view.value.headers)
      BY <1>1, <1>3, <1>4 DEF MqttNativeView, Then, Ok, Err, PublishView, MergedUserProperties
    <2> QED BY <1>1, <1>3, <1>4, <2>1, ViewHeaders
  <1>5. CASE c.intent = "Subscribe"
    <2>1. n.user_properties = Merge(<<>>, view.value.headers)
      BY <1>1, <1>3, <1>5 DEF MqttNativeView, Then, Ok, Err, SubscribeView, MergedUserProperties
    <2>2. n.user_properties = <<>> \o CapturedHeaders(c)
      BY <1>3, <2>1, ViewHeaders
    <2> QED BY <1>1, <1>5, <2>2, NothingBefore DEF WellFormed
  <1> QED BY <1>2, <1>4, <1>5

\* The properties of an MQTT 5 packet are those of its view.
LEMMA PacketProperties ==
    ASSUME NEW v, v.ok => v.value.kind \in {"Publish", "Subscribe"},
           Then(v, LAMBDA w : BuildPacket(w, "v5")).ok
    PROVE  v.ok /\ Then(v, LAMBDA w : BuildPacket(w, "v5")).value.props.user_properties = v.value.user_properties
  <1>1. v.ok
    BY DEF Then
  <1>2. Then(v, LAMBDA w : BuildPacket(w, "v5")) = BuildPacket(v.value, "v5")
    BY <1>1 DEF Then
  <1>3. BuildPacket(v.value, "v5").value.props.user_properties = v.value.user_properties
    <2>1. CASE v.value.kind = "Publish"
      <3>1. BuildPacket(v.value, "v5") = BuildPublish(v.value, "v5")
        BY <2>1 DEF BuildPacket
      <3>2. v.value.topic \notin Wildcards /\ ~Refused(PublishProps(v.value))
        BY <1>2, <3>1 DEF BuildPublish, Err
      <3>3. BuildPublish(v.value, "v5").value.props = PublishProps(v.value)
        BY <3>2 DEF BuildPublish, Ok
      <3> QED BY <3>1, <3>3 DEF PublishProps
    <2>2. CASE v.value.kind = "Subscribe"
      <3> DEFINE s == v.value
      <3>1. BuildPacket(s, "v5") = BuildSubscription(s, "v5") /\ BuildSubscription(s, "v5").ok
        BY <1>2, <2>2 DEF BuildPacket
      <3>2. ~Refused([filter |-> <<s.shared_group, s.topic>>]) /\ ~Refused(SubscriptionProps(s))
        BY <3>1 DEF BuildSubscription, Err
      <3>3. BuildSubscription(s, "v5").value.props = SubscriptionProps(s)
        BY <3>2 DEF BuildSubscription, Ok
      <3> QED BY <2>2, <3>1, <3>3 DEF SubscriptionProps
    <2> QED BY <1>1, <2>1, <2>2
  <1> QED BY <1>1, <1>2, <1>3

\* Every header planned for an MQTT 5 command, of its options and of its capture, is a
\* user property of the packet, in order and once: the MQTT half of HeadersSurvive.
THEOREM MqttHeadersSurvive == Spec => [](job.driver = "MQTT" => HeadersSurvive)
  <1>1. Planned => (job.driver = "MQTT" => HeadersSurvive)
    <2> DEFINE c == job.command
    <2> SUFFICES ASSUME Planned, job.driver = "MQTT", Accepted, job.version = "v5", c.intent # "Unsubscribe"
                 PROVE  request.value.props.user_properties = PlannedHeaders
      BY DEF HeadersSurvive
    <2>1. WellFormed(c)
      BY JobOfDriver, ExchangeAssumptions DEF Planned
    <2>2. path \in {"native", "bridge"} /\ request = RequestOn(path, job) /\ request.ok
      BY DEF Planned, Accepted
    <2> DEFINE v == IF path = "native" THEN MqttNativeView(c) ELSE MqttBridgeView(c)
    <2>3. request = Then(v, LAMBDA w : BuildPacket(w, "v5"))
      BY <2>2 DEF RequestOn, MqttNativeRequest, MqttBridgeRequest
    <2>4. v.ok => v.value.kind \in {"Publish", "Subscribe"}
      BY <2>1, ViewKinds
    <2>5. v = MqttNativeView(c) \/ v = MqttBridgeView(c)
      OBVIOUS
    <2> HIDE DEF v
    <2>6. v.ok /\ request.value.props.user_properties = v.value.user_properties
      BY <2>2, <2>3, <2>4, PacketProperties
    <2>7. v.value.user_properties = PlannedHeaders
      BY <2>1, <2>5, <2>6, ViewProperties DEF PlannedHeaders
    <2> QED BY <2>6, <2>7
  <1> QED BY <1>1, PlannedAlways, PTL

-----------------------------------------------------------------------------
(* The delays of the reconnect policies.                                   *)

\* f is the loop of delay_ms_for_attempt up to attempt n.
Rounds(f, initial, multiplier, cap, n) ==
    f = [i \in 1..n |-> IF i = 1 THEN Greatest(initial, 1)
                        ELSE Least(SaturatingMul(f[i - 1], Greatest(multiplier, 1)), cap)]

\* Grow is the last delay of that loop.
LEMMA GrowByRounds ==
    ASSUME NEW initial, NEW multiplier, NEW cap, NEW n
    PROVE  Grow(initial, multiplier, cap, n) = (CHOOSE f : Rounds(f, initial, multiplier, cap, n))[n]
  BY DEF Grow, Rounds

\* The least number of a set.
LEMMA LeastOf ==
    ASSUME NEW S \in SUBSET Nat, S # {}
    PROVE  \E n \in S : \A k \in Nat : k < n => k \notin S
  <1> DEFINE R == {ss \in Nat \X Nat : ss[1] < ss[2]}
  <1>1. IsWellFoundedOn(R, Nat)
    BY NatLessThanWellFounded DEF OpToRel
  <1>2. \A i, j \in Nat : i < j => <<i, j>> \in R
    OBVIOUS
  <1> HIDE DEF R
  <1>3. PICK n \in S : \A j \in S : <<j, n>> \notin R
    BY <1>1, WFMin, Zenon
  <1>4. ASSUME NEW k \in Nat, k < n PROVE k \notin S
    BY <1>2, <1>3, <1>4, Zenon
  <1> QED BY <1>3, <1>4

\* The loop computes something for every number of rounds.
LEMMA RoundsExist ==
    ASSUME NEW initial, NEW multiplier, NEW cap, NEW n \in Nat
    PROVE  \E f : Rounds(f, initial, multiplier, cap, n)
  <1> DEFINE R(f, k) == Rounds(f, initial, multiplier, cap, k)
             S == {k \in Nat : ~\E f : R(f, k)}
             Step(d) == Least(SaturatingMul(d, Greatest(multiplier, 1)), cap)
  <1> SUFFICES ASSUME S # {} PROVE FALSE
    OBVIOUS
  <1>1. PICK k \in S : \A j \in Nat : j < k => j \notin S
    BY LeastOf
  <1>2. CASE k = 0
    <2> DEFINE e == [i \in 1..0 |-> 0]
    <2>1. 1..0 = {} OBVIOUS
    <2>2. R(e, 0)
      BY <2>1 DEF Rounds
    <2> QED BY <1>1, <1>2, <2>2
  <1>3. CASE k # 0
    <2>1. k \in Nat /\ k - 1 \in Nat /\ k - 1 < k
      BY <1>1, <1>3
    <2>2. PICK f : R(f, k - 1)
      BY <1>1, <2>1
    <2> DEFINE g == [i \in 1..k |-> IF i = k THEN (IF k = 1 THEN Greatest(initial, 1) ELSE Step(f[k - 1])) ELSE f[i]]
    <2>3. \A i \in 1..(k - 1) : f[i] = IF i = 1 THEN Greatest(initial, 1) ELSE Step(f[i - 1])
      <3> HIDE DEF Step
      <3>1. f = [i \in 1..(k - 1) |-> IF i = 1 THEN Greatest(initial, 1) ELSE Step(f[i - 1])]
        BY <2>2 DEF Rounds, Step
      <3> QED BY <3>1
    <2>4. \A i \in 1..k : g[i] = IF i = 1 THEN Greatest(initial, 1) ELSE Step(g[i - 1])
      <3> HIDE DEF Step
      <3> TAKE i \in 1..k
      <3>1. CASE i = k
        BY <2>1, <3>1
      <3>2. CASE i # k
        <4>1. i \in 1..(k - 1) /\ g[i] = f[i]
          BY <2>1, <3>2
        <4>2. i # 1 => g[i - 1] = f[i - 1]
          BY <2>1, <3>2
        <4> QED BY <2>3, <4>1, <4>2
      <3> QED BY <3>1, <3>2
    <2>5. R(g, k)
      <3>1. g = [i \in 1..k |-> IF i = 1 THEN Greatest(initial, 1) ELSE Step(g[i - 1])]
        <4> HIDE DEF Step
        <4> DEFINE h == [i \in 1..k |-> IF i = 1 THEN Greatest(initial, 1) ELSE Step(g[i - 1])]
        <4>1. g = [i \in 1..k |-> g[i]] OBVIOUS
        <4>2. \A i \in 1..k : h[i] = g[i]
          <5> HIDE DEF g
          <5> QED BY <2>4
        <4>3. h = [i \in 1..k |-> h[i]]
          <5> HIDE DEF g
          <5> QED OBVIOUS
        <4> HIDE DEF g, h
        <4>4. g = h
          BY <4>1, <4>2, <4>3
        <4> QED BY <4>4 DEF h
      <3> HIDE DEF g
      <3> QED BY <3>1 DEF Rounds
    <2> HIDE DEF g
    <2> QED BY <1>1, <2>5
  <1> QED BY <1>2, <1>3

\* Its delays stay within the integer type.
LEMMA RoundsBounded ==
    ASSUME NEW initial \in Millis, NEW multiplier \in Millis, NEW cap \in Millis, NEW n \in Nat,
           NEW f, Rounds(f, initial, multiplier, cap, n), NEW i \in 1..n
    PROVE  f[i] \in Millis
  <1> DEFINE S == {k \in 1..n : f[k] \notin Millis}
  <1> SUFFICES ASSUME S # {} PROVE FALSE
    OBVIOUS
  <1>0. S \in SUBSET Nat
    OBVIOUS
  <1>1. PICK k \in S : \A j \in Nat : j < k => j \notin S
    BY <1>0, LeastOf
  <1>2. f[k] = IF k = 1 THEN Greatest(initial, 1)
               ELSE Least(SaturatingMul(f[k - 1], Greatest(multiplier, 1)), cap)
    BY <1>1 DEF Rounds
  <1>3. CASE k = 1
    BY <1>1, <1>2, <1>3, BackoffAssumptions DEF Millis, Greatest
  <1>4. CASE k # 1
    <2>1. k - 1 \in 1..n /\ f[k - 1] \in Millis
      BY <1>1, <1>4
    <2>2. Greatest(multiplier, 1) \in Nat /\ f[k - 1] \in Nat
      BY <2>1, BackoffAssumptions DEF Millis, Greatest
    <2>3. f[k - 1] * Greatest(multiplier, 1) \in Nat
      BY <2>2
    <2>4. f[k] \in Millis
      BY <1>2, <1>4, <2>3, BackoffAssumptions DEF Millis, Least, SaturatingMul
    <2> QED BY <1>1, <2>4
  <1> QED BY <1>3, <1>4

\* One round more changes none of the delays before.
LEMMA RoundsAgree ==
    ASSUME NEW initial, NEW multiplier, NEW cap, NEW n \in Nat, NEW m \in Nat, n <= m,
           NEW f, Rounds(f, initial, multiplier, cap, n), NEW g, Rounds(g, initial, multiplier, cap, m),
           NEW i \in 1..n
    PROVE  f[i] = g[i]
  <1> DEFINE S == {k \in 1..n : f[k] # g[k]}
             Step(d) == Least(SaturatingMul(d, Greatest(multiplier, 1)), cap)
  <1> SUFFICES ASSUME S # {} PROVE FALSE
    OBVIOUS
  <1>0. S \in SUBSET Nat
    OBVIOUS
  <1>1. PICK k \in S : \A j \in Nat : j < k => j \notin S
    BY <1>0, LeastOf
  <1>2. f[k] = IF k = 1 THEN Greatest(initial, 1) ELSE Step(f[k - 1])
    BY <1>1 DEF Rounds
  <1>3. g[k] = IF k = 1 THEN Greatest(initial, 1) ELSE Step(g[k - 1])
    BY <1>1 DEF Rounds
  <1>4. k # 1 => f[k - 1] = g[k - 1]
    BY <1>1
  <1> HIDE DEF Step
  <1> QED BY <1>1, <1>2, <1>3, <1>4

\* The loop, round by round.
LEMMA GrowSteps ==
    ASSUME NEW initial \in Millis, NEW multiplier \in Millis, NEW cap \in Millis, NEW n \in Nat \ {0}
    PROVE  LET G(k) == Grow(initial, multiplier, cap, k) IN
           /\ G(n) \in Millis
           /\ G(1) = Greatest(initial, 1)
           /\ G(n + 1) = Least(SaturatingMul(G(n), Greatest(multiplier, 1)), cap)
  <1> DEFINE F(k) == CHOOSE f : Rounds(f, initial, multiplier, cap, k)
             Step(d) == Least(SaturatingMul(d, Greatest(multiplier, 1)), cap)
  <1>1. ASSUME NEW k \in Nat PROVE Rounds(F(k), initial, multiplier, cap, k)
    BY RoundsExist
  <1>2. ASSUME NEW k \in Nat PROVE Grow(initial, multiplier, cap, k) = F(k)[k]
    BY GrowByRounds
  <1> HIDE DEF F
  <1>3. ASSUME NEW k \in Nat \ {0}
        PROVE  F(k)[k] = IF k = 1 THEN Greatest(initial, 1) ELSE Step(F(k)[k - 1])
    <2>1. F(k) = [i \in 1..k |-> IF i = 1 THEN Greatest(initial, 1) ELSE Step(F(k)[i - 1])]
      BY <1>1 DEF Rounds
    <2> HIDE DEF Step
    <2> QED BY <2>1
  <1>4. F(n)[n] \in Millis
    BY <1>1, RoundsBounded
  <1>5. F(n + 1)[n] = F(n)[n]
    <2>1. n \in Nat /\ n + 1 \in Nat /\ n <= n + 1 /\ n \in 1..n
      OBVIOUS
    <2>2. Rounds(F(n), initial, multiplier, cap, n) /\ Rounds(F(n + 1), initial, multiplier, cap, n + 1)
      BY <1>1, <2>1
    <2> QED BY <2>1, <2>2, RoundsAgree
  <1>6. F(n + 1)[n + 1] = Step(F(n)[n])
    <2>1. n + 1 \in Nat \ {0} /\ n + 1 # 1 /\ (n + 1) - 1 = n
      OBVIOUS
    <2> HIDE DEF Step
    <2> QED BY <1>3, <1>5, <2>1
  <1>7. F(1)[1] = Greatest(initial, 1)
    BY <1>3
  <1> QED BY <1>2, <1>4, <1>6, <1>7

\* A factor of at least one does not make a number smaller.
LEMMA FactorRaises ==
    ASSUME NEW d \in Nat, NEW m \in Nat, m >= 1
    PROVE  d * m \in Nat /\ d * m >= d
  <1>1. d * m = d * (m - 1) + d
    OBVIOUS
  <1>2. m - 1 \in Nat
    OBVIOUS
  <1>3. d * (m - 1) \in Nat
    BY <1>2
  <1> QED BY <1>1, <1>3

\* The delays of the broker policy are milliseconds and rise.
LEMMA BrokerDelayRises ==
    ASSUME NEW c \in Configs, c.max # None, NEW n \in Nat \ {0}
    PROVE  /\ BrokerDelay(c, n) \in Millis
           /\ BrokerDelay(c, n + 1) >= BrokerDelay(c, n)
  <1> DEFINE G(k) == Grow(c.initial, c.multiplier, c.max, k)
             m == Greatest(c.multiplier, 1)
  <1>1. c.initial \in Millis /\ c.multiplier \in Millis /\ c.max \in Millis
    BY DEF Configs
  <1>2. /\ G(n) \in Millis /\ G(1) = Greatest(c.initial, 1)
        /\ G(n + 1) = Least(SaturatingMul(G(n), m), c.max)
    BY <1>1, GrowSteps
  <1>3. Limit \in Nat
    BY BackoffAssumptions
  <1>4. m \in Nat /\ m >= 1
    BY <1>1, <1>3 DEF Millis, Greatest
  <1>5. /\ BrokerDelay(c, n) = IF n <= 1 \/ c.strategy = "Fixed" THEN Least(c.initial, c.max) ELSE Least(G(n), c.max)
        /\ BrokerDelay(c, n + 1) = IF c.strategy = "Fixed" THEN Least(c.initial, c.max) ELSE Least(G(n + 1), c.max)
    BY DEF BrokerDelay
  <1> HIDE DEF G, m
  <1>6. G(n) * m \in Nat /\ G(n) * m >= G(n)
    BY <1>2, <1>3, <1>4, FactorRaises DEF Millis
  <1>7. Least(G(n + 1), c.max) >= Least(G(n), c.max)
    BY <1>1, <1>2, <1>3, <1>6 DEF Millis, Least, SaturatingMul
  <1>8. Least(G(n), c.max) \in Millis /\ Least(c.initial, c.max) \in Millis
    BY <1>1, <1>2, <1>3 DEF Millis, Least
  <1>9. Least(Greatest(c.initial, 1), c.max) >= Least(c.initial, c.max)
    BY <1>1, <1>3 DEF Millis, Least, Greatest
  <1>10. n <= 1 => n = 1
    OBVIOUS
  <1>11. CASE c.strategy = "Fixed"
    BY <1>3, <1>5, <1>8, <1>11 DEF Millis
  <1>12. CASE c.strategy # "Fixed" /\ n <= 1
    <2>1. G(n) = Greatest(c.initial, 1)
      BY <1>2, <1>10, <1>12
    <2>2. Least(G(n + 1), c.max) >= Least(c.initial, c.max)
      BY <1>1, <1>2, <1>3, <1>6, <2>1 DEF Millis, Least, SaturatingMul, Greatest
    <2> QED BY <1>5, <1>8, <1>12, <2>2
  <1>13. CASE c.strategy # "Fixed" /\ ~(n <= 1)
    BY <1>5, <1>7, <1>8, <1>13
  <1> QED BY <1>11, <1>12, <1>13

\* A step makes at most one attempt.
LEMMA AttemptsCount == [Next]_vars => attempt' \in {attempt, attempt + 1}
  <1>1. Next => attempt' \in {attempt, attempt + 1}
    BY DEF Next, Plan, Send, SendFails, ReadSome, ReadEnd, ReadDatagram, ReadFails, Retry
  <1> QED BY <1>1 DEF vars

\* Attempts are counted from one.
Counted == Planned /\ attempt \in Nat \ {0}

LEMMA CountedAlways == Spec => []Counted
  <1>1. Init => Counted
    BY PlannedInit DEF Init, Counted
  <1>2. Counted /\ [Next]_vars => Counted'
    <2> SUFFICES ASSUME Counted, [Next]_vars PROVE Counted'
      OBVIOUS
    <2>1. Planned'
      BY PlannedNext DEF Counted
    <2>2. attempt' \in {attempt, attempt + 1}
      BY AttemptsCount
    <2>3. attempt' \in Nat \ {0}
      BY <2>2 DEF Counted
    <2> QED BY <2>1, <2>3 DEF Counted
  <1> QED BY <1>1, <1>2, PTL DEF Spec

\* The delay of the next attempt is never shorter, for every configuration and every
\* width of the integer type.
THEOREM BrokerDelaysRise == Spec => BrokerRises
  <1>1. Counted /\ [Next]_vars =>
            (job.driver = "outage" /\ job.config.max # None
               => BrokerDelay(job.config, attempt') >= BrokerDelay(job.config, attempt))
    <2> SUFFICES ASSUME Counted, [Next]_vars, job.driver = "outage", job.config.max # None
                 PROVE  BrokerDelay(job.config, attempt') >= BrokerDelay(job.config, attempt)
      OBVIOUS
    <2>1. job.config \in Configs
      BY JobOfDriver, ExchangeAssumptions DEF Counted, Planned
    <2>2. /\ BrokerDelay(job.config, attempt) \in Millis
          /\ BrokerDelay(job.config, attempt + 1) >= BrokerDelay(job.config, attempt)
      BY <2>1, BrokerDelayRises DEF Counted
    <2>3. attempt' \in {attempt, attempt + 1}
      BY AttemptsCount
    <2>4. BrokerDelay(job.config, attempt) >= BrokerDelay(job.config, attempt)
      BY <2>2, BackoffAssumptions DEF Millis
    <2> QED BY <2>2, <2>3, <2>4
  <1> QED BY <1>1, CountedAlways, PTL DEF Spec, BrokerRises

\* Powers are numbers.
LEMMA PowerIsNat ==
    ASSUME NEW b \in 1..Limit, NEW n \in 0..MaxAttempt PROVE b^n \in Nat
  <1> DEFINE S == {k \in 0..MaxAttempt : b^k \notin Nat}
  <1> SUFFICES ASSUME S # {} PROVE FALSE
    OBVIOUS
  <1>0. S \in SUBSET Nat /\ MaxAttempt \in Nat
    BY ExchangeAssumptions
  <1>1. PICK k \in S : \A j \in Nat : j < k => j \notin S
    BY <1>0, LeastOf
  <1>2. CASE k = 0
    BY <1>0, <1>1, <1>2, Powers
  <1>3. CASE k # 0
    <2>1. k - 1 \in 0..MaxAttempt /\ b^(k - 1) \in Nat /\ k = (k - 1) + 1
      BY <1>0, <1>1, <1>3
    <2>2. b^((k - 1) + 1) = b^(k - 1) * b
      BY <2>1, Powers
    <2>3. b \in Nat
      BY BackoffAssumptions DEF Millis
    <2>4. b^(k - 1) * b \in Nat
      BY <2>1, <2>3
    <2>5. b^k = b^((k - 1) + 1)
      BY <2>1
    <2> QED BY <1>1, <2>2, <2>4, <2>5
  <1> QED BY <1>2, <1>3

\* Multiplying a capped delay and capping again is to cap the product: neither the early
\* exit at the cap nor the saturation shows.
LEMMA CapOnce ==
    ASSUME NEW q \in Nat, NEW m \in Nat, m >= 1, NEW cap \in Millis
    PROVE  Least(SaturatingMul(Least(q, cap), m), cap) = Least(q * m, cap)
  <1>1. cap \in Nat /\ Limit \in Nat /\ cap <= Limit
    BY BackoffAssumptions DEF Millis
  <1>2. q * m \in Nat /\ q * m >= q /\ cap * m \in Nat /\ cap * m >= cap
    BY <1>1, FactorRaises
  <1>3. CASE q <= cap
    BY <1>1, <1>2, <1>3 DEF Least, SaturatingMul
  <1>4. CASE ~(q <= cap)
    BY <1>1, <1>2, <1>4 DEF Least, SaturatingMul
  <1> QED BY <1>3, <1>4

\* The loop computes the power, from the second attempt on.
LEMMA GrowIsPower ==
    ASSUME NEW initial \in Millis, NEW multiplier \in Millis, NEW cap \in Millis, NEW n \in 2..MaxAttempt
    PROVE  Grow(initial, multiplier, cap, n)
             = Least(Greatest(initial, 1) * Greatest(multiplier, 1)^(n - 1), cap)
  <1> DEFINE a == Greatest(initial, 1)
             m == Greatest(multiplier, 1)
             G(k) == Grow(initial, multiplier, cap, k)
             S == {k \in 2..MaxAttempt : G(k) # Least(a * m^(k - 1), cap)}
  <1> SUFFICES ASSUME S # {} PROVE FALSE
    OBVIOUS
  <1>0. S \in SUBSET Nat /\ MaxAttempt \in Nat
    BY ExchangeAssumptions
  <1>1. PICK k \in S : \A j \in Nat : j < k => j \notin S
    BY <1>0, LeastOf
  <1>2. a \in Millis /\ m \in 1..Limit /\ a \in Nat /\ m \in Nat /\ m >= 1
    BY BackoffAssumptions DEF Millis, Greatest
  <1>3. k \in 2..MaxAttempt /\ k - 1 \in Nat \ {0} /\ k = (k - 1) + 1
    BY <1>0, <1>1
  <1>4. G(1) = a /\ G((k - 1) + 1) = Least(SaturatingMul(G(k - 1), m), cap)
    BY <1>3, GrowSteps
  <1>5. G(k) = Least(SaturatingMul(G(k - 1), m), cap)
    BY <1>3, <1>4
  <1> HIDE DEF a, m, G
  <1>6. CASE k = 2
    <2>1. m^1 = m
      <3>1. m^0 = 1 /\ m^(0 + 1) = m^0 * m
        BY <1>0, <1>2, Powers
      <3> QED BY <1>2, <3>1
    <2>2. G(2) = Least(SaturatingMul(a, m), cap)
      BY <1>4, <1>5, <1>6
    <2>3. a * m \in Nat
      BY <1>2
    <2>4. Least(SaturatingMul(a, m), cap) = Least(a * m, cap)
      BY <2>3, BackoffAssumptions DEF Least, SaturatingMul, Millis
    <2>5. G(k) = Least(a * m^(k - 1), cap)
      BY <1>6, <2>1, <2>2, <2>4
    <2> QED BY <1>1, <2>5 DEF S
  <1>7. CASE k # 2
    <2> DEFINE p == m^((k - 1) - 1)
    <2>1. k - 1 \in 2..MaxAttempt /\ k - 1 < k /\ k - 1 \in Nat
      BY <1>0, <1>3, <1>7
    <2>2. G(k - 1) = Least(a * p, cap)
      BY <1>1, <2>1 DEF S
    <2>3. (k - 1) - 1 \in 0..MaxAttempt /\ ((k - 1) - 1) + 1 = k - 1
      BY <1>0, <2>1
    <2>4. p \in Nat
      BY <1>2, <2>3, PowerIsNat
    <2>5. m^(k - 1) = p * m
      BY <1>2, <2>3, Powers
    <2> HIDE DEF p
    <2>6. a * p \in Nat
      BY <1>2, <2>4
    <2>7. Least(SaturatingMul(Least(a * p, cap), m), cap) = Least((a * p) * m, cap)
      BY <1>2, <2>6, CapOnce
    <2>8. (a * p) * m = a * (p * m)
      BY <1>2, <2>4
    <2>9. G(k) = Least(a * m^(k - 1), cap)
      BY <1>5, <2>2, <2>5, <2>7, <2>8
    <2> QED BY <1>1, <2>9 DEF S
  <1> QED BY <1>6, <1>7

\* Attempts are bounded, so that the powers are those of Powers.
Bounded == Counted /\ attempt <= MaxAttempt

LEMMA BoundedAlways == Spec => []Bounded
  <1>1. Init => Bounded
    <2>1. Init => attempt = 1
      BY DEF Init
    <2>2. 1 \in Nat \ {0} /\ 1 <= MaxAttempt
      BY ExchangeAssumptions
    <2> QED BY <2>1, <2>2, PlannedInit DEF Counted, Bounded
  <1>2. Bounded /\ [Next]_vars => (attempt <= MaxAttempt)'
    <2> SUFFICES ASSUME Bounded, [Next]_vars PROVE attempt' <= MaxAttempt
      OBVIOUS
    <2>1. attempt' = attempt \/ (attempt < MaxAttempt /\ attempt' = attempt + 1)
      <3>1. Next => attempt' = attempt \/ (attempt < MaxAttempt /\ attempt' = attempt + 1)
        BY DEF Next, Plan, Send, SendFails, ReadSome, ReadEnd, ReadDatagram, ReadFails, Retry
      <3> QED BY <3>1 DEF vars
    <2> QED BY <2>1, ExchangeAssumptions DEF Bounded, Counted
  <1> QED BY <1>1, <1>2, CountedAlways, PTL DEF Spec, Bounded

\* A delay has no more milliseconds than ticks.
LEMMA MillisOfTicks == ASSUME NEW d \in Millis PROVE AsMillis(d) \in Millis
  <1> DEFINE q == d \div Ticks
  <1>1. Ticks \in Nat \ {0} /\ Limit \in Nat /\ d \in 0..Limit
    BY BackoffAssumptions DEF Millis
  <1>2. q \in Int /\ d % Ticks \in 0..(Ticks - 1) /\ d = Ticks * q + (d % Ticks)
    BY <1>1
  <1> HIDE DEF q
  <1>3. q <= -1 => Ticks * q <= -Ticks
    BY <1>1, <1>2
  <1>4. q >= 0 => Ticks * q >= q
    BY <1>1, <1>2
  <1>5. q >= 0
    BY <1>1, <1>2, <1>3
  <1>6. q <= d
    BY <1>1, <1>2, <1>4, <1>5
  <1>7. q \in 0..Limit
    BY <1>1, <1>2, <1>5, <1>6
  <1> QED BY <1>7 DEF q, AsMillis, Millis

\* The delays of both policies are the powers that their documentation promises, for
\* every configuration and every width of the integer type.
THEOREM DelaysAlwaysExponential == Spec => []DelaysAreExponential
  <1>1. Bounded => DelaysAreExponential
    <2> DEFINE c == job.config
               ms == [c EXCEPT !.initial = AsMillis(@)]
               cap == Greatest(AsMillis(Or(c.max, c.initial)), 1)
    <2> SUFFICES ASSUME Bounded, job.driver = "outage", attempt > 1, c.strategy = "Exponential"
                 PROVE  /\ c.max # None => BrokerDelay(c, attempt) = Exponential(c, c.max, attempt)
                        /\ ModbusDelay(c, attempt) = Ticks * Least(Exponential(ms, cap, attempt), MillisMax)
      BY DEF DelaysAreExponential
    <2>1. c \in Configs
      BY JobOfDriver, ExchangeAssumptions DEF Bounded, Counted, Planned
    <2>2. attempt \in 2..MaxAttempt /\ ~(attempt <= 1)
      BY ExchangeAssumptions DEF Bounded, Counted
    <2>3. c.initial \in Millis /\ c.multiplier \in Millis /\ c.max \in Millis \cup {None}
      BY <2>1 DEF Configs
    <2>4. cap \in Millis /\ AsMillis(c.initial) \in Millis
      <3>1. Or(c.max, c.initial) \in Millis
        BY <2>3 DEF Or
      <3>2. AsMillis(Or(c.max, c.initial)) \in Millis /\ AsMillis(c.initial) \in Millis
        BY <2>3, <3>1, MillisOfTicks
      <3> QED BY <3>2, BackoffAssumptions DEF Millis, Greatest
    <2>5. ms.initial = AsMillis(c.initial) /\ ms.multiplier = c.multiplier
      BY <2>1 DEF Configs
    <2> HIDE DEF c, ms
    <2>6. ModbusDelay(c, attempt)
            = Ticks * Least(Grow(AsMillis(c.initial), c.multiplier, cap, attempt), MillisMax)
      BY <2>2 DEF ModbusDelay
    <2> HIDE DEF cap
    <2>7. ModbusDelay(c, attempt) = Ticks * Least(Exponential(ms, cap, attempt), MillisMax)
      <3>1. Grow(AsMillis(c.initial), c.multiplier, cap, attempt) = Exponential(ms, cap, attempt)
        BY <2>2, <2>3, <2>4, <2>5, GrowIsPower DEF Exponential
      <3> QED BY <2>6, <3>1
    <2>8. ASSUME c.max # None PROVE BrokerDelay(c, attempt) = Exponential(c, c.max, attempt)
      <3>1. c.max \in Millis
        BY <2>3, <2>8
      <3>2. Grow(c.initial, c.multiplier, c.max, attempt) = Exponential(c, c.max, attempt)
        BY <2>2, <2>3, <3>1, GrowIsPower DEF Exponential
      <3>3. BrokerDelay(c, attempt) = Least(Grow(c.initial, c.multiplier, c.max, attempt), c.max)
        BY <2>2 DEF BrokerDelay
      <3>4. Grow(c.initial, c.multiplier, c.max, attempt) \in Millis
        <4>1. attempt \in Nat \ {0}
          BY DEF Bounded, Counted
        <4> QED BY <2>3, <3>1, <4>1, GrowSteps
      <3>5. Exponential(c, c.max, attempt) <= c.max
        <4> DEFINE x == Greatest(c.initial, 1) * Greatest(c.multiplier, 1)^(attempt - 1)
        <4>2. Exponential(c, c.max, attempt) = Least(x, c.max)
          BY DEF Exponential
        <4>3. Greatest(c.initial, 1) \in Nat /\ Greatest(c.multiplier, 1) \in 1..Limit
          BY <2>3, BackoffAssumptions DEF Millis, Greatest
        <4>4. attempt - 1 \in 0..MaxAttempt
          BY <2>2, ExchangeAssumptions
        <4>5. Greatest(c.multiplier, 1)^(attempt - 1) \in Nat
          BY <4>3, <4>4, PowerIsNat
        <4>6. x \in Nat
          BY <4>3, <4>5
        <4> HIDE DEF x
        <4> QED BY <3>1, <4>2, <4>6, BackoffAssumptions DEF Least, Millis
      <3> QED BY <3>1, <3>2, <3>3, <3>4, <3>5, BackoffAssumptions DEF Least, Millis
    <2> QED BY <2>7, <2>8
  <1> QED BY <1>1, BoundedAlways, PTL

-----------------------------------------------------------------------------
(* Answers.                                                                *)

\* What an accepted Modbus command asks for: a write is acknowledged, and what is read
\* as bytes or text comes from registers.
LEMMA ModbusShape ==
    ASSUME NEW c, ModbusNativeRequest(c).ok
    PROVE  LET r == ModbusNativeRequest(c).value
               resource == ModbusResource[c.target]
           IN  /\ c.target \in DOMAIN ModbusResource
               /\ r.is_write \in BOOLEAN
               /\ r.is_write => r.decoder = "Ack"
               /\ ~r.is_write => /\ r.decoder = resource.codec
                                 /\ ModbusRead(resource).ok /\ r.quantity = ModbusRead(resource).value
               /\ ~r.is_write /\ r.decoder \in RawCodecs => resource.kind \notin {"Coil", "DiscreteInput"}
  <1> DEFINE plan == ModbusPlan(c.target, c.intent, IF c.intent = "Read" THEN None ELSE c.payload,
                                ModbusResource[c.target])
             resource == ModbusResource[c.target]
  <1>1. ModbusNativePlan(c).ok
    BY DEF ModbusNativeRequest, Then
  <1>2. /\ c.intent \in {"Read", "Write"} /\ c.target \in DOMAIN ModbusResource
        /\ ModbusNativePlan(c) = Ok(plan)
    BY <1>1 DEF ModbusNativePlan, Err
  <1>3. ModbusNativeRequest(c) = ModbusEncode(plan)
    BY <1>2 DEF ModbusNativeRequest, Then, Ok
  <1>4. /\ plan.target = c.target /\ plan.action = c.intent
        /\ plan.payload = IF c.intent = "Read" THEN None ELSE c.payload
    BY DEF ModbusPlan
  <1> HIDE DEF plan
  <1>5. CASE c.intent = "Read"
    <2> DEFINE read == ModbusRead(resource)
    <2>1. ModbusEncode(plan) = IF ~read.ok THEN read
                               ELSE Ok([target |-> plan.target, is_write |-> plan.action = "Write",
                                        stores |-> <<>>, quantity |-> read.value, decoder |-> resource.codec])
      BY <1>4, <1>5 DEF ModbusEncode, Then
    <2>2. read.ok
      BY <1>3, <2>1
    <2>3. resource.codec \in RawCodecs => resource.kind \notin {"Coil", "DiscreteInput"}
      BY <2>2 DEF ModbusRead, Then, Err, RawCodecs, BitCodecs
    <2> HIDE DEF read, resource
    <2>w. (plan.action = "Write") = FALSE
      BY <1>4, <1>5
    <2>r. ModbusNativeRequest(c) = Ok([target |-> plan.target, is_write |-> FALSE, stores |-> <<>>,
                                       quantity |-> read.value, decoder |-> resource.codec])
      BY <1>3, <2>1, <2>2, <2>w, Zenon
    <2>4. /\ ModbusNativeRequest(c).value.is_write = FALSE
          /\ ModbusNativeRequest(c).value.decoder = resource.codec
          /\ ModbusNativeRequest(c).value.quantity = read.value
      BY <2>r DEF Ok
    <2> QED BY <1>2, <2>2, <2>3, <2>4 DEF resource, read
  <1>6. CASE c.intent = "Write"
    <2> DEFINE write == ModbusWrite(resource, plan.payload)
    <2>1. ModbusEncode(plan) = IF plan.payload = None THEN Err("InvalidBridgeMessage")
                               ELSE IF ~write.ok THEN write
                               ELSE Ok([target |-> plan.target, is_write |-> plan.action = "Write",
                                        stores |-> write.value, quantity |-> Len(write.value), decoder |-> "Ack"])
      BY <1>4, <1>6 DEF ModbusEncode, Then
    <2> HIDE DEF write
    <2>a. plan.payload # None /\ write.ok
      BY <1>3, <2>1 DEF Err
    <2>w. (plan.action = "Write") = TRUE
      BY <1>4, <1>6
    <2>r. ModbusNativeRequest(c) = Ok([target |-> plan.target, is_write |-> TRUE, stores |-> write.value,
                                       quantity |-> Len(write.value), decoder |-> "Ack"])
      BY <1>3, <2>1, <2>a, <2>w, Zenon
    <2>2. ModbusNativeRequest(c).value.is_write = TRUE /\ ModbusNativeRequest(c).value.decoder = "Ack"
      BY <2>r DEF Ok
    <2> QED BY <1>2, <2>2
  <1> QED BY <1>2, <1>5, <1>6

\* The bytes that an answer is decoded from.
Came(n) ==
    /\ job.driver = "HTTP" => n = job.sent
    /\ IsDatagram          => n = Least(Sent, FrameLimit["Udp"])
    /\ IsFramed            => n \in Nat

\* What is read has been asked for, and what has been answered was decoded from all the
\* bytes that came: every byte of an HTTP answer, one datagram, or some of a stream.
Decoding ==
    /\ Planned
    /\ stage # "command" => /\ path \in {"native", "bridge"} /\ request = RequestOn(path, job)
                            /\ job.driver # "outage"
    /\ stage \in {"planned", "reading"} => request.ok /\ job.driver \in {"HTTP", "Modbus"}
    /\ ~IsDatagram => received \in Nat
    /\ Answered => /\ request.ok /\ job.driver \in {"HTTP", "Modbus"}
                   /\ \E n : Came(n) /\ outcome = Decoded(n)

LEMMA DecodingInit == Init => Decoding
  BY PlannedInit DEF Init, Decoding, Answered

\* An answer is looked at once.
LEMMA AnswerKept ==
    ASSUME job' = job, request' = request
    PROVE  /\ \A n : Decoded(n)' = Decoded(n) /\ Came(n)' = Came(n)
           /\ IsDatagram' = IsDatagram /\ IsFramed' = IsFramed
  <1>1. DeviceAnswer' = DeviceAnswer
    BY DEF DeviceAnswer
  <1>2. AnswerSize' = AnswerSize
    BY <1>1 DEF AnswerSize
  <1>3. Sent' = Sent
    BY <1>2 DEF Sent
  <1>4. \A n : Decoded(n)' = Decoded(n)
    BY <1>1 DEF Decoded, Then
  <1>5. IsDatagram' = IsDatagram /\ IsFramed' = IsFramed
    BY DEF IsDatagram, IsFramed
  <1>6. \A n : Came(n)' = Came(n)
    BY <1>3, <1>5 DEF Came
  <1> QED BY <1>4, <1>5, <1>6

LEMMA DecodingNext == Decoding /\ [Next]_vars => Decoding'
  <1> SUFFICES ASSUME Decoding, [Next]_vars PROVE Decoding'
    OBVIOUS
  <1>0. Planned'
    BY PlannedNext DEF Decoding
  <1>j. job' = job
    BY DEF Next, Plan, Send, SendFails, ReadSome, ReadEnd, ReadDatagram, ReadFails, Retry, vars
  <1>d. IsDatagram' = IsDatagram /\ IsFramed' = IsFramed
    BY <1>j DEF IsDatagram, IsFramed
  <1>1. ASSUME NEW p \in {"native", "bridge"}, Plan(p) PROVE Decoding'
    <2>1. /\ path' = p /\ request' = RequestOn(p, job) /\ job.driver # "outage" /\ received' = received
          /\ \/ ~request'.ok /\ stage' = "done" /\ outcome' = request'
             \/ request'.ok /\ stage' = "done" /\ outcome' = None
             \/ request'.ok /\ stage' = "planned" /\ job.driver \in {"HTTP", "Modbus"}
      BY <1>1 DEF Plan, End
    <2>2. RequestOn(path', job') = RequestOn(p, job)
      BY <1>j, <2>1
    <2>3. ~Answered'
      BY <2>1 DEF Answered
    <2> QED BY <1>0, <1>j, <1>d, <2>1, <2>2, <2>3 DEF Decoding
  <1> SUFFICES ASSUME UNCHANGED <<job, path, request>> PROVE Decoding'
    BY <1>1 DEF Next, Send, SendFails, ReadSome, ReadEnd, ReadDatagram, ReadFails, Retry, vars
  <1>k. /\ \A n : Decoded(n)' = Decoded(n) /\ Came(n)' = Came(n)
        /\ RequestOn(path', job') = RequestOn(path, job)
    BY AnswerKept
  <1>2. CASE UNCHANGED <<stage, received, outcome>>
    <2>1. Answered' = Answered
      BY <1>2 DEF Answered
    <2> QED BY <1>0, <1>d, <1>k, <1>2, <2>1 DEF Decoding
  <1>3. CASE Send
    <2>1. stage = "planned" /\ stage' = "reading" /\ received' = received /\ ~Answered'
      BY <1>3 DEF Send, Answered
    <2> QED BY <1>0, <1>d, <1>k, <2>1 DEF Decoding
  <1>4. ASSUME NEW e, stage # "command", stage' = "done", outcome' = Err(e), received' = received
        PROVE  Decoding'
    <2>1. ~Answered'
      BY <1>4 DEF Answered, Err
    <2> QED BY <1>0, <1>d, <1>k, <1>4, <2>1 DEF Decoding
  <1>5. ASSUME NEW n, stage = "reading", Came(n), ~IsDatagram => received' \in Nat,
               stage' = "done", outcome' = Decoded(n)
        PROVE  Decoding'
    <2>1. \E m : Came(m)' /\ outcome' = Decoded(m)'
      BY <1>5, <1>k
    <2> QED BY <1>0, <1>d, <1>k, <1>5, <2>1 DEF Decoding
  <1>6. ASSUME NEW k \in 1..BufferSize, ReadSome(k) PROVE Decoding'
    <2>1. stage = "reading" /\ ~IsDatagram /\ received \in Nat /\ received + k \in Nat
      <3>1. stage = "reading" /\ ~IsDatagram
        BY <1>6 DEF ReadSome
      <3>2. received \in Nat
        BY <3>1 DEF Decoding
      <3> QED BY <3>1, <3>2, ExchangeAssumptions
    <2>2. CASE received' = received + k /\ UNCHANGED <<stage, outcome>>
      <3>1. ~Answered'
        BY <2>1, <2>2 DEF Answered
      <3> QED BY <1>0, <1>d, <1>k, <2>1, <2>2, <3>1 DEF Decoding
    <2>3. CASE IsFramed /\ received' = received + k /\ stage' = "done" /\ outcome' = Decoded(received + k)
      <3>1. Came(received + k)
        BY <2>1, <2>3 DEF Came, IsFramed
      <3> QED BY <1>5, <2>1, <2>3, <3>1
    <2>4. CASE stage' = "done" /\ outcome' = Err("frame exceeded") /\ received' = received
      BY <1>4, <2>1, <2>4
    <2>5. \/ received' = received + k /\ UNCHANGED <<stage, outcome>>
          \/ IsFramed /\ received' = received + k /\ stage' = "done" /\ outcome' = Decoded(received')
          \/ stage' = "done" /\ outcome' = Err("frame exceeded") /\ received' = received
      BY <1>6 DEF ReadSome, End
    <2> QED BY <2>2, <2>3, <2>4, <2>5
  <1>7. CASE ReadEnd
    <2>1. stage = "reading" /\ ~IsDatagram /\ received = Sent /\ received \in Nat /\ received' = received
          /\ stage' = "done" /\ job.driver \in {"HTTP", "Modbus"} /\ request.ok
      BY <1>7 DEF ReadEnd, End, Decoding
    <2>2. outcome' = IF IsFramed /\ received = 0 THEN Err("failed to read: Closed") ELSE Decoded(received)
      BY <1>7 DEF ReadEnd, End
    <2>3. Came(received)
      BY <2>1 DEF Came, Sent
    <2> QED BY <1>4, <1>5, <2>1, <2>2, <2>3
  <1>8. CASE ReadDatagram
    <2>1. stage = "reading" /\ IsDatagram /\ stage' = "done"
          /\ outcome' = Decoded(Least(Sent, FrameLimit["Udp"])) /\ request.ok
      BY <1>8 DEF ReadDatagram, End, Decoding
    <2>2. Came(Least(Sent, FrameLimit["Udp"]))
      BY <2>1 DEF Came, IsDatagram, IsFramed
    <2> QED BY <1>5, <2>1, <2>2
  <1>9. CASE SendFails \/ ReadFails
    BY <1>4, <1>9 DEF SendFails, ReadFails, End
  <1> QED BY <1>1, <1>2, <1>3, <1>6, <1>7, <1>8, <1>9 DEF Next, Plan, Retry, vars

LEMMA DecodingAlways == Spec => []Decoding
  BY DecodingInit, DecodingNext, PTL DEF Spec

\* The body of a decoded HTTP response has at least the length the server declared.
LEMMA WholeBody ==
    ASSUME NEW r, NEW n, NEW c, AnswersHttp([command |-> c, response |-> r, sent |-> n]), ParseResponse(r, n).ok
    PROVE  Len(HttpResult(c, ParseResponse(r, n).value).payload.v) >= IF r.length = None THEN 0 ELSE r.length
  <1> DEFINE parsed == ParseResponse(r, n)
             k == n - r.head
             body == SubSeq(r.body, 1, k)
  <1>1. r.head \in Nat /\ r.length \in Nat \cup {None} /\ r.body \in Seq(Nat) /\ n \in 0..(r.head + Len(r.body))
    BY DEF AnswersHttp, ResponseSize
  <1>2. parsed.ok
    OBVIOUS
  <1>3. /\ ~(n < r.head) /\ (r.length # None => ~(k < r.length))
        /\ parsed = Ok([status |-> r.status, headers |-> r.headers, body |-> body])
    BY <1>2 DEF ParseResponse, Err
  <1>4. HttpResult(c, parsed.value).payload.v = body
    BY <1>3 DEF Ok, HttpResult, HttpPayload
  <1>5. k \in 0..Len(r.body)
    BY <1>1, <1>3
  <1>6. Len(body) = k
    BY <1>1, <1>5
  <1> HIDE DEF body, parsed
  <1>7. Len(body) >= IF r.length = None THEN 0 ELSE r.length
    BY <1>1, <1>3, <1>5, <1>6
  <1> QED BY <1>4, <1>7 DEF parsed

\* An exception in a frame of TCP or UDP is too short for the data that it seems to have.
LEMMA ExceptionTooShort ==
    ASSUME NEW proto \in {"Tcp", "Udp"}, NEW a, a.kind = "exception", a.code \in Nat \ {0}, a.mbap = TRUE,
           NEW n \in Nat, proto = "Udp" => n <= 9
    PROVE  ~DataSlice(proto, a, TrimFrame(proto, a, n)).ok
  <1>1. WireSize(proto, a) = 9
    BY DEF WireSize
  <1>2. KnownSize(proto, a, n) = IF n < 6 THEN None ELSE 9
    BY <1>1 DEF KnownSize
  <1>3. None # 9
    BY BackoffAssumptions
  <1>4. TrimFrame(proto, a, n) \in Nat /\ TrimFrame(proto, a, n) <= 9
    <2>1. CASE n < 6
      BY <1>2, <2>1 DEF TrimFrame
    <2>2. CASE ~(n < 6)
      BY <1>2, <1>3, <2>2 DEF TrimFrame
    <2> QED BY <2>1, <2>2
  <1>5. TrimFrame(proto, a, n) < 9 + a.code
    BY <1>4
  <1> HIDE DEF TrimFrame
  <1> QED BY <1>5 DEF DataSlice, Err

\* A decoded Modbus answer is the whole answer.
LEMMA WholeFrame ==
    ASSUME Decoding, stage # "command", request.ok, job.driver = "Modbus",
           NEW n, Came(n), outcome = Decoded(n), outcome.ok
    PROVE  \/ UncheckedException
           \/ /\ job.fault = None
              /\ outcome.value.payload = IF request.value.is_write THEN [type |-> "Null", v |-> <<>>]
                                         ELSE DecodeValue(request.value.decoder, DeviceAnswer.units)
  <1> DEFINE a == DeviceAnswer
             q == request.value
             resource == ModbusResource[job.command.target]
  <1>1. Came(n) /\ outcome = Decoded(n)
    OBVIOUS
  <1> DEFINE frame == TrimFrame(job.proto, a, n)
             d == ModbusDecode(job.proto, q.decoder, a, frame)
  <1>2. d.ok /\ outcome.value.payload = d.value
    <2>1. outcome = Then(d, LAMBDA p : Ok(ModbusResult(job.command, p)))
      BY <1>1 DEF Decoded
    <2>2. outcome.ok
      OBVIOUS
    <2> HIDE DEF d
    <2> QED BY <2>1, <2>2 DEF Then, Ok, ModbusResult
  <1>3. AnswersModbus(job)
    BY JobOfDriver, ExchangeAssumptions DEF Decoding, Planned
  <1>4. /\ q.is_write \in BOOLEAN /\ (q.is_write => q.decoder = "Ack")
        /\ ~q.is_write /\ q.decoder \in RawCodecs => resource.kind \notin {"Coil", "DiscreteInput"}
    <2>1. stage # "command" /\ request.ok
      OBVIOUS
    <2>2. path \in {"native", "bridge"} /\ request = RequestOn(path, job)
      BY <2>1 DEF Decoding
    <2>3. RequestOn(path, job) = ModbusNativeRequest(job.command)
      BY <2>2, ModbusPathsAlike DEF RequestOn
    <2> QED BY <2>1, <2>2, <2>3, ModbusShape
  <1>5. /\ a.kind = IF job.fault # None THEN "exception" ELSE IF q.is_write THEN "ack" ELSE "data"
        /\ a.code = job.fault /\ a.mbap = TRUE
        /\ a.bytes = IF resource.kind \in {"Coil", "DiscreteInput"} THEN a.units ELSE Unpack(a.units)
    BY DEF DeviceAnswer
  <1> HIDE DEF a, q, resource, frame, d
  <1>6. CASE q.decoder \notin RawCodecs
    <2> DEFINE whole == frame = WireSize(job.proto, a) /\ a.mbap
    <2>1. d = IF job.proto = "Ascii" /\ ~whole THEN Err("InvalidFrame")
              ELSE CASE whole /\ q.decoder = "Ack" /\ a.kind = "ack" -> Ok([type |-> "Null", v |-> <<>>])
                     [] whole /\ q.decoder # "Ack" /\ a.kind = "data" -> Ok(DecodeValue(q.decoder, a.units))
                     [] OTHER -> Err("InvalidPayload")
      BY <1>6 DEF ModbusDecode, d
    <2> HIDE DEF whole
    <2>2. \/ a.kind = "ack" /\ d = Ok([type |-> "Null", v |-> <<>>])
          \/ a.kind = "data" /\ d = Ok(DecodeValue(q.decoder, a.units))
      BY <1>2, <2>1 DEF Err
    <2>3. CASE a.kind = "ack" /\ d = Ok([type |-> "Null", v |-> <<>>])
      BY <1>2, <1>4, <1>5, <2>3 DEF Ok, q
    <2>4. CASE a.kind = "data" /\ d = Ok(DecodeValue(q.decoder, a.units))
      BY <1>2, <1>4, <1>5, <2>4 DEF Ok, q, a
    <2> QED BY <2>2, <2>3, <2>4
  <1>7. CASE q.decoder \in RawCodecs
    <2> DEFINE binary == IF job.proto = "Ascii" THEN (frame - 3) \div 2 ELSE frame
               slice == DataSlice(job.proto, a, binary)
               Text(b) == IF q.decoder = "Utf8String" THEN [type |-> "String", v |-> TrimNuls(b)]
                          ELSE [type |-> "Bytes", v |-> b]
    <2>1. ~q.is_write
      BY <1>4, <1>7 DEF RawCodecs
    <2>2. d.ok => d = Then(slice, LAMBDA b : Ok(Text(b)))
      BY <1>7 DEF ModbusDecode, d, Err
    <2>3. slice.ok /\ d.value = Text(slice.value)
      <3> HIDE DEF slice, Text
      <3> QED BY <1>2, <2>2 DEF Then, Ok
    <2>4. CASE job.fault = None
      <3>1. a.kind = "data" /\ a.bytes = Unpack(a.units)
        BY <1>4, <1>5, <1>7, <2>1, <2>4
      <3>2. slice.value = a.bytes
        BY <2>3, <3>1 DEF DataSlice, Ok, Err
      <3>3. DecodeValue(q.decoder, a.units) = Text(Unpack(a.units))
        BY <1>7 DEF DecodeValue, RawCodecs
      <3> HIDE DEF slice, Text
      <3> QED BY <1>2, <2>1, <2>3, <2>4, <3>1, <3>2, <3>3 DEF q, a
    <2>5. CASE job.fault # None
      <3>1. CASE job.proto \in {"Rtu", "Ascii"}
        BY <1>7, <2>5, <3>1 DEF UncheckedException, q
      <3>2. CASE job.proto \in {"Tcp", "Udp"}
        <4>1. a.kind = "exception" /\ a.code \in Nat \ {0} /\ a.mbap = TRUE
          BY <1>3, <1>5, <2>5 DEF AnswersModbus
        <4>2. n \in Nat /\ (job.proto = "Udp" => n <= 9)
          <5>1. CASE job.proto = "Tcp"
            BY <1>1, <5>1 DEF Came, IsFramed
          <5>2. CASE job.proto = "Udp"
            <6>1. n = Least(Sent, FrameLimit["Udp"]) /\ FrameLimit["Udp"] \in Nat
              BY <1>1, <1>3, <5>2, ModbusAssumptions DEF Came, IsDatagram, AnswersModbus
            <6>2. AnswerSize = 9
              BY <4>1, <5>2 DEF AnswerSize, WireSize, a
            <6>3. job.lost \in Nat /\ job.extra = 0
              BY <1>3, <2>5, <5>2 DEF AnswersModbus
            <6>4. Sent \in Nat /\ Sent <= 9
              BY <6>2, <6>3 DEF Sent, Greatest
            <6> QED BY <6>1, <6>4 DEF Least
          <5> QED BY <3>2, <5>1, <5>2
        <4>3. ~slice.ok
          BY <3>2, <4>1, <4>2, ExceptionTooShort DEF frame
        <4> QED BY <2>3, <4>3
      <3> QED BY <1>3, <3>1, <3>2 DEF AnswersModbus
    <2> QED BY <2>4, <2>5
  <1> QED BY <1>6, <1>7

\* However an answer is split or cut short, what is taken for an answer is a whole one,
\* and no exception is, but for the raw decoders on a serial line.
THEOREM AnswersAreWhole == Spec => []WholeAnswer
  <1>1. Decoding => WholeAnswer
    <2> SUFFICES ASSUME Decoding, Answered
                 PROVE  IF job.driver = "HTTP"
                        THEN Len(outcome.value.payload.v) >= IF job.response.length = None THEN 0
                                                             ELSE job.response.length
                        ELSE \/ UncheckedException
                             \/ /\ job.fault = None
                                /\ outcome.value.payload =
                                     IF request.value.is_write THEN [type |-> "Null", v |-> <<>>]
                                     ELSE DecodeValue(request.value.decoder, DeviceAnswer.units)
      BY DEF WholeAnswer
    <2>1. CASE job.driver = "HTTP"
      <3>1. outcome.ok /\ outcome = Decoded(job.sent)
        BY <2>1 DEF Decoding, Answered, Came
      <3>2. outcome = Then(ParseResponse(job.response, job.sent), LAMBDA r : Ok(HttpResult(job.command, r)))
        BY <2>1, <3>1 DEF Decoded
      <3>3. AnswersHttp(job)
        BY <2>1, JobOfDriver, ExchangeAssumptions DEF Decoding, Planned
      <3>4. AnswersHttp([command |-> job.command, response |-> job.response, sent |-> job.sent])
        BY <3>3 DEF AnswersHttp
      <3>5. /\ ParseResponse(job.response, job.sent).ok
            /\ outcome.value = HttpResult(job.command, ParseResponse(job.response, job.sent).value)
        BY <3>1, <3>2 DEF Then, Ok
      <3> QED BY <2>1, <3>4, <3>5, WholeBody
    <2>2. CASE job.driver = "Modbus"
      <3>1. PICK n : Came(n) /\ outcome = Decoded(n)
        BY DEF Decoding
      <3>2. stage # "command" /\ request.ok /\ outcome.ok
        BY DEF Answered, Decoding
      <3> QED BY <2>2, <3>1, <3>2, WholeFrame
    <2> QED BY <2>1, <2>2 DEF Decoding
  <1> QED BY <1>1, DecodingAlways, PTL
=============================================================================
