----------------------------- MODULE MqttConvert -----------------------------
(***************************************************************************)
(* The MQTT driver's conversions (crates/ferredge-proto-mqtt/src:          *)
(* convert.rs, meta.rs, the planners of lib.rs): a command is planned      *)
(* natively or through the bridge, both plans are read as one view, and    *)
(* the view is built into a packet of the endpoint's protocol version.     *)
(***************************************************************************)
EXTENDS Bridge

CONSTANTS
    Formats,    \* names of payload formats
    Wildcards,  \* topics no publish may name
    Unbuildable \* what the packet library's constructors refuse: property or filter -> values

\* A property that is absent is not constructed.
ASSUME MqttAssumptions ==
    /\ \A f \in DOMAIN Unbuildable : None \notin Unbuildable[f]
    /\ "user_properties" \in DOMAIN Unbuildable => <<>> \notin Unbuildable["user_properties"]

\* MqttMeta and its keys.
MqttSchema ==
    [topic |-> Field("Str", None, None), qos |-> Field("U64", 0..U8Max, None),
     retain |-> Field("Bool", None, FALSE), duplicate |-> Field("Bool", None, FALSE),
     packet_id |-> Field("U64", 0..U16Max, None), content_type |-> Field("Str", None, None),
     payload_format |-> Field("Str", Formats, None),
     message_expiry_interval_secs |-> Field("U64", 0..U32Max, None),
     response_topic |-> Field("Str", None, None), correlation_data |-> Field("Bytes", None, None),
     topic_alias |-> Field("U64", 0..U16Max, None),
     subscription_identifiers |-> Field("U64List", 0..U32Max, <<>>),
     reason_codes |-> Field("StrList", None, <<>>), reason_string |-> Field("Str", None, None),
     durable_name |-> Field("Str", None, None), shared_group |-> Field("Str", None, None),
     no_local |-> Field("Bool", None, FALSE), retain_as_published |-> Field("Bool", None, FALSE),
     retain_handling |-> Field("U64", 0..2, None)]

MqttView(transport) == ViewOf("MQTT", MqttSchema, transport)

\* mqtt_payload_bytes: what is neither bytes, text nor null is serialised as JSON.
MqttPayload(payload) ==
    CASE payload.type \in {"Bytes", "String"} -> [json |-> FALSE, v |-> payload.v]
      [] payload.type = "Null"                -> [json |-> FALSE, v |-> <<>>]
      [] OTHER                                -> [json |-> TRUE, v |-> payload.v]

\* channel_reply_to of the correlation's reply address.
ReplyTo(correlation) ==
    IF correlation # None /\ correlation.reply_to # None /\ correlation.reply_to.kind = "Channel"
    THEN correlation.reply_to.name ELSE None

RequestId(correlation) == IF correlation = None THEN None ELSE correlation.request_id

\* PublishView
PublishView(id, topic, payload, delivery, view, correlation, user_properties) ==
    [kind |-> "Publish", command_id |-> id, topic |-> topic, payload |-> MqttPayload(payload),
     delivery |-> delivery, retain |-> view.fields.retain, payload_format |-> view.fields.payload_format,
     content_type |-> view.fields.content_type, expiry |-> view.fields.message_expiry_interval_secs,
     topic_alias |-> view.fields.topic_alias, reply_to |-> ReplyTo(correlation),
     response_topic |-> view.fields.response_topic, correlation_id |-> RequestId(correlation),
     correlation_data |-> view.fields.correlation_data, user_properties |-> user_properties]

\* SubscribeView: only the first subscription identifier is used.
SubscribeView(kind, id, topic, delivery, durable_name, shared_group, view, user_properties) ==
    [kind |-> kind, command_id |-> id, topic |-> topic, delivery |-> delivery,
     durable_name |-> durable_name, shared_group |-> shared_group,
     no_local |-> view.fields.no_local, retain_as_published |-> view.fields.retain_as_published,
     retain_handling |-> view.fields.retain_handling,
     subscription_identifier |-> IF view.fields.subscription_identifiers = <<>> THEN None
                                 ELSE Head(view.fields.subscription_identifiers),
     user_properties |-> user_properties]

SupportedKind(c) == c.kind \in {None, "Topic"}

\* merged_user_properties
MergedUserProperties(headers, captured) == Merge(headers, captured)

\* The native planner and *_view_from_native_plan.
MqttNativeView(c) ==
    CASE c.intent \in {"Send", "Subscribe"} ->
           Then(MqttView(c.extensions), LAMBDA view :
             IF ~SupportedKind(c) THEN Err("UnsupportedChannelKind")
             ELSE IF c.intent = "Send"
             THEN Ok(PublishView(c.id, c.target, c.payload, c.delivery, view, c.correlation,
                                 MergedUserProperties(c.headers, view.headers)))
             ELSE Ok(SubscribeView("Subscribe", c.id, c.target, c.delivery, c.durable_name,
                                   c.shared_group, view, MergedUserProperties(<<>>, view.headers))))
      [] c.intent = "Unsubscribe" ->
           IF ~SupportedKind(c) THEN Err("UnsupportedChannelKind")
           ELSE Ok(SubscribeView("Unsubscribe", c.id, c.target, None, None, None, DefaultView(MqttSchema), <<>>))
      [] OTHER -> Err("UnsupportedIntent")

\* planner_message_for_command, then packet_semantics_from_bridge with
\* publish_view_from_bridge and subscription_view_from_bridge.
MqttBridgeView(c) ==
    IF c.intent \notin MessagingIntents THEN Err("UnsupportedIntent")
    ELSE IF ~SupportedKind(c) THEN Err("UnsupportedChannelKind")
    ELSE Then(CommandToMessaging(c), LAMBDA b :
         Then(MqttView(b.transport), LAMBDA view :
           IF b.action = "Publish"
           THEN Ok(PublishView(b.id, b.target, b.payload, b.delivery, view, b.correlation, Or(b.headers, <<>>)))
           ELSE Ok(SubscribeView(b.action, b.id, b.target, b.delivery, b.durable_name, b.shared_group, view,
                                 Or(b.headers, <<>>)))))

QosFromDelivery(delivery) ==
    CASE delivery = "ExactlyOnce" -> 2 [] delivery = "AtLeastOnce" -> 1 [] OTHER -> 0

\* Faulty variant: the correlation data is not looked at.
V5OnlyPublishNoData(p) ==
    \/ \E f \in {"payload_format", "content_type", "expiry", "topic_alias", "response_topic",
                 "reply_to", "correlation_id"} : p[f] # None
    \/ p.user_properties # <<>>

\* validate_v3_publish_support fails.
V5OnlyPublish(p) ==
    \/ \E f \in {"payload_format", "content_type", "expiry", "topic_alias", "response_topic",
                 "correlation_data", "reply_to", "correlation_id"} : p[f] # None
    \/ p.user_properties # <<>>

\* validate_v3_subscribe_support fails.
V5OnlySubscription(s) ==
    \/ s.no_local \/ s.retain_as_published
    \/ \E f \in {"retain_handling", "subscription_identifier", "durable_name", "shared_group"} : s[f] # None
    \/ s.user_properties # <<>>

\* build_v5_publish_props
PublishProps(p) ==
    [payload_format |-> p.payload_format, expiry |-> p.expiry, topic_alias |-> p.topic_alias,
     response_topic |-> Or(p.response_topic, p.reply_to), content_type |-> p.content_type,
     correlation_data |-> Or(p.correlation_data,
                             Or(p.correlation_id, IF p.reply_to # None \/ p.response_topic # None
                                                  THEN p.command_id ELSE None)),
     user_properties |-> p.user_properties]

\* build_v5_subscribe_props and build_v5_unsubscribe_props: an Unsubscribe names its
\* command in a user property.
SubscriptionProps(s) ==
    IF s.kind = "Subscribe"
    THEN [subscription_identifier |-> s.subscription_identifier, user_properties |-> s.user_properties]
    ELSE [subscription_identifier |-> None,
          user_properties |-> <<[key |-> [name |-> "ferredge-command-id", case |-> "Canonical"],
                                 value |-> s.command_id]>>]

\* A constructor of the packet library fails (a topic alias or a subscription identifier
\* of 0, a response topic with wildcards, a string that is too long).
Refused(fields) == \E f \in DOMAIN fields \cap DOMAIN Unbuildable : fields[f] \in Unbuildable[f]

\* build_publish_packet; the builder refuses wildcards in the topic.
BuildPublish(p, version) ==
    LET packet == [version |-> version, type |-> "Publish", command_id |-> p.command_id, topic |-> p.topic,
                   qos |-> QosFromDelivery(p.delivery), retain |-> p.retain, payload |-> p.payload]
    IN  IF version = "v3" /\ V5OnlyPublish(p) THEN Err("MqttV5PublishOptionsOnV3")
        ELSE IF p.topic \in Wildcards \/ (version = "v5" /\ Refused(PublishProps(p)))
        THEN Err("PacketBuild")
        ELSE Ok([packet |-> packet, props |-> IF version = "v5" THEN PublishProps(p) ELSE None])

\* build_subscribe_packet and build_unsubscribe_packet; a shared group is part of the
\* topic filter ($share/{group}/{topic}), a durable name is not sent.
BuildSubscription(s, version) ==
    LET packet == [version |-> version, type |-> s.kind, command_id |-> s.command_id,
                   filter |-> <<s.shared_group, s.topic>>, qos |-> QosFromDelivery(s.delivery),
                   no_local |-> s.no_local, retain_as_published |-> s.retain_as_published,
                   retain_handling |-> s.retain_handling]
        refused == Refused([filter |-> packet.filter])
    IN  IF version = "v3" /\ V5OnlySubscription(s) /\ (s.kind = "Subscribe" => ~refused)
        THEN Err("MqttV5SubscriptionOptionsOnV3")
        ELSE IF refused \/ (version = "v5" /\ Refused(SubscriptionProps(s))) THEN Err("PacketBuild")
        ELSE Ok([packet |-> packet, props |-> IF version = "v5" THEN SubscriptionProps(s) ELSE None])

\* build_packet_request
BuildPacket(v, version) ==
    IF v.kind = "Publish" THEN BuildPublish(v, version) ELSE BuildSubscription(v, version)

\* MqttBridgeCodec::encode on both paths.
MqttNativeRequest(c, version) == Then(MqttNativeView(c), LAMBDA v : BuildPacket(v, version))
MqttBridgeRequest(c, version) == Then(MqttBridgeView(c), LAMBDA v : BuildPacket(v, version))
=============================================================================
