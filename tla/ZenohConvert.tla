---------------------------- MODULE ZenohConvert ----------------------------
(***************************************************************************)
(* The conversions of the Zenoh driver                                     *)
(* (crates/ferredge-proto-zenoh/src/convert.rs): the native plan of a      *)
(* command, and the requests encoded from it or from a bridge message.     *)
(***************************************************************************)
EXTENDS Bridge

\* payload_to_bytes
ZenohPayload(payload) ==
    CASE payload.type \in {"Bytes", "String"} -> [json |-> FALSE, v |-> payload.v]
      [] payload.type = "Null"                -> [json |-> FALSE, v |-> <<>>]
      [] OTHER                                -> [json |-> TRUE, v |-> payload.v]

Publish(id, key_expr, payload) ==
    [type |-> "Publish", command_id |-> id, key_expr |-> key_expr, payload |-> payload]
Query(id, key_expr) == [type |-> "Query", command_id |-> id, key_expr |-> key_expr, payload |-> None]

\* plan_from_command.  Invoke declares a queryable when the operation is
\* "queryable" and its arguments are a map that names a key expression.
ZenohPlan(c) ==
    LET topic == c.kind \in {None, "Topic"}
        Plan(type) == [type |-> type, command_id |-> c.id, key_expr |-> c.target, payload |-> c.payload]
    IN  IF c.intent \in MessagingIntents /\ ~topic THEN Err("InvalidAddressType")
        ELSE CASE c.intent \in {"Send", "Write"} -> Ok(Plan("Put"))
               [] c.intent = "Subscribe"         -> Ok(Plan("Subscribe"))
               [] c.intent = "Unsubscribe"       -> Ok(Plan("Unsubscribe"))
               [] c.intent = "Read"              -> Ok(Plan("Get"))
               [] OTHER ->
                    IF c.target = "queryable" /\ c.payload # None /\ c.payload.type = "Map"
                    THEN Ok([Plan("DeclareQueryable") EXCEPT !.key_expr = c.payload.v])
                    ELSE Err("UnsupportedIntent")

\* ZenohBridgeCodec::encode of a native plan: only Put and Get are requests.
ZenohEncodePlan(plan) ==
    CASE plan.type = "Put" -> Ok(Publish(plan.command_id, plan.key_expr, ZenohPayload(plan.payload)))
      [] plan.type = "Get" -> Ok(Query(plan.command_id, plan.key_expr))
      [] OTHER             -> Err("UnsupportedIntent")

\* ZenohBridgeCodec::encode of a bridge message: publishing and reading only.
ZenohEncodeBridge(b) ==
    CASE b.op = "Messaging" /\ b.action = "Publish" ->
           Ok(Publish(b.id, b.target,
                      IF b.payload = None THEN [json |-> FALSE, v |-> <<>>] ELSE ZenohPayload(b.payload)))
      [] b.op = "RequestResponse" /\ b.action = "Read" -> Ok(Query(b.id, b.target))
      [] OTHER -> Err("UnsupportedIntent")

ZenohNativeRequest(c) == Then(ZenohPlan(c), ZenohEncodePlan)
ZenohBridgeRequest(c) ==
    Then(IF c.intent \in MessagingIntents THEN CommandToMessaging(c) ELSE CommandToRequestResponse(c),
         ZenohEncodeBridge)
=============================================================================
