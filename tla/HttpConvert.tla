----------------------------- MODULE HttpConvert -----------------------------
(***************************************************************************)
(* The HTTP driver's conversions (crates/ferredge-proto-http/src: lib.rs,  *)
(* meta.rs) and its reading of a response (handler.rs): a command is       *)
(* planned natively or through the bridge, encoded as a request, and the   *)
(* bytes read until the server closes are parsed and turned into a result. *)
(***************************************************************************)
EXTENDS Bridge

CONSTANTS
    HttpResource, \* resources of the device: name -> [method, slug, headers]
    TextTypes     \* content types that start with "text/"

\* HttpMeta and its keys.
HttpSchema ==
    [method       |-> Field("Str", None, None),
     path         |-> Field("Str", None, None),
     status_code  |-> Field("U64", 0..U16Max, None),
     content_type |-> Field("Str", None, None)]

HttpView(transport) == ViewOf("HTTP", HttpSchema, transport)

ContentType == [name |-> "content-type", case |-> "Canonical"]

\* HttpNativePlan
HttpPlan(target, payload, method, path, content_type, headers) ==
    [target |-> target, payload |-> payload, method |-> method, path |-> path,
     content_type |-> content_type, headers |-> headers]

\* The native planner: the options win over the capture, whose headers follow theirs.
HttpNativePlan(c) ==
    IF c.intent \notin RequestIntents THEN Err("UnsupportedIntent")
    ELSE Then(HttpView(c.extensions), LAMBDA view :
           Ok(HttpPlan(c.target, IF c.intent = "Read" THEN None ELSE c.payload,
                       Or(c.method, view.fields.method), Or(c.path, view.fields.path),
                       Or(c.content_type, view.fields.content_type), Merge(c.headers, view.headers))))

\* Faulty variant: the path of the capture is not looked at.
HttpPlanFromBridgeNoPath(b) ==
    IF b.op # "RequestResponse" THEN Err("InvalidBridgeMessage")
    ELSE Then(HttpView(b.transport), LAMBDA view :
           Ok(HttpPlan(b.target, b.payload, Or(b.method, view.fields.method), b.path,
                       Or(b.content_type, view.fields.content_type), Or(b.headers, <<>>))))

\* HttpNativePlan::try_from(&BridgeMessage)
HttpPlanFromBridge(b) ==
    IF b.op # "RequestResponse" THEN Err("InvalidBridgeMessage")
    ELSE Then(HttpView(b.transport), LAMBDA view :
           Ok(HttpPlan(b.target, b.payload, Or(b.method, view.fields.method), Or(b.path, view.fields.path),
                       Or(b.content_type, view.fields.content_type), Or(b.headers, <<>>))))

\* http_body_from_payload
HttpBody(payload) ==
    IF payload = None THEN Ok(None)
    ELSE CASE payload.type \in {"Bytes", "String"} -> Ok(payload.v)
           [] payload.type = "Null"                -> Ok(<<>>)
           [] OTHER                                -> Err("InvalidPayload")

\* Faulty variant: keys are compared with their case.
MergeHeaderExact(headers, h) ==
    LET at == {i \in DOMAIN headers : headers[i].key = h.key} IN
    IF at = {} THEN Append(headers, h) ELSE [headers EXCEPT ![Min(at)] = h]

\* merge_header: the first header of that name is replaced, key and value.
MergeHeader(headers, h) ==
    LET at == {i \in DOMAIN headers : headers[i].key.name = h.key.name} IN
    IF at = {} THEN Append(headers, h) ELSE [headers EXCEPT ![Min(at)] = h]

\* HttpRequestEncoder::encode
HttpEncode(plan) ==
    IF plan.target \notin DOMAIN HttpResource THEN Err("UnknownResource")
    ELSE LET resource == HttpResource[plan.target]
             typed    == IF plan.content_type = None THEN <<>>
                         ELSE <<[key |-> ContentType, value |-> plan.content_type]>>
         IN  Then(HttpBody(plan.payload), LAMBDA body :
               Ok([method  |-> Or(plan.method, resource.method), path |-> Or(plan.path, resource.slug),
                   body    |-> body,
                   headers |-> FoldLeft(MergeHeader, Or(resource.headers, <<>>), plan.headers \o typed)]))

\* native_request and bridge_request
HttpNativeRequest(c) == Then(HttpNativePlan(c), HttpEncode)
HttpBridgeRequest(c) == Then(Then(CommandToRequestResponse(c), HttpPlanFromBridge), HttpEncode)

-----------------------------------------------------------------------------
(* Responses.  The server sends [status, head, length, headers, body]:     *)
(* head is the size of status line, headers and terminator, length the     *)
(* declared Content-Length or None, status None when it does not parse.    *)

ResponseSize(resp) == resp.head + Len(resp.body)

\* parse_response on the first `received` bytes.
ParseResponse(resp, received) ==
    IF received < resp.head THEN Err("missing header terminator")
    ELSE IF resp.status = None THEN Err("invalid status line")
    ELSE IF resp.length # None /\ received - resp.head < resp.length THEN Err("body too short")
    ELSE Ok([status |-> resp.status, headers |-> resp.headers,
             body |-> SubSeq(resp.body, 1, received - resp.head)])

\* header_value: the first header of that name.
HeaderValue(headers, name) ==
    LET at == {i \in DOMAIN headers : headers[i].key.name = name} IN
    IF at = {} THEN None ELSE headers[Min(at)].value

\* http_payload_from_response_body (bodies of a text type are valid UTF-8 here).
HttpPayload(r) == [type |-> IF HeaderValue(r.headers, "content-type") \in TextTypes THEN "String" ELSE "Bytes", v |-> r.body]

\* RoutedMessage::try_from(HttpDecodedResponse)
HttpResult(c, r) ==
    LET view == [headers |-> IF r.headers = <<>> THEN None ELSE r.headers,
                 fields  |-> [method |-> c.method, path |-> c.path, status_code |-> r.status,
                              content_type |-> HeaderValue(r.headers, "content-type")]]
    IN  [command_id |-> c.id, payload |-> HttpPayload(r), correlation |-> CorrelationFor(c),
         state |-> IF r.status < 400 THEN "Completed" ELSE "Rejected",
         error |-> IF r.status < 400 THEN None ELSE r.status,
         transport |-> IntoTransportMeta("HTTP", HttpSchema, view)]
=============================================================================
