------------------------------- MODULE Bridge -------------------------------
(***************************************************************************)
(* The protocol-neutral command layer (crates/ferredge-core: command.rs,   *)
(* headers.rs, meta.rs, route.rs) and the bridge planner                   *)
(* (crates/ferredge-bridge/src/planner.rs): what a command carries, how it *)
(* is planned as a bridge message, how an open capture is decoded through  *)
(* the typed view of a protocol, and how a result is put in the bridge     *)
(* envelope.  Only operators; Exchange composes them with the drivers.     *)
(*                                                                         *)
(* An absent Option is None.  A command is one record for every intent,    *)
(* with the fields an intent does not have absent.  A header is            *)
(* [key |-> [name, case], value]: keys that differ in case only have the   *)
(* same name.  A value of a capture or a payload is [type, v].             *)
(***************************************************************************)
EXTENDS Options, Integers, Sequences, FiniteSets, SequencesExt

CONSTANTS
    U8Max, U16Max, U32Max  \* largest values of the integer fields (scaled down by the instances)

ASSUME WidthAssumptions == U8Max \in Nat /\ U16Max \in Nat /\ U32Max \in Nat

Ok(v)  == [ok |-> TRUE, value |-> v]
Err(e) == [ok |-> FALSE, error |-> e]

\* `?`: the next stage runs on what the previous one returned.
Then(r, F(_)) == IF r.ok THEN F(r.value) ELSE r

RequestIntents   == {"Read", "Write", "Invoke"}
MessagingIntents == {"Send", "Subscribe", "Unsubscribe"}

-----------------------------------------------------------------------------
(* Captures.                                                               *)

\* Faulty variant: a later entry under a key overrides the earlier one.
LastEntries(entries) ==
    {i \in DOMAIN entries : \A j \in (i + 1)..Len(entries) : entries[j].key # entries[i].key}

\* The entries the decoders look at: the first under each key.
FirstEntries(entries) ==
    {i \in DOMAIN entries : \A j \in 1..(i - 1) : entries[j].key # entries[i].key}

\* What a view says of a known key: the type its value must have, the scalars that
\* fit the wire field, and what the view holds when the key is missing.
Field(type, fits, default) == [type |-> type, fits |-> fits, default |-> default]

\* expect_str, expect_u64, ...; checked_capture_value and the parsers of names.
WellTyped(field, value) == value.type = field.type
Fits(field, value) ==
    \/ field.fits = None
    \/ IF value.type = "U64List" THEN \A i \in DOMAIN value.v : value.v[i] \in field.fits
       ELSE value.v \in field.fits

\* try_from_transport_meta: a foreign capture is refused, then the first entry of a
\* known key with a wrong type or a value out of range; unknown keys are ignored.
DecodeView(protocol, schema, meta) ==
    LET firsts   == FirstEntries(meta.entries)
        known    == {i \in firsts : meta.entries[i].key \in DOMAIN schema}
        Bad(i)   == LET e == meta.entries[i] IN
                    ~WellTyped(schema[e.key], e.value) \/ ~Fits(schema[e.key], e.value)
        bad      == {i \in known : Bad(i)}
        first    == meta.entries[Min(bad)]
        Found(k) == {i \in known : meta.entries[i].key = k}
    IN  IF meta.protocol # protocol THEN Err("ForeignExtensions")
        ELSE IF bad # {}
             THEN Err(IF WellTyped(schema[first.key], first.value)
                      THEN "InvalidExtensionValue" ELSE "InvalidExtensionType")
        ELSE Ok([headers |-> meta.headers,
                 fields  |-> [k \in DOMAIN schema |->
                                IF Found(k) = {} THEN schema[k].default
                                ELSE meta.entries[CHOOSE i \in Found(k) : TRUE].value.v]])

\* The view of a command without capture.
DefaultView(schema) == [headers |-> None, fields |-> [k \in DOMAIN schema |-> schema[k].default]]

\* split_http_extensions, split_mqtt_extensions, mqtt_capture_view.
ViewOf(protocol, schema, transport) ==
    IF transport = None THEN Ok(DefaultView(schema)) ELSE DecodeView(protocol, schema, transport)

\* TransportMeta::set
SetEntry(entries, key, value) ==
    LET at == {i \in DOMAIN entries : entries[i].key = key} IN
    IF at = {} THEN Append(entries, [key |-> key, value |-> value])
    ELSE [entries EXCEPT ![Min(at)].value = value]

\* into_transport_meta: every field that is not at its default is set under its key.
IntoTransportMeta(protocol, schema, view) ==
    LET used == {k \in DOMAIN schema : view.fields[k] # schema[k].default} IN
    [protocol |-> protocol, headers |-> view.headers,
     entries  |-> FoldLeft(LAMBDA es, k : SetEntry(es, k, [type |-> schema[k].type, v |-> view.fields[k]]),
                           <<>>, SetToSeq(used))]

\* split_capture_headers: an empty set of headers counts as none.
SplitCaptureHeaders(transport) ==
    IF transport = None THEN [transport |-> None, headers |-> None]
    ELSE [transport |-> [transport EXCEPT !.headers = None],
          headers   |-> IF transport.headers = <<>> THEN None ELSE transport.headers]

\* Headers::merge
Merge(headers, more) == headers \o Or(more, <<>>)

\* capture_with_headers
CaptureWithHeaders(transport, headers) ==
    LET split == SplitCaptureHeaders(transport)
        all   == Merge(headers, split.headers)
    IN  [transport |-> split.transport, headers |-> IF all = <<>> THEN None ELSE all]

-----------------------------------------------------------------------------
(* Outbound planning.                                                      *)

BridgeCommand(c, op, action, payload, carried) ==
    [id |-> c.id, op |-> op, action |-> action, target |-> c.target, payload |-> payload,
     method |-> None, content_type |-> None, path |-> None,
     delivery |-> None, durable_name |-> None, shared_group |-> None,
     transport |-> carried.transport, headers |-> carried.headers, correlation |-> c.correlation]

NothingCarried == [transport |-> None, headers |-> None]

\* command_to_request_response
CommandToRequestResponse(c) ==
    IF c.intent \notin RequestIntents THEN Err("UnsupportedIntent")
    ELSE LET b == BridgeCommand(c, "RequestResponse", c.intent,
                                IF c.intent = "Read" THEN None ELSE c.payload,
                                CaptureWithHeaders(c.extensions, c.headers))
         IN  Ok([b EXCEPT !.method = c.method, !.content_type = c.content_type, !.path = c.path])

\* command_to_messaging: an Unsubscribe carries neither capture nor headers, a
\* Subscribe only the headers of its capture.
CommandToMessaging(c) ==
    CASE c.intent = "Send" ->
           Ok([BridgeCommand(c, "Messaging", "Publish", c.payload,
                             CaptureWithHeaders(c.extensions, c.headers))
                 EXCEPT !.delivery = c.delivery])
      [] c.intent = "Subscribe" ->
           Ok([BridgeCommand(c, "Messaging", "Subscribe", None, CaptureWithHeaders(c.extensions, <<>>))
                 EXCEPT !.delivery = c.delivery, !.durable_name = c.durable_name,
                        !.shared_group = c.shared_group])
      [] c.intent = "Unsubscribe" ->
           Ok(BridgeCommand(c, "Messaging", "Unsubscribe", None, NothingCarried))
      [] OTHER -> Err("UnsupportedIntent")

\* command_to_register_access and bridge_register_command: options are ignored; the
\* route carries the register and the unit id.
CommandToRegisterAccess(c, register, unit_id) ==
    IF c.intent \notin {"Read", "Write"} THEN Err("UnsupportedIntent")
    ELSE Ok([command |-> BridgeCommand(c, "RegisterAccess", c.intent,
                                       IF c.intent = "Read" THEN None ELSE c.payload, NothingCarried),
             access  |-> register, node_id |-> unit_id])

-----------------------------------------------------------------------------
(* Inbound results.                                                        *)

\* Faulty variant: a rejection is passed on as progress.
OutcomeRejectedAsProgress(state) ==
    CASE state = "Completed" -> "Success"
      [] state = "TimedOut"  -> "Failure"
      [] OTHER               -> "Progress"

\* The outcome routed_result_to_bridge makes of a delivery state.
OutcomeOf(state) ==
    CASE state = "Completed"               -> "Success"
      [] state \in {"Rejected", "TimedOut"} -> "Failure"
      [] OTHER                             -> "Progress"

\* routed_result_to_bridge
RoutedResultToBridge(r) ==
    LET split   == SplitCaptureHeaders(r.transport)
        outcome == OutcomeOf(r.state)
    IN  [command_id |-> r.command_id, transport |-> split.transport, headers |-> split.headers,
         correlation |-> r.correlation, outcome |-> outcome, state |-> r.state,
         payload   |-> IF outcome = "Progress" THEN None ELSE r.payload,
         error     |-> IF outcome = "Failure" THEN r.error ELSE None,
         retryable |-> outcome = "Failure" /\ r.state = "TimedOut"]

\* The correlation of an answer: the one of the command, or the command itself.
CorrelationFor(c) == Or(c.correlation, [request_id |-> c.id, reply_to |-> [kind |-> "Resource", name |-> c.target]])
=============================================================================
