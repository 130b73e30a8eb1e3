---------------------------- MODULE MqttSession ----------------------------
(***************************************************************************)
(* One MQTT session as the wire runtime drives it                          *)
(* (crates/ferredge-proto-mqtt/src/runtime.rs): packet ids, the inbound    *)
(* decoder's correlation tables, keepalive and enhanced authentication,    *)
(* against a broker that answers, refuses, publishes, challenges, hangs or *)
(* disconnects.                                                            *)
(*                                                                         *)
(* mqtt_protocol_core is external: it hands out free packet ids, releases  *)
(* them on the final acknowledgement, and answers QoS 2 packets by itself  *)
(* (set_auto_pub_response).  Packets travel in order.  A field "of" of a   *)
(* packet names the command it is about; the code never sees it.  Time is  *)
(* counted in ticks since an event, up to where the code and the           *)
(* properties no longer tell values apart.                                 *)
(***************************************************************************)
EXTENDS Naturals, Sequences, FiniteSets, SequencesExt

CONSTANTS
    Commands,        \* commands, each sent at most once
    Kind,            \* qos0, qos1, qos2 (publishes), subscribe or unsubscribe
    CorrelationOf,   \* correlation data of the publishes that ask for a reply
    PacketIds,       \* ids the client's packets may carry
    BrokerIds,       \* ids of the broker's own QoS 2 publishes
    Versions,        \* MqttProtocolVersion: "v3", "v5"
    Methods,         \* authentication methods
    Configured,      \* the one in the endpoint's connect properties
    HasWill,         \* the endpoint configures a last will
    Keepalive,       \* keepalive_secs in ticks, 0 for none
    ReadTimeout,     \* timeout of one read in ticks
    MaxSessions,     \* bound: connections made
    MaxPublishes,    \* bound: QoS 2 publishes of the broker
    MaxChallenges,   \* bound: AUTH packets of the broker
    MaxQueue,        \* bound: packets under way before the broker sends one unasked
    None             \* no value

Asks == DOMAIN CorrelationOf
Correlations == {CorrelationOf[c] : c \in Asks}

ASSUME SessionAssumptions ==
    /\ Kind \in [Commands -> {"qos0", "qos1", "qos2", "subscribe", "unsubscribe"}]
    /\ \A c \in Asks : c \in Commands /\ Kind[c] \in {"qos0", "qos1", "qos2"}
    /\ Configured \in Methods
    /\ Versions \subseteq {"v3", "v5"} /\ HasWill \in BOOLEAN
    /\ Keepalive \in Nat /\ ReadTimeout \in Nat \ {0} /\ MaxSessions \in Nat
    /\ MaxPublishes \in Nat /\ MaxChallenges \in Nat /\ MaxQueue \in Nat
    /\ None \notin Commands \cup PacketIds \cup BrokerIds \cup Correlations \cup Methods

ASSUME NoneIsNoPacket == None \notin {"puback", "pubrec", "pubcomp", "suback", "unsuback"}

VARIABLES
    version,         \* protocol_version of the endpoint
    state,           \* idle, connecting, open, failed, closed
    inUse,           \* library: what the packet with this id waits for, None if free
    pendingCommand,  \* decoder: pending_command_ids
    pendingReply,    \* decoder: pending_reply_routes
    method,          \* authentication_method
    idle,            \* ticks since last_activity
    wait,            \* ticks since the read began
    awaiting,        \* awaiting_pingresp
    batch,           \* packets of the current read that are not handled yet
    routed,          \* messages decoded from it, or from the read that just ended
    delivery,        \* the state last reported of each command (see Report)
    toBroker, toClient, link,   \* the connection
    hung,            \* the broker reads and sends nothing any more
    still,           \* ticks since it hung, or since the last request after that
    will,            \* none, armed or published by the broker
    asked,           \* publishes received, with a reply due
    here,            \* commands sent on this session and not replied to
    sessions, publishes, challenges

tableVars == <<inUse, pendingCommand, pendingReply, here>>
clockVars == <<idle, wait, awaiting, still>>
readVars == <<batch, routed>>
wireVars == <<toBroker, toClient, link>>
brokerVars == <<hung, will, asked, publishes, challenges>>
sessionVars == <<tableVars, method, clockVars, readVars>>
vars == <<version, state, sessionVars, delivery, wireVars, brokerVars, sessions>>

Live == state \in {"connecting", "open"}
MaxIdle == Keepalive + ReadTimeout
MaxStill == 2 * MaxIdle
Upto(n, max) == IF n < max THEN n + 1 ELSE max

Packet(type, id, of, ok) == [type |-> type, id |-> id, of |-> of, ok |-> ok]

-----------------------------------------------------------------------------
(* Writing.  A write is activity; on a connection that broke it may go     *)
(* nowhere, or fail and take the session with it.                          *)

Write(packets) ==
    /\ toBroker' = IF link = "up" THEN toBroker \o packets ELSE toBroker
    /\ idle' = IF packets = <<>> THEN idle ELSE 0

\* The fields of a session that has just been made, or that is no more.
Blank ==
    /\ inUse' = [i \in PacketIds |-> None]
    /\ pendingCommand' = [i \in PacketIds \cup BrokerIds |-> None]
    /\ pendingReply' = [k \in Correlations |-> None]
    /\ method' = Configured /\ here' = {}
    /\ idle' = 0 /\ wait' = 0 /\ awaiting' = FALSE /\ still' = 0
    /\ batch' = <<>> /\ routed' = {}

\* An error: the caller drops the session with its tables and its socket, and
\* the messages decoded in this read go with it.
Fail ==
    /\ state' = "failed" /\ Blank /\ toClient' = <<>>
    /\ UNCHANGED <<version, delivery, toBroker, link, brokerVars, sessions>>

-----------------------------------------------------------------------------
(* Sessions.                                                               *)

\* The will goes with CONNECT in MQTT 5 only.
SendsWill == HasWill /\ version = "v5"

\* A new connection starts with empty tables and sends CONNECT.
Connect ==
    /\ ~Live /\ sessions < MaxSessions
    /\ sessions' = sessions + 1
    /\ state' = "connecting" /\ link' = "up" /\ Blank
    /\ toBroker' = <<Packet("connect", None, None, SendsWill)>>
    /\ toClient' = <<>> /\ hung' = FALSE /\ will' = "none"
    /\ UNCHANGED <<version, delivery, asked, publishes, challenges>>

\* Faulty variant of Disconnect: the socket is closed without a DISCONNECT.
DisconnectSilently ==
    /\ state = "open" /\ batch = <<>>
    /\ state' = "closed" /\ Blank /\ toClient' = <<>>
    /\ UNCHANGED <<version, delivery, toBroker, link, brokerVars, sessions>>

\* disconnect_session: DISCONNECT, then the socket is closed.
Disconnect ==
    /\ state = "open" /\ batch = <<>>
    /\ state' = "closed" /\ Blank /\ toClient' = <<>>
    /\ toBroker' = IF link = "up" THEN Append(toBroker, Packet("disconnect", None, None, TRUE))
                                  ELSE toBroker
    /\ UNCHANGED <<version, delivery, link, brokerVars, sessions>>

-----------------------------------------------------------------------------
(* Requests.                                                               *)

NeedsId(c) == Kind[c] # "qos0"

\* What the library waits for after sending c.
Awaited(c) == CASE Kind[c] = "qos1" -> "puback"
                [] Kind[c] = "qos2" -> "pubrec"
                [] Kind[c] = "subscribe" -> "suback"
                [] OTHER -> "unsuback"

\* pending_reply_route_from_packet: MQTT 5 publishes with correlation data.
AsksReply(c) == c \in Asks /\ version = "v5"

\* Faulty variant of Record: an id that is taken keeps its first command.
RecordOnce(c, id) ==
    /\ pendingReply' = IF AsksReply(c)
                       THEN [pendingReply EXCEPT ![CorrelationOf[c]] = c] ELSE pendingReply
    /\ pendingCommand' = IF id = None \/ pendingCommand[id] # None THEN pendingCommand
                         ELSE [pendingCommand EXCEPT ![id] = c]

\* Faulty variant of Record: the packet id is stored as the command.
RecordKey(c, id) ==
    /\ pendingReply' = pendingReply
    /\ pendingCommand' = IF id = None THEN pendingCommand
                         ELSE [pendingCommand EXCEPT ![id] = id]

\* record_outbound_request: both tables are overwritten, never checked.
Record(c, id) ==
    /\ pendingReply' = IF AsksReply(c)
                       THEN [pendingReply EXCEPT ![CorrelationOf[c]] = c] ELSE pendingReply
    /\ pendingCommand' = IF id = None THEN pendingCommand
                         ELSE [pendingCommand EXCEPT ![id] = c]

\* assign_runtime_packet_id: a free id of the library, if the packet needs one.
AssignId(c) == IF NeedsId(c) THEN {i \in PacketIds : inUse[i] = None} ELSE {None}

\* send_packet_request_async, between two reads.  The code reads again at once.
SendRequest(c) ==
    /\ state = "open" /\ batch = <<>> /\ wait = 0 /\ delivery[c] = "Unsent"
    /\ \E id \in AssignId(c) :
        /\ Record(c, id)
        /\ inUse' = IF id = None THEN inUse ELSE [inUse EXCEPT ![id] = Awaited(c)]
        /\ Write(<<Packet("request", id, c, TRUE)>>)
    /\ delivery' = [delivery EXCEPT ![c] = "Accepted"]
    /\ here' = here \cup {c} /\ still' = 0 /\ routed' = {}
    /\ UNCHANGED <<version, state, method, wait, awaiting, batch, toClient, link, brokerVars,
                   sessions>>

-----------------------------------------------------------------------------
(* The inbound decoder.                                                    *)

Final == {"puback", "pubcomp", "suback", "unsuback"}
Acks == Final \cup {"pubrec", "pubrel"}

\* routed_result_from_v5_suback and _unsuback; MQTT 3.1.1 packets are not looked
\* into, a SUBACK that refuses is Completed.
SubackState(p) == IF version = "v5" /\ ~p.ok THEN "Rejected" ELSE "Completed"

\* Faulty variant of AckState: a PUBREC is a PUBREC.
AckStateLenient(p) ==
    CASE p.type \notin Final -> "Dispatched"
      [] p.type \in Final /\ version = "v5" /\ ~p.ok -> "Rejected"
      [] OTHER -> "Completed"

\* The state an acknowledgement reports: routed_result_from_v5_puback, _pubrec,
\* _pubrel, _pubcomp.
AckState(p) ==
    IF p.type \in {"suback", "unsuback"} THEN SubackState(p)
    ELSE IF version = "v5" /\ ~p.ok THEN "Rejected"
    ELSE IF p.type \in Final THEN "Completed" ELSE "Dispatched"

\* The command an id stands for; an unknown id stands for itself.
Named(id) == IF pendingCommand[id] = None THEN id ELSE pendingCommand[id]

Message(kind, cmd, st, p) ==
    [kind |-> kind, cmd |-> cmd, state |-> st, by |-> p.type, of |-> p.of, ok |-> p.ok,
     fresh |-> p.of \in here]

\* routed_event_from_v5_publish, routed_event_from_v3_publish
PublishEvent(p) == Message("event", None, None, p)

\* routed_reply_or_event_from_v5_publish
ReplyOrEvent(p) ==
    IF version = "v3" \/ pendingReply[p.id] = None THEN PublishEvent(p)
    ELSE Message("result", pendingReply[p.id], "Completed", p)

\* routed_result_from_v5_disconnect, routed_result_from_v5_auth
SessionResult(p) ==
    Message("result", None, IF ~p.ok THEN "Rejected"
                            ELSE IF p.type = "auth" THEN "Accepted" ELSE "Completed", p)

\* The message a packet decodes to, as a set of at most one.
Decode(p) ==
    CASE p.type \in Acks -> {Message("result", Named(p.id), AckState(p), p)}
      [] p.type = "reply" -> {ReplyOrEvent(p)}
      [] p.type = "publish" -> {PublishEvent(p)}
      [] p.type \in {"auth", "disconnect"} /\ version = "v5" -> {SessionResult(p)}
      [] OTHER -> {}

\* Faulty variant of Settle: PUBREC closes the command's entry as well.
SettleEarly(p) ==
    /\ pendingCommand' = IF p.type \in Final \cup {"pubrec"}
                         THEN [pendingCommand EXCEPT ![p.id] = None] ELSE pendingCommand
    /\ pendingReply' = IF p.type = "reply" /\ version = "v5"
                       THEN [pendingReply EXCEPT ![p.id] = None] ELSE pendingReply

\* Faulty variant of Settle: the reply route stays.
SettleKeepsRoute(p) ==
    /\ pendingCommand' = IF p.type \in Final THEN [pendingCommand EXCEPT ![p.id] = None]
                         ELSE pendingCommand
    /\ UNCHANGED pendingReply

\* The table entries a packet closes.
Settle(p) ==
    /\ pendingCommand' = IF p.type \in Final THEN [pendingCommand EXCEPT ![p.id] = None]
                         ELSE pendingCommand
    /\ pendingReply' = IF p.type = "reply" /\ version = "v5"
                       THEN [pendingReply EXCEPT ![p.id] = None] ELSE pendingReply

\* A result of an acknowledgement is the new state of the command it names.  A
\* reply is no acknowledgement, and a PUBREL acknowledges nothing of the client's:
\* it belongs to a publish of the broker.
Report(ms) ==
    delivery' = [c \in Commands |->
        IF \E m \in ms : m.cmd = c /\ m.by \in Final \cup {"pubrec"}
        THEN (CHOOSE m \in ms : TRUE).state ELSE delivery[c]]

-----------------------------------------------------------------------------
(* Reading.                                                                *)

\* The library's view of an inbound packet: the id it releases or moves on,
\* and the packets it answers with.
Release(p) ==
    inUse' = IF p.type = "pubrec" /\ p.ok THEN [inUse EXCEPT ![p.id] = "pubcomp"]
             ELSE IF p.type \in Final \cup {"pubrec"} THEN [inUse EXCEPT ![p.id] = None]
             ELSE inUse

AutoResponse(p) ==
    CASE p.type = "publish" -> <<Packet("pubrec", p.id, None, TRUE)>>
      [] p.type = "pubrec" /\ p.ok -> <<Packet("pubrel", p.id, p.of, TRUE)>>
      [] p.type = "pubrel" -> <<Packet("pubcomp", p.id, None, TRUE)>>
      [] OTHER -> <<>>

\* Faulty variant of ReadReturns: only a PINGRESP clears the flag.
ReadReturnsKeepsAwaiting ==
    /\ Live /\ batch = <<>> /\ toClient # <<>>
    /\ \E n \in 1..Len(toClient) :
        /\ batch' = SubSeq(toClient, 1, n)
        /\ toClient' = SubSeq(toClient, n + 1, Len(toClient))
    /\ idle' = 0 /\ wait' = 0 /\ routed' = {}
    /\ UNCHANGED <<version, state, tableVars, method, awaiting, still, delivery,
                   toBroker, link, brokerVars, sessions>>

\* A read returns what has arrived; the socket decides how much.
ReadReturns ==
    /\ Live /\ batch = <<>> /\ toClient # <<>>
    /\ \E n \in 1..Len(toClient) :
        /\ batch' = SubSeq(toClient, 1, n)
        /\ toClient' = SubSeq(toClient, n + 1, Len(toClient))
    /\ idle' = 0 /\ wait' = 0 /\ awaiting' = FALSE /\ routed' = {}
    /\ UNCHANGED <<version, state, tableVars, method, still, delivery,
                   toBroker, link, brokerVars, sessions>>

\* The messages of a read are collected and returned after its last packet.
Route(ms) == batch' = Tail(batch) /\ routed' = routed \cup ms

\* handle_connection_events_async for a packet other than CONNACK and AUTH.
HandlePacket ==
    /\ batch # <<>>
    /\ LET p == Head(batch) IN
        /\ p.type \notin {"connack", "auth"}
        /\ Route(Decode(p)) /\ Settle(p) /\ Report(Decode(p)) /\ Release(p)
        /\ Write(AutoResponse(p))
        /\ here' = IF p.type = "reply" THEN here \ {p.of} ELSE here
    /\ UNCHANGED <<version, state, method, wait, awaiting, still, toClient, link,
                   brokerVars, sessions>>

\* update_negotiated_connack; the caller of the read judges it.
HandleConnack ==
    /\ batch # <<>> /\ Head(batch).type = "connack"
    /\ \/ /\ Head(batch).ok
          /\ state' = "open" /\ Route({})
          /\ UNCHANGED <<version, tableVars, method, clockVars, delivery, wireVars, brokerVars,
                         sessions>>
       \/ ~Head(batch).ok /\ Fail

\* The method of the answer: the provider's, else the session's.
ReplyMethod(given, current) == IF given = None THEN current ELSE given

\* process_incoming_auth_async, then the decoding: AUTH names a method or keeps
\* the session's, and so does the provider's answer.
HandleAuth ==
    /\ batch # <<>> /\ Head(batch).type = "auth"
    /\ LET p == Head(batch)
           named == ReplyMethod(p.id, method)
       IN \E given \in Methods \cup {None} :
            /\ method' = ReplyMethod(given, named)
            /\ Write(<<Packet("auth", None, None, TRUE)>>)
            /\ Route(Decode(p))
    /\ UNCHANGED <<version, state, tableVars, delivery, wait, awaiting, still, toClient, link,
                   brokerVars, sessions>>

\* AUTH without a provider, a provider without an answer, a protocol error, a
\* requested close, or a write into a broken connection.
HandleFails ==
    /\ batch # <<>>
    /\ \/ Head(batch).type \in {"auth", "disconnect"}
       \/ link = "down" /\ AutoResponse(Head(batch)) # <<>>
    /\ Fail

\* The stream is closed and read empty.
ReadFails ==
    /\ Live /\ batch = <<>> /\ toClient = <<>> /\ link = "down"
    /\ Fail

-----------------------------------------------------------------------------
(* Keepalive.                                                              *)

\* Faulty variant of PingDue: one tick late at the boundary.
PingDueLate == Keepalive # 0 /\ idle >= Keepalive + ReadTimeout

PingDue == Keepalive # 0 /\ idle >= Keepalive

\* A read times out: send_keepalive_ping_if_due.  The library may refuse a ping
\* before CONNACK.
ReadTimesOut ==
    /\ Live /\ batch = <<>> /\ wait = ReadTimeout
    /\ \/ /\ ~PingDue
          /\ wait' = 0
          /\ UNCHANGED <<version, state, tableVars, method, idle, awaiting, still, readVars,
                         delivery, wireVars, brokerVars, sessions>>
       \/ /\ PingDue /\ ~awaiting
          /\ wait' = 0 /\ awaiting' = TRUE
          /\ Write(<<Packet("pingreq", None, None, TRUE)>>)
          /\ UNCHANGED <<version, state, tableVars, method, still, readVars, delivery,
                         toClient, link, brokerVars, sessions>>
       \/ /\ PingDue /\ (awaiting \/ state = "connecting")
          /\ Fail

\* Time passes while the client waits in a read.  What has arrived, the end
\* of the stream included, is read within a tick, and a broker that does not hang
\* answers a ping within one.
Tick ==
    /\ Live /\ batch = <<>> /\ toClient = <<>> /\ wait < ReadTimeout
    /\ link = "up" /\ (hung \/ \A i \in DOMAIN toBroker : toBroker[i].type # "pingreq")
    /\ wait' = wait + 1 /\ routed' = {}
    /\ idle' = Upto(idle, MaxIdle)
    /\ still' = IF hung THEN Upto(still, MaxStill) ELSE 0
    /\ UNCHANGED <<version, state, tableVars, method, awaiting, batch, delivery, wireVars,
                   brokerVars, sessions>>

-----------------------------------------------------------------------------
(* The broker and the network.                                             *)

\* What the broker may answer to a packet.
Answers(p) ==
    CASE p.type = "connect" -> {Packet("connack", None, None, ok) : ok \in BOOLEAN}
      [] p.type = "request" /\ p.id # None ->
            {Packet(Awaited(p.of), p.id, p.of, ok) :
                ok \in IF version = "v5" \/ Kind[p.of] = "subscribe" THEN BOOLEAN ELSE {TRUE}}
      [] p.type = "pubrel" -> {Packet("pubcomp", p.id, p.of, TRUE)}
      [] p.type = "pubrec" -> {Packet("pubrel", p.id, None, TRUE)}
      [] p.type = "pingreq" -> {Packet("pingresp", None, None, TRUE)}
      [] OTHER -> {}

BrokerReceives ==
    /\ ~hung /\ toBroker # <<>>
    /\ LET p == Head(toBroker) IN
        /\ toBroker' = Tail(toBroker)
        /\ \/ Answers(p) = {} /\ UNCHANGED toClient
           \/ \E a \in Answers(p) : toClient' = Append(toClient, a)
        /\ will' = CASE p.type = "connect" -> IF p.ok THEN "armed" ELSE "none"
                     [] p.type = "disconnect" -> "none"
                     [] OTHER -> will
        /\ asked' = IF p.type = "request" /\ p.of \in Asks THEN asked \cup {p.of} ELSE asked
    /\ UNCHANGED <<version, state, sessionVars, delivery, link, hung, publishes, challenges, sessions>>

\* A responder answers a publish it received, perhaps twice, perhaps after the
\* client reconnected.
Reply(c) ==
    /\ ~hung /\ link = "up" /\ state = "open" /\ c \in asked /\ Len(toClient) < MaxQueue
    /\ toClient' = Append(toClient, Packet("reply", CorrelationOf[c], c, TRUE))
    /\ asked' \in {asked, asked \ {c}}
    /\ UNCHANGED <<version, state, sessionVars, delivery, toBroker, link, hung, will, publishes, challenges, sessions>>

\* The broker publishes with QoS 2 and an id of its own.
BrokerPublish(i) ==
    /\ ~hung /\ link = "up" /\ state = "open" /\ publishes < MaxPublishes
    /\ Len(toClient) < MaxQueue
    /\ publishes' = publishes + 1
    /\ toClient' = Append(toClient, Packet("publish", i, None, TRUE))
    /\ UNCHANGED <<version, state, sessionVars, delivery, toBroker, link, hung, will, asked, challenges, sessions>>

\* The broker challenges the client, naming a method or not.
Challenge(m) ==
    /\ ~hung /\ link = "up" /\ Live /\ version = "v5" /\ challenges < MaxChallenges
    /\ Len(toClient) < MaxQueue
    /\ challenges' = challenges + 1
    /\ toClient' = Append(toClient, Packet("auth", m, None, TRUE))
    /\ UNCHANGED <<version, state, sessionVars, delivery, toBroker, link, hung, will, asked, publishes, sessions>>

\* The connection breaks, with or without a DISCONNECT of the broker before.
Break ==
    /\ Live /\ link = "up"
    /\ link' = "down" /\ toBroker' = <<>>
    /\ toClient' \in {toClient} \cup
          (IF hung \/ version = "v3" THEN {}
           ELSE {Append(toClient, Packet("disconnect", None, None, FALSE))})
    /\ UNCHANGED <<version, state, sessionVars, delivery, brokerVars, sessions>>

Hang ==
    /\ Live /\ link = "up" /\ ~hung
    /\ hung' = TRUE /\ toClient' = <<>>
    /\ UNCHANGED <<version, state, sessionVars, delivery, toBroker, link, will, asked, publishes, challenges, sessions>>

\* The broker finds the connection gone and publishes the will it holds.
BrokerNoticesEnd ==
    /\ state \in {"failed", "closed"} /\ ~hung /\ toBroker = <<>> /\ will = "armed"
    /\ will' = "published"
    /\ UNCHANGED <<version, state, sessionVars, delivery, toBroker, toClient, link, hung, asked, publishes, challenges, sessions>>

-----------------------------------------------------------------------------
Init ==
    /\ version \in Versions /\ state = "idle" /\ link = "down"
    /\ inUse = [i \in PacketIds |-> None]
    /\ pendingCommand = [i \in PacketIds \cup BrokerIds |-> None]
    /\ pendingReply = [k \in Correlations |-> None]
    /\ method = Configured /\ idle = 0 /\ wait = 0 /\ awaiting = FALSE /\ still = 0
    /\ batch = <<>> /\ routed = {}
    /\ delivery = [c \in Commands |-> "Unsent"]
    /\ toBroker = <<>> /\ toClient = <<>> /\ hung = FALSE /\ will = "none" /\ asked = {}
    /\ here = {} /\ sessions = 0 /\ publishes = 0 /\ challenges = 0

Client ==
    \/ Connect \/ Disconnect \/ (\E c \in Commands : SendRequest(c))
    \/ ReadReturns \/ HandlePacket \/ HandleConnack \/ HandleAuth \/ HandleFails
    \/ ReadFails \/ ReadTimesOut

Environment ==
    \/ Tick \/ BrokerReceives \/ Break \/ Hang \/ BrokerNoticesEnd
    \/ (\E c \in Asks : Reply(c)) \/ (\E i \in BrokerIds : BrokerPublish(i))
    \/ (\E m \in Methods \cup {None} : Challenge(m))

Next == Client \/ Environment

Spec == Init /\ [][Next]_vars

-----------------------------------------------------------------------------
(* Properties.                                                             *)

PacketTypes == Acks \cup {"connect", "connack", "request", "publish", "reply", "pingreq",
                          "pingresp", "auth", "disconnect"}
Ids == PacketIds \cup BrokerIds \cup Correlations \cup Methods \cup {None}
Packets == [type : PacketTypes, id : Ids, of : Commands \cup {None}, ok : BOOLEAN]
Messages == [kind : {"event", "result"}, cmd : Commands \cup PacketIds \cup BrokerIds \cup {None},
             state : {"Accepted", "Dispatched", "Completed", "Rejected", None},
             by : PacketTypes, of : Commands \cup {None}, ok : BOOLEAN, fresh : BOOLEAN]

\* Every field of MqttClientSession and of its decoder has the type of its Rust
\* declaration, and the counters stay within the bounds of the instance.
TypeOK ==
    /\ version \in {"v3", "v5"} /\ state \in {"idle", "connecting", "open", "failed", "closed"}
    /\ inUse \in [PacketIds -> Final \cup {"pubrec", None}]
    /\ pendingCommand \in [PacketIds \cup BrokerIds -> Commands \cup {None}]
    /\ pendingReply \in [Correlations -> Commands \cup {None}] /\ method \in Methods
    /\ idle \in 0..MaxIdle /\ wait \in 0..ReadTimeout /\ awaiting \in BOOLEAN
    /\ still \in 0..MaxStill
    /\ batch \in Seq(Packets) /\ toBroker \in Seq(Packets) /\ toClient \in Seq(Packets)
    /\ routed \subseteq Messages
    /\ delivery \in [Commands -> {"Unsent", "Accepted", "Dispatched", "Completed", "Rejected"}]
    /\ link \in {"up", "down"} /\ hung \in BOOLEAN /\ will \in {"none", "armed", "published"}
    /\ asked \subseteq Asks /\ here \subseteq Commands
    /\ sessions \in 0..MaxSessions /\ publishes \in 0..MaxPublishes
    /\ challenges \in 0..MaxChallenges

\* "Stateful MQTT inbound decoder that preserves packet-id and reply-route
\* correlation": the result of an acknowledgement names the command whose packet
\* the broker acknowledged, although ids are recycled, a refused PUBREC leaves its
\* entry behind, and the broker's own publishes carry the same ids.
ResultsNameSender == \A m \in routed : m.by \in Final \cup {"pubrec"} => m.cmd = m.of

\* The first reply to a publish sent on this session is the result of that
\* command; a second one, or one after a reconnect, is an event and no result.
RepliesReachAsker ==
    \A m \in routed : version = "v5" /\ m.by = "reply" =>
        /\ m.kind = "result" <=> m.fresh
        /\ m.kind = "result" => m.cmd = m.of

\* The library's ids and the decoder's table agree: an id in use belongs to a
\* command that is still under way, and what is left in the table under a free
\* id is a command that the broker refused.
IdsTrackCommands ==
    \A i \in PacketIds :
        IF inUse[i] # None
        THEN pendingCommand[i] # None /\ delivery[pendingCommand[i]] \in {"Accepted", "Dispatched"}
        ELSE pendingCommand[i] # None => delivery[pendingCommand[i]] = "Rejected"

\* A client that sends nothing else gives up a broker that hangs within two
\* keepalive intervals and two reads.
HungBrokerNoticed == hung /\ Live /\ Keepalive # 0 => still < MaxStill

\* "mqtt keepalive timed out waiting for ping response" is said of a broker that
\* hangs, never of one that answers.
FailsForCause ==
    [][state = "open" /\ state' = "failed" /\ batch = <<>> /\ link = "up" => hung]_vars

\* The broker publishes the last will after a connection was lost or given up,
\* never after a disconnect_session on one that worked.
WillOnlyOnLoss == will = "published" /\ state = "closed" => link = "down"

\* What the decoder reports of a command only advances: the session implements
\* the delivery states of the core.
Deliveries == INSTANCE DeliveryStates WITH Commands <- Commands, delivery <- delivery
DeliveryAdvances == Deliveries!Spec
=============================================================================
