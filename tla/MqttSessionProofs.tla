------------------------- MODULE MqttSessionProofs -------------------------
(***************************************************************************)
(* Proofs about MqttSession: for any commands, packet ids, keepalive, read *)
(* timeout and number of sessions.  The invariant has four parts that need *)
(* each other little: what a packet under way may look like (Shapes), the  *)
(* route of each reply (Routes), the one packet each id in use waits for   *)
(* (Tokens), and the clocks (Clocks).                                      *)
(***************************************************************************)
EXTENDS MqttSession, SequenceTheorems, TLAPS

\* No two publishes ask for their reply with the same correlation data.
DistinctCorrelations ==
    \A c, d \in Asks : CorrelationOf[c] = CorrelationOf[d] => c = d

-----------------------------------------------------------------------------
(* Packets under way.                                                      *)

\* A packet of the client: what it sends by itself, a request with an id if it
\* needs one, or an answer to a QoS 2 packet of the broker.
FromClient(p) ==
    \/ p.type \in {"connect", "pingreq", "auth", "disconnect"} /\ p.id = None /\ p.of = None
    \/ /\ p.type = "request" /\ p.of \in Commands
       /\ IF NeedsId(p.of) THEN p.id \in PacketIds ELSE p.id = None
    \/ p.type = "pubrel" /\ p.id \in PacketIds /\ p.of \in Commands /\ Kind[p.of] = "qos2"
    \/ p.type \in {"pubrec", "pubcomp"} /\ p.id \in BrokerIds /\ p.of = None

\* A packet of the broker: an acknowledgement carries the id of the request it
\* answers; a broker of MQTT 3.1.1 refuses no publish.
FromBroker(p, v) ==
    \/ p.type \in {"connack", "pingresp", "disconnect"} /\ p.id = None /\ p.of = None
    \/ p.type = "auth" /\ p.id \in Methods \cup {None} /\ p.of = None
    \/ p.type \in {"publish", "pubrel"} /\ p.id \in BrokerIds /\ p.of = None
    \/ p.type = "reply" /\ p.of \in Asks /\ p.id = CorrelationOf[p.of]
    \/ /\ p.of \in Commands /\ NeedsId(p.of) /\ p.id \in PacketIds
       /\ \/ p.type = Awaited(p.of) /\ (p.ok \/ v = "v5" \/ p.type = "suback")
          \/ p.type = "pubcomp" /\ p.ok /\ Kind[p.of] = "qos2"

\* Every packet under way has one of these forms, and a session that ended has
\* nothing left to handle.
Shapes ==
    /\ TypeOK
    /\ \A j \in DOMAIN toBroker : FromClient(toBroker[j])
    /\ \A j \in DOMAIN toClient : FromBroker(toClient[j], version)
    /\ \A j \in DOMAIN batch : FromBroker(batch[j], version)
    /\ ~Live => batch = <<>>

-----------------------------------------------------------------------------
(* Replies.                                                                *)

\* In MQTT 5 the publishes of this session that wait for a reply are the
\* commands of the decoder's reply routes, each under its own correlation data.
Routes ==
    version = "v5" =>
        /\ \A c \in Asks : c \in here <=> pendingReply[CorrelationOf[c]] # None
        /\ \A k \in Correlations : pendingReply[k] # None =>
               pendingReply[k] \in Asks /\ CorrelationOf[pendingReply[k]] = k

-----------------------------------------------------------------------------
(* Ids.                                                                    *)

\* The packets that belong to a request with an id.
Tracked(p) == p.type \in Acks \cup {"request"} /\ p.of \in Commands /\ p.id # None

\* What the library waits for while this packet is under way.
Stage(p) == CASE p.type = "request" -> Awaited(p.of)
              [] p.type = "pubrel" -> "pubcomp"
              [] OTHER -> p.type

\* A packet under way belongs to the command recorded for its id and is the one
\* that the library waits for, or will cause it.
Current(p, recorded, used) ==
    p.id \in PacketIds /\ recorded[p.id] = p.of /\ used[p.id] = Stage(p)
AllCurrent(q, recorded, used) ==
    \A j \in DOMAIN q : Tracked(q[j]) => Current(q[j], recorded, used)

Once(q) == \A j, k \in DOMAIN q :
    Tracked(q[j]) /\ Tracked(q[k]) /\ q[j].id = q[k].id => j = k
Apart(q, r) == \A j \in DOMAIN q, k \in DOMAIN r :
    Tracked(q[j]) /\ Tracked(r[k]) => q[j].id # r[k].id
Absent(i, q) == \A j \in DOMAIN q : Tracked(q[j]) => q[j].id # i

\* No two packets of the three queues belong to the same id.
Tidy(out, in, read, recorded, used) ==
    /\ AllCurrent(out, recorded, used) /\ AllCurrent(in, recorded, used)
    /\ AllCurrent(read, recorded, used)
    /\ Once(out) /\ Once(in) /\ Once(read)
    /\ Apart(out, in) /\ Apart(out, read) /\ Apart(in, read)

\* While a session lives each id has at most one packet under way.
OneUnderWay == Live => Tidy(toBroker, toClient, batch, pendingCommand, inUse)

\* The stage of a command with an id in use is the state reported of it.
StageReported ==
    \A i \in PacketIds : inUse[i] # None =>
        /\ pendingCommand[i] \in Commands /\ NeedsId(pendingCommand[i])
        /\ \/ inUse[i] = Awaited(pendingCommand[i]) /\ delivery[pendingCommand[i]] = "Accepted"
           \/ inUse[i] = "pubcomp" /\ delivery[pendingCommand[i]] = "Dispatched"

\* No command is recorded under two ids, and under a free id only one that the
\* broker refused.
TableClean ==
    /\ \A i, j \in PacketIds :
           pendingCommand[i] # None /\ pendingCommand[i] = pendingCommand[j] => i = j
    /\ \A i \in PacketIds : inUse[i] = None /\ pendingCommand[i] # None =>
           delivery[pendingCommand[i]] = "Rejected"

Tokens == OneUnderWay /\ StageReported /\ TableClean /\ ResultsNameSender

-----------------------------------------------------------------------------
(* Time and the will.                                                      *)

\* A session that handles packets is not waiting in a read.
Reading == batch # <<>> => wait = 0 /\ ~awaiting

\* A ping is due at the latest when the read that is under way times out.
PingInTime == Live /\ Keepalive # 0 => idle < Keepalive + wait

\* A broker that does not hang has the ping before it, or its answer is there
\* before time passes.
PingAnswered ==
    Live /\ awaiting /\ ~hung /\ link = "up" =>
        /\ wait = 0
        /\ toClient # <<>> \/ \E j \in DOMAIN toBroker : toBroker[j].type = "pingreq"

\* A client that hears nothing has been silent itself since the broker hung,
\* or since the ping it waits for.
Silence ==
    /\ ~hung => still = 0
    /\ Live /\ hung /\ Keepalive # 0 =>
          /\ toClient = <<>>
          /\ batch # <<>> => still = 0
          /\ IF awaiting THEN still < MaxIdle + idle ELSE still <= idle

\* After a disconnect_session on a connection that works DISCONNECT is the last
\* packet, and once the broker has it there is no will.
WillCancelled ==
    /\ Live => will # "published"
    /\ state = "closed" /\ link = "up" =>
          /\ will # "published"
          /\ IF toBroker = <<>> THEN will = "none"
                                ELSE toBroker[Len(toBroker)].type = "disconnect"

Clocks == Reading /\ PingInTime /\ PingAnswered /\ Silence /\ WillCancelled

-----------------------------------------------------------------------------
(* Queues of packets.                                                      *)

\* Append leaves the packets of a queue in place and adds one behind them.
LEMMA AppendFacts ==
    ASSUME NEW q \in Seq(Packets), NEW x \in Packets
    PROVE  /\ Append(q, x) \in Seq(Packets) /\ Append(q, x) # <<>>
           /\ Len(q) \in Nat /\ DOMAIN q = 1..Len(q)
           /\ Len(Append(q, x)) = Len(q) + 1
           /\ DOMAIN Append(q, x) = 1..(Len(q) + 1)
           /\ \A j \in 1..Len(q) : Append(q, x)[j] = q[j]
           /\ Append(q, x)[Len(q) + 1] = x
  BY AppendProperties, LenProperties

\* Taking the head of a queue moves the others one place up.
LEMMA TailFacts ==
    ASSUME NEW q \in Seq(Packets), q # <<>>
    PROVE  /\ Head(q) = q[1] /\ Head(q) \in Packets /\ 1 \in DOMAIN q
           /\ Tail(q) \in Seq(Packets) /\ Len(q) \in Nat \ {0} /\ DOMAIN q = 1..Len(q)
           /\ Len(Tail(q)) = Len(q) - 1
           /\ DOMAIN Tail(q) = 1..(Len(q) - 1)
           /\ \A j \in DOMAIN Tail(q) : Tail(q)[j] = q[j + 1] /\ j + 1 \in DOMAIN q
  <1>1. Len(q) \in Nat \ {0} /\ DOMAIN q = 1..Len(q)
    BY EmptySeq, LenProperties
  <1>2. Tail(q) \in Seq(Packets) /\ Len(Tail(q)) = Len(q) - 1
    BY HeadTailProperties
  <1>3. DOMAIN Tail(q) = 1..(Len(q) - 1)
    BY <1>2, LenProperties
  <1> QED BY <1>1, <1>2, <1>3, HeadTailProperties

\* A read splits the packets that have arrived.
LEMMA SplitFacts ==
    ASSUME NEW q \in Seq(Packets), NEW n \in 1..Len(q), NEW first, NEW rest,
           first = SubSeq(q, 1, n), rest = SubSeq(q, n + 1, Len(q))
    PROVE  /\ first \in Seq(Packets) /\ rest \in Seq(Packets) /\ first # <<>>
           /\ Len(q) \in Nat /\ DOMAIN q = 1..Len(q)
           /\ DOMAIN first = 1..n /\ DOMAIN rest = 1..(Len(q) - n)
           /\ \A j \in DOMAIN first : first[j] = q[j] /\ j \in DOMAIN q
           /\ \A j \in DOMAIN rest : rest[j] = q[n + j] /\ n + j \in DOMAIN q
  <1>1. /\ Len(q) \in Nat /\ n \in Int /\ DOMAIN q = 1..Len(q)
        /\ \A j \in 1..Len(q) : q[j] \in Packets
    BY LenProperties
  <1>2. first \in Seq(Packets) /\ Len(first) = n /\ \A j \in 1..n : first[j] = q[j]
    BY <1>1, SubSeqProperties
  <1>3. /\ rest \in Seq(Packets) /\ Len(rest) = Len(q) - n
        /\ \A j \in 1..(Len(q) - n) : rest[j] = q[n + j]
    <2>1. \A j \in (n + 1)..Len(q) : q[j] \in Packets
      BY <1>1
    <2>2. /\ rest \in Seq(Packets)
          /\ Len(rest) = IF n + 1 <= Len(q) THEN Len(q) - (n + 1) + 1 ELSE 0
          /\ \A j \in 1..(Len(q) - (n + 1) + 1) : rest[j] = q[(n + 1) + j - 1]
      BY <1>1, <2>1, SubSeqProperties
    <2>3. Len(q) - (n + 1) + 1 = Len(q) - n /\ (n + 1 <= Len(q) \/ Len(q) - n = 0)
      <3>1. \A l, m \in Int : m <= l => l - (m + 1) + 1 = l - m /\ (m + 1 <= l \/ l - m = 0)
        OBVIOUS
      <3>2. Len(q) \in Int /\ n <= Len(q)
        BY <1>1
      <3> QED BY <1>1, <3>1, <3>2
    <2>4. \A j \in 1..(Len(q) - n) : (n + 1) + j - 1 = n + j
      BY <1>1
    <2> QED BY <2>2, <2>3, <2>4
  <1>4. DOMAIN first = 1..n
    BY <1>1, <1>2, LenProperties
  <1>5. DOMAIN rest = 1..(Len(q) - n)
    BY <1>1, <1>3, LenProperties
  <1>6. first # <<>>
    BY <1>1, <1>2
  <1>7. \A j \in 1..n : j \in DOMAIN q
    BY <1>1
  <1>8. \A j \in 1..(Len(q) - n) : n + j \in DOMAIN q
    BY <1>1
  <1> QED BY <1>1, <1>2, <1>3, <1>4, <1>5, <1>6, <1>7, <1>8, Zenon

\* A write of no packet changes nothing.
LEMMA WriteNothing == ASSUME TypeOK, Write(<<>>) PROVE toBroker' = toBroker /\ idle' = idle
  BY ConcatEmptySeq DEF Write, TypeOK

\* A write of one packet puts it on a connection that is up and is activity.
LEMMA WriteOne ==
    ASSUME TypeOK, NEW x \in Packets, Write(<<x>>)
    PROVE  /\ toBroker' = IF link = "up" THEN Append(toBroker, x) ELSE toBroker
           /\ toBroker' \in Seq(Packets) /\ idle' = 0
  <1>1. toBroker \in Seq(Packets)
    BY DEF TypeOK
  <1>2. toBroker \o <<x>> = Append(toBroker, x) /\ Append(toBroker, x) \in Seq(Packets)
    BY <1>1, AppendIsConcat, AppendProperties
  <1>3. <<x>> # <<>>
    OBVIOUS
  <1> QED BY <1>1, <1>2, <1>3 DEF Write

-----------------------------------------------------------------------------
(* Types and shapes.                                                       *)

\* Making a packet.
LEMMA PacketMade ==
    ASSUME NEW t \in PacketTypes, NEW i \in Ids, NEW c \in Commands \cup {None}, NEW b \in BOOLEAN
    PROVE  /\ Packet(t, i, c, b) \in Packets
           /\ Packet(t, i, c, b).type = t /\ Packet(t, i, c, b).id = i
           /\ Packet(t, i, c, b).of = c /\ Packet(t, i, c, b).ok = b
  BY DEF Packet, Packets

\* The version of the endpoint never changes.
LEMMA VersionFixed == [Next]_vars => version' = version
  BY DEF Next, Client, Environment, vars, Connect, Disconnect, SendRequest, ReadReturns,
         HandlePacket, HandleConnack, HandleAuth, HandleFails, ReadFails, ReadTimesOut, Fail,
         Tick, BrokerReceives, Break, Hang, BrokerNoticesEnd, Reply, BrokerPublish, Challenge

\* A session that was just made, or is no more, has fields of the right types.
LEMMA BlankTypes ==
    ASSUME Blank
    PROVE  /\ inUse' \in [PacketIds -> Final \cup {"pubrec", None}]
           /\ pendingCommand' \in [PacketIds \cup BrokerIds -> Commands \cup {None}]
           /\ pendingReply' \in [Correlations -> Commands \cup {None}] /\ method' \in Methods
           /\ idle' \in 0..MaxIdle /\ wait' \in 0..ReadTimeout /\ awaiting' \in BOOLEAN
           /\ still' \in 0..MaxStill /\ batch' = <<>> /\ batch' \in Seq(Packets)
           /\ routed' \subseteq Messages /\ here' \subseteq Commands
  <1>1. awaiting' \in BOOLEAN
    BY Zenon DEF Blank
  <1>2. inUse' \in [PacketIds -> Final \cup {"pubrec", None}]
    BY DEF Blank
  <1> QED BY <1>1, <1>2, SessionAssumptions DEF SessionAssumptions, Blank, MaxIdle, MaxStill

\* The first state has the right types and no packet.
LEMMA InitShapes == Init => Shapes
  <1> SUFFICES ASSUME Init PROVE Shapes
      OBVIOUS
  <1>1. TypeOK
    <2>1. awaiting \in BOOLEAN /\ hung \in BOOLEAN
      BY Zenon DEF Init
    <2> QED BY <2>1, SessionAssumptions
        DEF SessionAssumptions, Init, TypeOK, MaxIdle, MaxStill
  <1> QED BY <1>1 DEF Init, Shapes

\* A session that fails leaves nothing to handle.
LEMMA FailShapes == ASSUME Shapes, Fail PROVE Shapes'
  <1>1. TypeOK'
    BY BlankTypes DEF Fail, Shapes, TypeOK, brokerVars
  <1> QED BY <1>1, BlankTypes DEF Fail, Shapes, TypeOK, brokerVars

\* What a packet of the broker decodes to.
LEMMA DecodeCases ==
    ASSUME Shapes, NEW p \in Packets, FromBroker(p, version)
    PROVE  /\ p.type \in Acks => Decode(p) = {Message("result", Named(p.id), AckState(p), p)}
           /\ p.type = "reply" => Decode(p) = {ReplyOrEvent(p)}
           /\ p.type = "publish" => Decode(p) = {PublishEvent(p)}
           /\ p.type \notin Acks \cup {"reply", "publish"} =>
                 Decode(p) = {} \/ Decode(p) = {SessionResult(p)}
  <1>1. CASE p.type \in Acks
    BY <1>1 DEF Decode, Acks, Final
  <1>2. CASE p.type \notin Acks
    BY <1>2 DEF Decode, Acks, Final
  <1> QED BY <1>1, <1>2

\* Making a message.
LEMMA MessageMade ==
    ASSUME NEW k \in {"event", "result"},
           NEW c \in Commands \cup PacketIds \cup BrokerIds \cup {None},
           NEW st \in {"Accepted", "Dispatched", "Completed", "Rejected", None},
           NEW p \in Packets
    PROVE  Message(k, c, st, p) \in Messages
  <1>1. /\ p.type \in PacketTypes /\ p.of \in Commands \cup {None} /\ p.ok \in BOOLEAN
        /\ (p.of \in here) \in BOOLEAN
    BY DEF Packets
  <1>2. \A t \in PacketTypes, o \in Commands \cup {None}, b \in BOOLEAN, f \in BOOLEAN :
            [kind |-> k, cmd |-> c, state |-> st, by |-> t, of |-> o, ok |-> b, fresh |-> f]
                \in Messages
    BY DEF Messages
  <1> QED BY <1>1, <1>2, Zenon DEF Message

\* The messages of a packet have the fields of a result or an event.
LEMMA DecodeTypes ==
    ASSUME Shapes, NEW p \in Packets, FromBroker(p, version)
    PROVE  Decode(p) \subseteq Messages
  <1>1. CASE p.type \in Acks
    <2>1. p.id \in PacketIds \cup BrokerIds
      BY <1>1 DEF FromBroker, Acks, Final
    <2>2. Named(p.id) \in Commands \cup PacketIds \cup BrokerIds
      BY <2>1 DEF Named, Shapes, TypeOK
    <2>3. AckState(p) \in {"Dispatched", "Completed", "Rejected"}
      BY DEF AckState, SubackState
    <2> QED BY <1>1, <2>2, <2>3, DecodeCases, MessageMade
  <1>2. CASE p.type = "reply"
    <2>1. p.id \in Correlations
      BY <1>2 DEF FromBroker, Acks, Final, Correlations, Asks, Awaited
    <2>2. pendingReply[p.id] \in Commands \cup {None}
      BY <2>1 DEF Shapes, TypeOK
    <2> QED BY <1>2, <2>2, DecodeCases, MessageMade DEF ReplyOrEvent, PublishEvent
  <1>3. CASE p.type = "publish"
    BY <1>3, DecodeCases, MessageMade DEF PublishEvent
  <1>4. CASE p.type \notin Acks \cup {"reply", "publish"}
    BY <1>4, DecodeCases, MessageMade DEF SessionResult
  <1> QED BY <1>1, <1>2, <1>3, <1>4

\* The result of an acknowledgement becomes the state of the command it names.
LEMMA ReportAck ==
    ASSUME Shapes, NEW p \in Packets, FromBroker(p, version), p.type \in Final \cup {"pubrec"},
           Report(Decode(p))
    PROVE  delivery' = [c \in Commands |-> IF Named(p.id) = c THEN AckState(p) ELSE delivery[c]]
  <1> DEFINE m == Message("result", Named(p.id), AckState(p), p)
  <1>1. Decode(p) = {m} /\ (CHOOSE x \in {m} : TRUE) = m
    BY DecodeCases DEF Acks
  <1>2. m.cmd = Named(p.id) /\ m.by = p.type /\ m.state = AckState(p)
    BY DEF Message
  <1>4. \A c \in Commands : (\E x \in Decode(p) : x.cmd = c /\ x.by \in Final \cup {"pubrec"})
                                <=> Named(p.id) = c
    BY <1>1, <1>2
  <1> HIDE DEF m
  <1> QED BY <1>1, <1>2, <1>4 DEF Report

\* A message carries the type of the packet it was decoded from.
LEMMA DecodedBy ==
    ASSUME Shapes, NEW p \in Packets, FromBroker(p, version), NEW m \in Decode(p)
    PROVE  m.by = p.type
  <1>1. CASE p.type \in Acks
    BY <1>1, DecodeCases DEF Message
  <1>2. CASE p.type \notin Acks
    BY <1>2, DecodeCases DEF ReplyOrEvent, PublishEvent, SessionResult, Message
  <1> QED BY <1>1, <1>2

\* Other packets report nothing of a command.
LEMMA ReportOther ==
    ASSUME Shapes, NEW p \in Packets, FromBroker(p, version), p.type \notin Final \cup {"pubrec"},
           Report(Decode(p))
    PROVE  delivery' = delivery
  <1>1. \A c \in Commands : ~ \E m \in Decode(p) : m.cmd = c /\ m.by \in Final \cup {"pubrec"}
    BY DecodedBy
  <1> QED BY <1>1 DEF Report, Shapes, TypeOK

\* What the library answers with by itself, if anything.
LEMMA ResponseCases ==
    ASSUME NEW v, NEW p \in Packets, FromBroker(p, v)
    PROVE  \/ AutoResponse(p) = <<>> /\ p.type \notin {"publish", "pubrel"} /\ ~(p.type = "pubrec" /\ p.ok)
           \/ \E x \in Packets :
                 /\ AutoResponse(p) = <<x>> /\ FromClient(x) /\ x.id = p.id
                 /\ p.type \in {"publish", "pubrel"} => x.of = None /\ x.type \in {"pubrec", "pubcomp"}
                 /\ p.type \notin {"publish", "pubrel"} =>
                       p.type = "pubrec" /\ p.ok /\ x.type = "pubrel" /\ x.of = p.of
  <1>0. p.id \in Ids /\ p.of \in Commands \cup {None}
    BY DEF Packets
  <1>1. CASE p.type = "publish"
    <2>1. p.id \in BrokerIds
      BY <1>1 DEF FromBroker, Awaited
    <2> DEFINE x == Packet("pubrec", p.id, None, TRUE)
    <2>2. AutoResponse(p) = <<x>>
      BY <1>1 DEF AutoResponse
    <2>3. x \in Packets /\ x.type = "pubrec" /\ x.id = p.id /\ x.of = None
      BY <1>0 DEF Packet, Packets, PacketTypes, Acks, Final
    <2> HIDE DEF x
    <2> QED BY <1>1, <2>1, <2>2, <2>3 DEF FromClient
  <1>2. CASE p.type = "pubrel"
    <2>1. p.id \in BrokerIds
      BY <1>2 DEF FromBroker, Awaited
    <2> DEFINE x == Packet("pubcomp", p.id, None, TRUE)
    <2>2. AutoResponse(p) = <<x>>
      BY <1>2 DEF AutoResponse
    <2>3. x \in Packets /\ x.type = "pubcomp" /\ x.id = p.id /\ x.of = None
      BY <1>0 DEF Packet, Packets, PacketTypes, Acks, Final
    <2> HIDE DEF x
    <2> QED BY <1>2, <2>1, <2>2, <2>3 DEF FromClient
  <1>3. CASE p.type = "pubrec" /\ p.ok
    <2>1. p.id \in PacketIds /\ p.of \in Commands /\ Kind[p.of] = "qos2"
      BY <1>3, SessionAssumptions DEF SessionAssumptions, FromBroker, Awaited, NeedsId
    <2> DEFINE x == Packet("pubrel", p.id, p.of, TRUE)
    <2>2. AutoResponse(p) = <<x>>
      BY <1>3 DEF AutoResponse
    <2>3. x \in Packets /\ x.type = "pubrel" /\ x.id = p.id /\ x.of = p.of
      BY <1>0 DEF Packet, Packets, PacketTypes, Acks, Final
    <2> HIDE DEF x
    <2> QED BY <1>3, <2>1, <2>2, <2>3 DEF FromClient
  <1>4. CASE p.type \notin {"publish", "pubrel"} /\ ~(p.type = "pubrec" /\ p.ok)
    BY <1>4 DEF AutoResponse
  <1> QED BY <1>1, <1>2, <1>3, <1>4

\* The broker answers a packet with one of its own forms; an acknowledgement is
\* about the command of the packet it answers, and is what the library waits for.
LEMMA AnswerCases ==
    ASSUME Shapes, NEW p \in Packets, FromClient(p), NEW a \in Answers(p)
    PROVE  /\ a \in Packets /\ FromBroker(a, version)
           /\ Tracked(a) => Tracked(p) /\ a.id = p.id /\ a.of = p.of /\ Stage(a) = Stage(p)
  <1> USE SessionAssumptions DEF SessionAssumptions
  <1>0. /\ p.id \in Ids /\ p.of \in Commands \cup {None} /\ version \in {"v3", "v5"}
        /\ None \in Ids
    BY DEF Packets, Shapes, TypeOK, Ids
  <1>1. CASE p.type = "connect"
    <2>1. PICK b \in BOOLEAN : a = Packet("connack", None, None, b)
      BY <1>1 DEF Answers
    <2>2. a \in Packets /\ a.type = "connack" /\ a.id = None /\ a.of = None
      BY <1>0, <2>1 DEF PacketTypes, Packet, Packets
    <2> QED BY <2>2 DEF FromBroker, Tracked, Acks, Final
  <1>2. CASE p.type = "pingreq"
    <2>1. a = Packet("pingresp", None, None, TRUE)
      BY <1>2 DEF Answers
    <2>2. a \in Packets /\ a.type = "pingresp" /\ a.id = None /\ a.of = None
      BY <1>0, <2>1 DEF PacketTypes, Packet, Packets
    <2> QED BY <2>2 DEF FromBroker, Tracked, Acks, Final
  <1>3. CASE p.type = "pubrec"
    <2>1. a = Packet("pubrel", p.id, None, TRUE)
      BY <1>3 DEF Answers
    <2>2. a \in Packets /\ a.type = "pubrel" /\ a.id = p.id /\ a.of = None
      BY <1>0, <2>1 DEF PacketTypes, Packet, Packets, Acks
    <2>3. p.id \in BrokerIds /\ None \notin Commands
      BY <1>3 DEF FromClient
    <2> QED BY <2>2, <2>3 DEF FromBroker, Tracked
  <1>4. CASE p.type = "pubrel"
    <2>1. a = Packet("pubcomp", p.id, p.of, TRUE)
      BY <1>4 DEF Answers
    <2>2. a \in Packets /\ a.type = "pubcomp" /\ a.id = p.id /\ a.of = p.of /\ a.ok
      BY <1>0, <2>1 DEF PacketTypes, Packet, Packets, Acks, Final
    <2>3. p.id \in PacketIds /\ p.of \in Commands /\ Kind[p.of] = "qos2"
      BY <1>4 DEF FromClient
    <2> QED BY <1>4, <2>2, <2>3 DEF FromBroker, Tracked, Stage, NeedsId, Acks
  <1>5. CASE p.type = "request" /\ p.id # None
    <2>1. p.of \in Commands /\ NeedsId(p.of) /\ p.id \in PacketIds
      BY <1>5 DEF FromClient
    <2>2. PICK b \in IF version = "v5" \/ Kind[p.of] = "subscribe" THEN BOOLEAN ELSE {TRUE} :
              a = Packet(Awaited(p.of), p.id, p.of, b)
      BY <1>5 DEF Answers
    <2>3. Awaited(p.of) \in {"puback", "pubrec", "suback", "unsuback"}
      BY DEF Awaited
    <2>4. b \in BOOLEAN
      BY <2>2
    <2>5. /\ a \in Packets /\ a.type = Awaited(p.of) /\ a.id = p.id /\ a.of = p.of
          /\ a.ok = b
      BY <1>0, <2>2, <2>3, <2>4, PacketMade DEF PacketTypes, Acks, Final
    <2>6. a.ok \/ version = "v5" \/ a.type = "suback"
      BY <2>1, <2>2, <2>5 DEF Awaited
    <2>7. Stage(a) = Stage(p)
      BY <1>5, <2>3, <2>5 DEF Stage
    <2> QED BY <1>5, <2>1, <2>5, <2>6, <2>7 DEF FromBroker, Tracked
  <1>6. CASE p.type \notin {"connect", "pingreq", "pubrec", "pubrel"} /\ ~(p.type = "request" /\ p.id # None)
    BY <1>6 DEF Answers
  <1> QED BY <1>1, <1>2, <1>3, <1>4, <1>5, <1>6

\* A packet of the broker joins the ones on their way to the client.
LEMMA SentToClient ==
    ASSUME Shapes, NEW x \in Packets, FromBroker(x, version)
    PROVE  /\ Append(toClient, x) \in Seq(Packets)
           /\ \A j \in DOMAIN Append(toClient, x) : FromBroker(Append(toClient, x)[j], version)
  <1> DEFINE q == Append(toClient, x)
  <1>1. toClient \in Seq(Packets) /\ \A j \in DOMAIN toClient : FromBroker(toClient[j], version)
    BY DEF Shapes, TypeOK
  <1>2. /\ q \in Seq(Packets) /\ Len(toClient) \in Nat /\ DOMAIN toClient = 1..Len(toClient)
        /\ DOMAIN q = 1..(Len(toClient) + 1)
        /\ \A j \in 1..Len(toClient) : q[j] = toClient[j]
        /\ q[Len(toClient) + 1] = x
    BY <1>1, AppendFacts
  <1> HIDE DEF q
  <1>3. \A j \in DOMAIN q : j \in DOMAIN toClient \/ j = Len(toClient) + 1
    BY <1>2
  <1>4. \A j \in DOMAIN q : FromBroker(q[j], version)
    BY <1>1, <1>2, <1>3
  <1> QED BY <1>2, <1>4 DEF q

\* A packet of the client joins the ones on their way to the broker.
LEMMA SentToBroker ==
    ASSUME Shapes, NEW x \in Packets, FromClient(x), Write(<<x>>)
    PROVE  /\ toBroker' \in Seq(Packets) /\ idle' = 0
           /\ \A j \in DOMAIN toBroker' : FromClient(toBroker'[j])
  <1> DEFINE q == Append(toBroker, x)
  <1>0. TypeOK
    BY DEF Shapes
  <1>1. toBroker \in Seq(Packets) /\ \A j \in DOMAIN toBroker : FromClient(toBroker[j])
    BY DEF Shapes, TypeOK
  <1>2. /\ q \in Seq(Packets) /\ Len(toBroker) \in Nat /\ DOMAIN toBroker = 1..Len(toBroker)
        /\ DOMAIN q = 1..(Len(toBroker) + 1)
        /\ \A j \in 1..Len(toBroker) : q[j] = toBroker[j]
        /\ q[Len(toBroker) + 1] = x
    BY <1>1, AppendFacts
  <1>3. toBroker' \in {toBroker, q} /\ toBroker' \in Seq(Packets) /\ idle' = 0
    BY <1>0, WriteOne
  <1> HIDE DEF q
  <1>4. \A j \in DOMAIN q : j \in DOMAIN toBroker \/ j = Len(toBroker) + 1
    BY <1>2
  <1>5. \A j \in DOMAIN q : FromClient(q[j])
    BY <1>1, <1>2, <1>4
  <1> QED BY <1>1, <1>3, <1>5

\* The rest of a read has the forms of the whole.
LEMMA BatchTail ==
    ASSUME Shapes, batch # <<>>
    PROVE  /\ Head(batch) \in Packets /\ FromBroker(Head(batch), version)
           /\ Tail(batch) \in Seq(Packets)
           /\ \A j \in DOMAIN Tail(batch) : FromBroker(Tail(batch)[j], version)
           /\ Live
  <1>1. batch \in Seq(Packets) /\ \A j \in DOMAIN batch : FromBroker(batch[j], version)
    BY DEF Shapes, TypeOK
  <1> QED BY <1>1, TailFacts DEF Shapes

\* Every step keeps the types and the forms of the packets.
LEMMA NextShapes == Shapes /\ [Next]_vars => Shapes'
  <1> SUFFICES ASSUME Shapes, [Next]_vars PROVE Shapes'
      OBVIOUS
  <1> USE SessionAssumptions DEF SessionAssumptions
  <1>0. TypeOK /\ version' = version /\ None \in Ids /\ None \notin Commands
    BY VersionFixed DEF Shapes, Ids
  <1>1. CASE Connect
    <2> DEFINE x == Packet("connect", None, None, SendsWill)
    <2>1. x \in Packets /\ FromClient(x)
      <3>1. SendsWill \in BOOLEAN
        BY Zenon DEF SendsWill
      <3>2. x \in Packets /\ x.type = "connect" /\ x.id = None /\ x.of = None
        <4>1. \A b \in BOOLEAN : LET y == Packet("connect", None, None, b)
                                 IN y \in Packets /\ y.type = "connect" /\ y.id = None /\ y.of = None
          BY <1>0 DEF PacketTypes, Packet, Packets
        <4> QED BY <3>1, <4>1
      <3> QED BY <3>2 DEF FromClient
    <2> HIDE DEF x
    <2>2. toBroker' = <<x>> /\ toBroker' \in Seq(Packets) /\ toClient' = <<>> /\ batch' = <<>>
      BY <1>1, <2>1 DEF Connect, Blank, x
    <2>3. hung' \in BOOLEAN /\ TypeOK'
      <3>1. hung' \in BOOLEAN
        BY <1>1, Zenon DEF Connect
      <3> QED BY <1>0, <1>1, <2>2, <3>1, BlankTypes DEF Connect, TypeOK
    <2> QED BY <1>1, <2>1, <2>2, <2>3 DEF Shapes
  <1>2. CASE Disconnect
    <2> DEFINE x == Packet("disconnect", None, None, TRUE)
    <2>1. x \in Packets /\ FromClient(x)
      <3>1. x \in Packets /\ x.type = "disconnect" /\ x.id = None /\ x.of = None
        BY <1>0 DEF PacketTypes, Packet, Packets
      <3> QED BY <3>1 DEF FromClient
    <2> HIDE DEF x
    <2>2. toBroker' \in {toBroker, Append(toBroker, x)} /\ toClient' = <<>> /\ batch' = <<>>
      BY <1>2 DEF Disconnect, Blank, x
    <2>3. toBroker' \in Seq(Packets) /\ \A j \in DOMAIN toBroker' : FromClient(toBroker'[j])
      <3>1. toBroker \in Seq(Packets) /\ \A j \in DOMAIN toBroker : FromClient(toBroker[j])
        BY DEF Shapes, TypeOK
      <3>2. ASSUME NEW j \in DOMAIN Append(toBroker, x)
            PROVE  \/ j \in DOMAIN toBroker /\ Append(toBroker, x)[j] = toBroker[j]
                   \/ Append(toBroker, x)[j] = x
        BY <2>1, <3>1, AppendFacts
      <3> QED BY <2>1, <2>2, <3>1, <3>2, AppendFacts
    <2>4. TypeOK'
      BY <1>0, <1>2, <2>2, <2>3, BlankTypes DEF Disconnect, TypeOK, brokerVars
    <2> QED BY <2>2, <2>3, <2>4 DEF Shapes
  <1>3. ASSUME NEW c \in Commands, SendRequest(c) PROVE Shapes'
    <2>1. PICK id \in AssignId(c) :
              /\ Record(c, id)
              /\ inUse' = IF id = None THEN inUse ELSE [inUse EXCEPT ![id] = Awaited(c)]
              /\ Write(<<Packet("request", id, c, TRUE)>>)
      BY <1>3 DEF SendRequest
    <2>2. IF NeedsId(c) THEN id \in PacketIds ELSE id = None
      BY <2>1 DEF AssignId
    <2> DEFINE x == Packet("request", id, c, TRUE)
    <2>3. x \in Packets /\ FromClient(x)
      <3>1. x \in Packets /\ x.type = "request" /\ x.id = id /\ x.of = c
        BY <1>0, <2>2 DEF PacketTypes, Packet, Packets, Ids
      <3> QED BY <2>2, <3>1 DEF FromClient
    <2> HIDE DEF x
    <2>4. /\ toBroker' \in Seq(Packets) /\ idle' = 0
          /\ \A j \in DOMAIN toBroker' : FromClient(toBroker'[j])
      BY <2>1, <2>3, SentToBroker DEF x
    <2>5. inUse' \in [PacketIds -> Final \cup {"pubrec", None}]
      BY <1>0, <2>1, <2>2 DEF TypeOK, Awaited, Final
    <2>6. /\ pendingCommand' \in [PacketIds \cup BrokerIds -> Commands \cup {None}]
          /\ pendingReply' \in [Correlations -> Commands \cup {None}]
      BY <1>0, <2>1, <2>2 DEF TypeOK, Record, Correlations
    <2>7. TypeOK'
      BY <1>0, <1>3, <2>4, <2>5, <2>6 DEF SendRequest, TypeOK, brokerVars, MaxIdle, MaxStill
    <2> QED BY <1>0, <1>3, <2>4, <2>7 DEF SendRequest, Shapes, Live
  <1>4. CASE ReadReturns
    <2>1. toClient \in Seq(Packets)
      BY <1>0 DEF TypeOK
    <2>2. PICK n \in 1..Len(toClient) :
              /\ batch' = SubSeq(toClient, 1, n)
              /\ toClient' = SubSeq(toClient, n + 1, Len(toClient))
      BY <1>4 DEF ReadReturns
    <2>3. /\ batch' \in Seq(Packets) /\ toClient' \in Seq(Packets)
          /\ \A j \in DOMAIN batch' : batch'[j] = toClient[j] /\ j \in DOMAIN toClient
          /\ \A j \in DOMAIN toClient' : toClient'[j] = toClient[n + j] /\ n + j \in DOMAIN toClient
      BY <2>1, <2>2, SplitFacts
    <2>4. TypeOK'
      <3>1. awaiting' \in BOOLEAN
        BY <1>4, Zenon DEF ReadReturns
      <3> QED BY <1>0, <1>4, <2>3, <3>1 DEF ReadReturns, TypeOK, tableVars, brokerVars, MaxIdle
    <2> QED BY <1>0, <1>4, <2>3, <2>4 DEF ReadReturns, Shapes, Live
  <1>5. CASE HandlePacket
    <2> DEFINE p == Head(batch)
    <2>1. batch # <<>> /\ p \in Packets /\ FromBroker(p, version) /\ Live
      BY <1>5, BatchTail DEF HandlePacket
    <2>2. /\ batch' \in Seq(Packets)
          /\ \A j \in DOMAIN batch' : FromBroker(batch'[j], version)
          /\ routed' \subseteq Messages
      BY <1>0, <1>5, <2>1, BatchTail, DecodeTypes DEF HandlePacket, Route, TypeOK
    <2>3. /\ toBroker' \in Seq(Packets) /\ idle' \in {0, idle}
          /\ \A j \in DOMAIN toBroker' : FromClient(toBroker'[j])
      <3>1. Write(AutoResponse(p))
        BY <1>5 DEF HandlePacket
      <3>2. CASE AutoResponse(p) = <<>>
        BY <1>0, <3>1, <3>2, WriteNothing DEF Shapes, TypeOK
      <3>3. CASE \E x \in Packets : AutoResponse(p) = <<x>> /\ FromClient(x)
        BY <3>1, <3>3, SentToBroker
      <3> QED BY <2>1, <3>2, <3>3, ResponseCases
    <2>4. p.type \in Final \cup {"pubrec"} => p.id \in PacketIds
      BY <2>1 DEF FromBroker, Final
    <2>5. inUse' \in [PacketIds -> Final \cup {"pubrec", None}]
      BY <1>0, <1>5, <2>4 DEF HandlePacket, Release, TypeOK, Final
    <2>6. /\ pendingCommand' \in [PacketIds \cup BrokerIds -> Commands \cup {None}]
          /\ pendingReply' \in [Correlations -> Commands \cup {None}]
      BY <1>0, <1>5 DEF HandlePacket, Settle, TypeOK
    <2>7. delivery' \in [Commands -> {"Unsent", "Accepted", "Dispatched", "Completed", "Rejected"}]
      <3>1. Report(Decode(p))
        BY <1>5 DEF HandlePacket
      <3>2. AckState(p) \in {"Dispatched", "Completed", "Rejected"}
        BY DEF AckState, SubackState
      <3> HIDE DEF p
      <3> QED BY <1>0, <2>1, <3>1, <3>2, ReportAck, ReportOther DEF TypeOK
    <2>8. TypeOK'
      <3>1. /\ here' \in {here, here \ {p.of}} /\ idle' \in 0..MaxIdle
            /\ UNCHANGED <<version, state, method, wait, awaiting, still, toClient, link, hung,
                           will, asked, publishes, challenges, sessions>>
        BY <1>0, <1>5, <2>3 DEF HandlePacket, TypeOK, brokerVars, MaxIdle
      <3> HIDE DEF p
      <3>2. here' \subseteq Commands
        BY <1>0, <3>1 DEF TypeOK
      <3> QED BY <1>0, <2>2, <2>3, <2>5, <2>6, <2>7, <3>1, <3>2 DEF TypeOK
    <2> QED BY <1>0, <1>5, <2>1, <2>2, <2>3, <2>8 DEF HandlePacket, Shapes, Live
  <1>6. CASE HandleConnack
    <2>1. CASE ~Fail
      <3>1. /\ batch # <<>> /\ state' = "open" /\ Route({})
            /\ UNCHANGED <<version, tableVars, method, clockVars, delivery, wireVars, brokerVars,
                           sessions>>
        BY <1>6, <2>1 DEF HandleConnack
      <3>2. /\ batch' \in Seq(Packets) /\ routed' = routed
            /\ \A j \in DOMAIN batch' : FromBroker(batch'[j], version)
        BY <3>1, BatchTail DEF Route
      <3>3. TypeOK'
        BY <1>0, <3>1, <3>2 DEF TypeOK, tableVars, clockVars, wireVars, brokerVars
      <3> QED BY <1>0, <3>1, <3>2, <3>3 DEF Shapes, Live, wireVars
    <2> QED BY <2>1, FailShapes
  <1>7. CASE HandleAuth
    <2> DEFINE p == Head(batch)
               x == Packet("auth", None, None, TRUE)
    <2>1. batch # <<>> /\ p \in Packets /\ FromBroker(p, version) /\ Live /\ p.type = "auth"
      BY <1>7, BatchTail DEF HandleAuth
    <2>2. /\ batch' \in Seq(Packets)
          /\ \A j \in DOMAIN batch' : FromBroker(batch'[j], version)
          /\ routed' \subseteq Messages
      BY <1>0, <1>7, <2>1, BatchTail, DecodeTypes DEF HandleAuth, Route, TypeOK
    <2>3. x \in Packets /\ FromClient(x)
      <3>1. x \in Packets /\ x.type = "auth" /\ x.id = None /\ x.of = None
        BY <1>0 DEF PacketTypes, Packet, Packets
      <3> QED BY <3>1 DEF FromClient
    <2>4. Write(<<x>>)
      BY <1>7 DEF HandleAuth
    <2> HIDE DEF x
    <2>5. /\ toBroker' \in Seq(Packets) /\ idle' = 0
          /\ \A j \in DOMAIN toBroker' : FromClient(toBroker'[j])
      BY <2>3, <2>4, SentToBroker
    <2>6. p.id \in Methods \cup {None}
      BY <2>1 DEF FromBroker, Awaited
    <2>7. method' \in Methods
      BY <1>0, <1>7, <2>6 DEF HandleAuth, ReplyMethod, TypeOK
    <2>8. UNCHANGED <<version, state, tableVars, delivery, wait, awaiting, still, toClient, link,
                      brokerVars, sessions>>
      BY <1>7 DEF HandleAuth
    <2>9. TypeOK'
      BY <1>0, <2>2, <2>5, <2>7, <2>8 DEF TypeOK, brokerVars, tableVars, MaxIdle
    <2> QED BY <1>0, <2>1, <2>2, <2>5, <2>8, <2>9 DEF Shapes, Live
  <1>8. CASE HandleFails \/ ReadFails
    BY <1>8, FailShapes DEF HandleFails, ReadFails
  <1>9. CASE ReadTimesOut
    <2> DEFINE x == Packet("pingreq", None, None, TRUE)
    <2>1. x \in Packets /\ FromClient(x)
      <3>1. x \in Packets /\ x.type = "pingreq" /\ x.id = None /\ x.of = None
        BY <1>0 DEF PacketTypes, Packet, Packets
      <3> QED BY <3>1 DEF FromClient
    <2>2. CASE wait' = 0 /\ UNCHANGED <<version, state, tableVars, method, idle, awaiting, still,
                                       readVars, delivery, wireVars, brokerVars, sessions>>
      <3>1. TypeOK'
        BY <1>0, <2>2 DEF TypeOK, tableVars, readVars, wireVars, brokerVars
      <3> QED BY <1>0, <2>2, <3>1 DEF Shapes, Live, readVars, wireVars
    <2>3. CASE /\ wait' = 0 /\ awaiting' = TRUE /\ Write(<<x>>)
               /\ UNCHANGED <<version, state, tableVars, method, still, readVars, delivery,
                              toClient, link, brokerVars, sessions>>
      <3> HIDE DEF x
      <3>1. /\ toBroker' \in Seq(Packets) /\ idle' = 0
            /\ \A j \in DOMAIN toBroker' : FromClient(toBroker'[j])
        BY <2>1, <2>3, SentToBroker
      <3>2. awaiting' \in BOOLEAN
        BY <2>3, Zenon
      <3>3. TypeOK'
        BY <1>0, <2>3, <3>1, <3>2 DEF TypeOK, tableVars, readVars, brokerVars, MaxIdle
      <3> QED BY <1>0, <2>3, <3>1, <3>3 DEF Shapes, Live, readVars
    <2> HIDE DEF x
    <2> QED BY <1>9, <2>2, <2>3, FailShapes DEF ReadTimesOut, x
  <1>10. CASE Tick
    <2>1. TypeOK'
      BY <1>0, <1>10 DEF Tick, TypeOK, tableVars, wireVars, brokerVars, Upto, MaxIdle, MaxStill
    <2> QED BY <1>0, <1>10, <2>1 DEF Tick, Shapes, Live, wireVars
  <1>11. CASE BrokerReceives
    <2> DEFINE p == Head(toBroker)
    <2>1. toBroker \in Seq(Packets) /\ toBroker # <<>> /\ \A j \in DOMAIN toBroker : FromClient(toBroker[j])
      BY <1>11 DEF BrokerReceives, Shapes, TypeOK
    <2>2. /\ p \in Packets /\ FromClient(p) /\ Tail(toBroker) \in Seq(Packets)
          /\ \A j \in DOMAIN Tail(toBroker) : FromClient(Tail(toBroker)[j])
      BY <2>1, TailFacts
    <2>3. /\ toBroker' = Tail(toBroker)
          /\ toClient' = toClient \/ \E a \in Answers(p) : toClient' = Append(toClient, a)
      BY <1>11 DEF BrokerReceives
    <2>4. /\ toClient' \in Seq(Packets)
          /\ \A j \in DOMAIN toClient' : FromBroker(toClient'[j], version)
      <3>1. CASE toClient' = toClient
        BY <1>0, <3>1 DEF Shapes, TypeOK
      <3>2. ASSUME NEW a \in Answers(p), toClient' = Append(toClient, a)
            PROVE  /\ toClient' \in Seq(Packets)
                   /\ \A j \in DOMAIN toClient' : FromBroker(toClient'[j], version)
        BY <2>2, <3>2, AnswerCases, SentToClient
      <3> QED BY <2>3, <3>1, <3>2
    <2>5. TypeOK'
      BY <1>0, <1>11, <2>2, <2>3, <2>4
      DEF BrokerReceives, TypeOK, sessionVars, tableVars, clockVars, readVars
    <2> QED BY <1>0, <1>11, <2>2, <2>3, <2>4, <2>5
        DEF BrokerReceives, Shapes, Live, sessionVars, readVars
  <1>12. CASE Break
    <2> DEFINE x == Packet("disconnect", None, None, FALSE)
    <2>1. x \in Packets /\ FromBroker(x, version)
      <3>1. x \in Packets /\ x.type = "disconnect" /\ x.id = None /\ x.of = None
        BY <1>0 DEF PacketTypes, Packet, Packets
      <3> QED BY <3>1 DEF FromBroker
    <2>2. toBroker' = <<>> /\ toClient' \in {toClient, Append(toClient, x)}
      BY <1>12 DEF Break
    <2> HIDE DEF x
    <2>3. /\ toClient' \in Seq(Packets)
          /\ \A j \in DOMAIN toClient' : FromBroker(toClient'[j], version)
      <3>1. CASE toClient' = toClient
        BY <1>0, <3>1 DEF Shapes, TypeOK
      <3>2. CASE toClient' = Append(toClient, x)
        BY <2>1, <3>2, SentToClient
      <3> QED BY <2>2, <3>1, <3>2
    <2>4. TypeOK'
      BY <1>0, <1>12, <2>2, <2>3
      DEF Break, TypeOK, sessionVars, tableVars, clockVars, readVars, brokerVars
    <2> QED BY <1>0, <1>12, <2>2, <2>3, <2>4 DEF Break, Shapes, Live, sessionVars, readVars
  <1>13. CASE Hang
    <2>1. hung' \in BOOLEAN
      BY <1>13, Zenon DEF Hang
    <2>2. TypeOK'
      BY <1>0, <1>13, <2>1 DEF Hang, TypeOK, sessionVars, tableVars, clockVars, readVars
    <2> QED BY <1>0, <1>13, <2>2 DEF Hang, Shapes, Live, sessionVars, readVars
  <1>14. CASE BrokerNoticesEnd
    <2>1. TypeOK'
      BY <1>0, <1>14 DEF BrokerNoticesEnd, TypeOK, sessionVars, tableVars, clockVars, readVars
    <2> QED BY <1>0, <1>14, <2>1 DEF BrokerNoticesEnd, Shapes, Live, sessionVars, readVars
  <1>15. ASSUME NEW c \in Asks, Reply(c) PROVE Shapes'
    <2> DEFINE x == Packet("reply", CorrelationOf[c], c, TRUE)
    <2>1. x \in Packets /\ FromBroker(x, version)
      <3>1. CorrelationOf[c] \in Ids /\ c \in Commands
        BY DEF Ids, Correlations
      <3>2. x \in Packets /\ x.type = "reply" /\ x.id = CorrelationOf[c] /\ x.of = c
        BY <3>1 DEF PacketTypes, Packet, Packets
      <3> QED BY <3>2 DEF FromBroker
    <2>2. toClient' = Append(toClient, x)
      BY <1>15 DEF Reply
    <2> HIDE DEF x
    <2>3. /\ toClient' \in Seq(Packets)
          /\ \A j \in DOMAIN toClient' : FromBroker(toClient'[j], version)
      BY <2>1, <2>2, SentToClient
    <2>4. TypeOK'
      BY <1>0, <1>15, <2>3 DEF Reply, TypeOK, sessionVars, tableVars, clockVars, readVars
    <2> QED BY <1>0, <1>15, <2>3, <2>4 DEF Reply, Shapes, Live, sessionVars, readVars
  <1>16. ASSUME NEW i \in BrokerIds, BrokerPublish(i) PROVE Shapes'
    <2> DEFINE x == Packet("publish", i, None, TRUE)
    <2>1. x \in Packets /\ FromBroker(x, version)
      <3>1. x \in Packets /\ x.type = "publish" /\ x.id = i /\ x.of = None
        BY DEF PacketTypes, Packet, Packets, Ids
      <3> QED BY <3>1 DEF FromBroker
    <2>2. toClient' = Append(toClient, x)
      BY <1>16 DEF BrokerPublish
    <2> HIDE DEF x
    <2>3. /\ toClient' \in Seq(Packets)
          /\ \A j \in DOMAIN toClient' : FromBroker(toClient'[j], version)
      BY <2>1, <2>2, SentToClient
    <2>4. TypeOK'
      <3>1. publishes' \in 0..MaxPublishes
        BY <1>0, <1>16 DEF BrokerPublish, TypeOK
      <3> QED BY <1>0, <1>16, <2>3, <3>1 DEF BrokerPublish, TypeOK, sessionVars, tableVars, clockVars,
        readVars
    <2> QED BY <1>0, <1>16, <2>3, <2>4 DEF BrokerPublish, Shapes, Live, sessionVars, readVars
  <1>17. ASSUME NEW m \in Methods \cup {None}, Challenge(m) PROVE Shapes'
    <2> DEFINE x == Packet("auth", m, None, TRUE)
    <2>1. x \in Packets /\ FromBroker(x, version)
      <3>1. x \in Packets /\ x.type = "auth" /\ x.id = m /\ x.of = None
        BY DEF PacketTypes, Packet, Packets, Ids
      <3> QED BY <3>1 DEF FromBroker
    <2>2. toClient' = Append(toClient, x)
      BY <1>17 DEF Challenge
    <2> HIDE DEF x
    <2>3. /\ toClient' \in Seq(Packets)
          /\ \A j \in DOMAIN toClient' : FromBroker(toClient'[j], version)
      BY <2>1, <2>2, SentToClient
    <2>4. TypeOK'
      <3>1. challenges' \in 0..MaxChallenges
        BY <1>0, <1>17 DEF Challenge, TypeOK
      <3> QED BY <1>0, <1>17, <2>3, <3>1 DEF Challenge, TypeOK, sessionVars, tableVars, clockVars, readVars
    <2> QED BY <1>0, <1>17, <2>3, <2>4 DEF Challenge, Shapes, Live, sessionVars, readVars
  <1>18. CASE UNCHANGED vars
    <2>1. TypeOK'
      BY <1>0, <1>18 DEF vars, TypeOK, sessionVars, tableVars, clockVars, readVars, wireVars, brokerVars
    <2> QED BY <1>18, <2>1 DEF vars, Shapes, Live, sessionVars, readVars, wireVars
  <1> QED BY <1>1, <1>2, <1>3, <1>4, <1>5, <1>6, <1>7, <1>8, <1>9, <1>10, <1>11, <1>12, <1>13,
             <1>14, <1>15, <1>16, <1>17, <1>18 DEF Next, Client, Environment

\* TypeOK holds in every reachable state, for any commands, ids and bounds.
THEOREM TypeCorrect == Spec => []TypeOK
  <1>1. Shapes => TypeOK
    BY DEF Shapes
  <1> QED BY <1>1, InitShapes, NextShapes, PTL DEF Spec

-----------------------------------------------------------------------------
(* Time and the will.                                                      *)

\* A session that fails satisfies the invariant of the clocks and the will.
LEMMA FailClocks == ASSUME Clocks, Fail PROVE Clocks'
  BY DEF Fail, Blank, Clocks, Reading, PingInTime, PingAnswered, Silence, WillCancelled, Live,
         brokerVars

\* Steps that leave the clocks alone and only send to the client keep the
\* invariant of the clocks and the will.
LEMMA SendingKeepsClocks ==
    ASSUME Shapes, Clocks, NEW x \in Packets, toClient' = Append(toClient, x), ~hung,
           UNCHANGED <<state, sessionVars, toBroker, link, hung, will>>
    PROVE  Clocks'
  <1>1. toClient' # <<>>
    BY AppendFacts DEF Shapes, TypeOK
  <1> QED BY <1>1 DEF Clocks, Reading, PingInTime, PingAnswered, Silence, WillCancelled, Live,
                      sessionVars, clockVars, readVars, MaxIdle

\* A write keeps a ping that is on its way.
LEMMA PingKept ==
    ASSUME Shapes, NEW x \in Packets, link = "up", Write(<<x>>)
    PROVE  /\ (\E j \in DOMAIN toBroker : toBroker[j].type = "pingreq") =>
                 \E j \in DOMAIN toBroker' : toBroker'[j].type = "pingreq"
           /\ x.type = "pingreq" => \E j \in DOMAIN toBroker' : toBroker'[j].type = "pingreq"
  <1>1. TypeOK /\ toBroker \in Seq(Packets)
    BY DEF Shapes, TypeOK
  <1>2. toBroker' = Append(toBroker, x)
    BY <1>1, WriteOne
  <1>3. /\ Len(toBroker) \in Nat /\ DOMAIN toBroker = 1..Len(toBroker)
        /\ DOMAIN toBroker' = 1..(Len(toBroker) + 1)
        /\ \A j \in 1..Len(toBroker) : toBroker'[j] = toBroker[j]
        /\ toBroker'[Len(toBroker) + 1] = x
    BY <1>1, <1>2, AppendFacts
  <1>4. DOMAIN toBroker \subseteq DOMAIN toBroker' /\ Len(toBroker) + 1 \in DOMAIN toBroker'
    BY <1>3
  <1> QED BY <1>3, <1>4

\* Every step keeps the invariant of the clocks and the will.
LEMMA NextClocks == Shapes /\ Clocks /\ [Next]_vars => Clocks'
  <1> SUFFICES ASSUME Shapes, Clocks, [Next]_vars PROVE Clocks'
      OBVIOUS
  <1> USE SessionAssumptions DEF SessionAssumptions
  <1>0. /\ TypeOK /\ None \in Ids
        /\ idle \in Nat /\ wait \in Nat /\ still \in Nat /\ MaxIdle \in Nat \ {0}
        /\ MaxIdle = Keepalive + ReadTimeout /\ MaxStill = 2 * MaxIdle
        /\ toBroker \in Seq(Packets) /\ toClient \in Seq(Packets) /\ batch \in Seq(Packets)
        /\ wait <= ReadTimeout
    BY DEF Shapes, TypeOK, MaxIdle, MaxStill, Ids
  <1>1. CASE Connect
    BY <1>0, <1>1 DEF Connect, Blank, Clocks, Reading, PingInTime, PingAnswered, Silence,
                      WillCancelled, Live
  <1>2. CASE Disconnect
    <2> DEFINE x == Packet("disconnect", None, None, TRUE)
    <2>1. x \in Packets /\ x.type = "disconnect"
      BY <1>0 DEF PacketTypes, Packet, Packets
    <2> HIDE DEF x
    <2>2. link = "up" => toBroker' = Append(toBroker, x)
      BY <1>2 DEF Disconnect, x
    <2>3. link = "up" => toBroker' # <<>> /\ toBroker'[Len(toBroker')].type = "disconnect"
      BY <1>0, <2>1, <2>2, AppendFacts
    <2>4. /\ state = "open" /\ state' = "closed" /\ batch' = <<>> /\ still' = 0
          /\ link' = link /\ will' = will
      BY <1>2 DEF Disconnect, Blank, brokerVars
    <2> QED BY <2>3, <2>4 DEF Clocks, Reading, PingInTime, PingAnswered, Silence, WillCancelled, Live
  <1>3. ASSUME NEW c \in Commands, SendRequest(c) PROVE Clocks'
    <2>1. PICK id \in AssignId(c) : Write(<<Packet("request", id, c, TRUE)>>)
      BY <1>3 DEF SendRequest
    <2> DEFINE x == Packet("request", id, c, TRUE)
    <2>2. x \in Packets
      <3>1. id \in Ids
        BY <1>0 DEF AssignId, Ids
      <3> QED BY <3>1 DEF PacketTypes, Packet, Packets
    <2> HIDE DEF x
    <2>3. Write(<<x>>) /\ idle' = 0
      BY <1>0, <2>1, <2>2, WriteOne DEF x
    <2>4. PingAnswered'
      BY <1>3, <2>2, <2>3, PingKept DEF SendRequest, Clocks, PingAnswered, Live, brokerVars
    <2> QED BY <1>0, <1>3, <2>3, <2>4
        DEF SendRequest, Clocks, Reading, PingInTime, Silence, WillCancelled, Live, brokerVars
  <1>4. CASE ReadReturns
    <2>1. /\ state' = state /\ still' = still /\ hung' = hung /\ link' = link /\ will' = will
          /\ idle' = 0 /\ wait' = 0 /\ awaiting' = FALSE /\ toClient # <<>> /\ Live
          /\ toBroker' = toBroker
      BY <1>4 DEF ReadReturns, brokerVars
    <2> QED BY <1>0, <2>1 DEF Clocks, Reading, PingInTime, PingAnswered, Silence, WillCancelled, Live
  <1>5. CASE HandlePacket \/ HandleAuth
    <2>1. /\ batch # <<>> /\ Live /\ wait = 0 /\ ~awaiting /\ state' = state /\ wait' = wait
          /\ awaiting' = awaiting /\ still' = still /\ toClient' = toClient /\ link' = link
          /\ hung' = hung /\ will' = will
      BY <1>5, BatchTail DEF HandlePacket, HandleAuth, brokerVars, Clocks, Reading
    <2>2. idle' \in {0, idle}
      BY <1>5 DEF HandlePacket, HandleAuth, Write
    <2> QED BY <1>0, <2>1, <2>2
        DEF Clocks, Reading, PingInTime, PingAnswered, Silence, WillCancelled, Live
  <1>6. CASE HandleConnack
    <2>1. CASE ~Fail
      BY <1>6, <2>1, <1>0, BatchTail
      DEF HandleConnack, Route, Clocks, Reading, PingInTime, PingAnswered, Silence, WillCancelled,
          Live, clockVars, wireVars, brokerVars
    <2> QED BY <2>1, FailClocks
  <1>7. CASE HandleFails \/ ReadFails
    BY <1>7, FailClocks DEF HandleFails, ReadFails
  <1>8. CASE ReadTimesOut
    <2> DEFINE x == Packet("pingreq", None, None, TRUE)
    <2>1. x \in Packets /\ x.type = "pingreq"
      BY <1>0 DEF PacketTypes, Packet, Packets
    <2>2. CASE /\ ~PingDue /\ wait' = 0
               /\ UNCHANGED <<version, state, tableVars, method, idle, awaiting, still, readVars,
                              delivery, wireVars, brokerVars, sessions>>
      BY <1>0, <1>8, <2>2
      DEF PingDue, ReadTimesOut, Clocks, Reading, PingInTime, PingAnswered, Silence, WillCancelled,
          Live, readVars, wireVars, brokerVars
    <2>3. CASE /\ PingDue /\ ~awaiting /\ wait' = 0 /\ awaiting' = TRUE /\ Write(<<x>>)
               /\ UNCHANGED <<version, state, tableVars, method, still, readVars, delivery,
                              toClient, link, brokerVars, sessions>>
      <3> HIDE DEF x
      <3>1. idle' = 0 /\ batch = <<>> /\ Live
        BY <1>0, <1>8, <2>1, <2>3, WriteOne DEF ReadTimesOut
      <3>2. PingAnswered'
        BY <2>1, <2>3, PingKept DEF PingAnswered, brokerVars, Live
      <3>3. Silence'
        BY <1>0, <2>3, <3>1 DEF Clocks, Silence, PingInTime, brokerVars, readVars, Live
      <3> QED BY <1>0, <2>3, <3>1, <3>2, <3>3
          DEF PingDue, Clocks, Reading, PingInTime, WillCancelled, Live, readVars, brokerVars
    <2> HIDE DEF x
    <2> QED BY <1>8, <2>2, <2>3, FailClocks DEF ReadTimesOut, x
  <1>9. CASE Tick
    <2>1. /\ Live /\ batch = <<>> /\ batch' = batch /\ toClient = <<>> /\ wait < ReadTimeout
          /\ link = "up" /\ wait' = wait + 1 /\ idle' = Upto(idle, MaxIdle)
          /\ still' = IF hung THEN Upto(still, MaxStill) ELSE 0
          /\ state' = state /\ awaiting' = awaiting /\ hung' = hung /\ will' = will
          /\ toClient' = toClient /\ toBroker' = toBroker /\ link' = link
          /\ hung \/ \A i \in DOMAIN toBroker : toBroker[i].type # "pingreq"
      BY <1>9 DEF Tick, wireVars, brokerVars
    <2>2. PingInTime' /\ (Keepalive # 0 => idle' = idle + 1)
      BY <1>0, <2>1 DEF Clocks, PingInTime, Upto, Live
    <2>3. Silence'
      BY <1>0, <2>1, <2>2 DEF Clocks, Silence, Upto, Live, PingInTime
    <2> QED BY <2>1, <2>2, <2>3 DEF Clocks, Reading, PingAnswered, WillCancelled, Live
  <1>10. CASE BrokerReceives
    <2> DEFINE p == Head(toBroker)
    <2>1. /\ ~hung /\ toBroker # <<>> /\ toBroker' = Tail(toBroker)
          /\ \/ Answers(p) = {} /\ toClient' = toClient
             \/ \E a \in Answers(p) : toClient' = Append(toClient, a)
          /\ will' = CASE p.type = "connect" -> IF p.ok THEN "armed" ELSE "none"
                       [] p.type = "disconnect" -> "none"
                       [] OTHER -> will
          /\ UNCHANGED <<state, sessionVars, link, hung>>
      BY <1>10 DEF BrokerReceives
    <2>2. /\ p = toBroker[1] /\ p \in Packets /\ 1 \in DOMAIN toBroker
          /\ Len(toBroker) \in Nat \ {0} /\ DOMAIN toBroker = 1..Len(toBroker)
          /\ toBroker' \in Seq(Packets) /\ Len(toBroker') = Len(toBroker) - 1
          /\ DOMAIN toBroker' = 1..(Len(toBroker) - 1)
          /\ \A j \in DOMAIN toBroker' : toBroker'[j] = toBroker[j + 1] /\ j + 1 \in DOMAIN toBroker
      BY <1>0, <2>1, TailFacts
    <2>3. FromClient(p)
      BY <2>2 DEF Shapes
    <2>4. toClient' = toClient \/ toClient' # <<>>
      <3>1. ASSUME NEW a \in Answers(p), toClient' = Append(toClient, a) PROVE toClient' # <<>>
        BY <1>0, <2>2, <2>3, <3>1, AnswerCases, AppendFacts
      <3> QED BY <2>1, <3>1
    <2>5. p.type = "pingreq" => toClient' # <<>>
      <3>1. p.type = "pingreq" => Answers(p) # {}
        BY DEF Answers
      <3>2. ASSUME NEW a \in Answers(p), toClient' = Append(toClient, a) PROVE toClient' # <<>>
        BY <1>0, <2>2, <2>3, <3>2, AnswerCases, AppendFacts
      <3> QED BY <2>1, <3>1, <3>2
    <2> HIDE DEF p
    <2>6. ASSUME toClient' = toClient, NEW j \in DOMAIN toBroker, toBroker[j].type = "pingreq"
          PROVE  toClient # <<>> \/ \E i \in DOMAIN toBroker' : toBroker'[i].type = "pingreq"
      <3>1. CASE j = 1
        BY <2>2, <2>5, <2>6, <3>1
      <3>2. CASE j # 1
        <4>1. j - 1 \in DOMAIN toBroker' /\ (j - 1) + 1 = j
          BY <2>2, <3>2
        <4> QED BY <2>2, <2>6, <4>1
      <3> QED BY <3>1, <3>2
    <2>7. PingAnswered'
      BY <2>1, <2>4, <2>6 DEF Clocks, PingAnswered, Live, sessionVars, clockVars
    <2>8. WillCancelled'
      <3>1. Live => will' # "published"
        BY <2>1 DEF Clocks, WillCancelled
      <3>2. ASSUME state = "closed", link = "up"
            PROVE  /\ will' # "published"
                   /\ IF toBroker' = <<>> THEN will' = "none"
                                          ELSE toBroker'[Len(toBroker')].type = "disconnect"
        <4>1. toBroker[Len(toBroker)].type = "disconnect" /\ will # "published"
          BY <2>1, <3>2 DEF Clocks, WillCancelled
        <4>2. CASE Len(toBroker) = 1
          <5>1. toBroker' = <<>> /\ p.type = "disconnect"
            BY <2>2, <4>1, <4>2
          <5> QED BY <2>1, <5>1
        <4>3. CASE Len(toBroker) # 1
          <5>1. /\ Len(toBroker') \in DOMAIN toBroker' /\ Len(toBroker') + 1 = Len(toBroker)
                /\ toBroker' # <<>>
            BY <2>2, <4>3
          <5>2. toBroker'[Len(toBroker')].type = "disconnect"
            BY <2>2, <4>1, <5>1
          <5> QED BY <2>1, <4>1, <5>1, <5>2
        <4> QED BY <4>2, <4>3
      <3> QED BY <2>1, <3>1, <3>2 DEF WillCancelled, Live
    <2> QED BY <2>1, <2>7, <2>8 DEF Clocks, Reading, PingInTime, Silence, Live, sessionVars, clockVars,
                                    readVars
  <1>11. CASE Break
    BY <1>0, <1>11
    DEF Break, Clocks, Reading, PingInTime, PingAnswered, Silence, WillCancelled, Live, sessionVars,
        clockVars, readVars, brokerVars
  <1>12. CASE Hang
    BY <1>0, <1>12
    DEF Hang, Clocks, Reading, PingInTime, PingAnswered, Silence, WillCancelled, Live, sessionVars,
        clockVars, readVars
  <1>13. CASE BrokerNoticesEnd
    BY <1>13
    DEF BrokerNoticesEnd, Clocks, Reading, PingInTime, PingAnswered, Silence, WillCancelled, Live,
        sessionVars, clockVars, readVars
  <1>14. ASSUME NEW c \in Asks, Reply(c) PROVE Clocks'
    <2>1. Packet("reply", CorrelationOf[c], c, TRUE) \in Packets
      BY DEF PacketTypes, Packet, Packets, Ids, Correlations
    <2> QED BY <1>14, <2>1, SendingKeepsClocks DEF Reply
  <1>15. ASSUME NEW i \in BrokerIds, BrokerPublish(i) PROVE Clocks'
    <2>1. Packet("publish", i, None, TRUE) \in Packets
      BY DEF PacketTypes, Packet, Packets, Ids
    <2> QED BY <1>15, <2>1, SendingKeepsClocks DEF BrokerPublish
  <1>16. ASSUME NEW m \in Methods \cup {None}, Challenge(m) PROVE Clocks'
    <2>1. Packet("auth", m, None, TRUE) \in Packets
      BY DEF PacketTypes, Packet, Packets, Ids
    <2> QED BY <1>16, <2>1, SendingKeepsClocks DEF Challenge
  <1>17. CASE UNCHANGED vars
    BY <1>17
    DEF vars, Clocks, Reading, PingInTime, PingAnswered, Silence, WillCancelled, Live, sessionVars,
        clockVars, readVars, wireVars, brokerVars
  <1> QED BY <1>1, <1>2, <1>3, <1>4, <1>5, <1>6, <1>7, <1>8, <1>9, <1>10, <1>11, <1>12, <1>13,
             <1>14, <1>15, <1>16, <1>17 DEF Next, Client, Environment

\* The invariant of the clocks holds in every reachable state.
LEMMA ClocksAlways == Spec => [](Shapes /\ Clocks)
  <1>1. Init => Clocks
    BY SessionAssumptions
    DEF SessionAssumptions, Init, Clocks, Reading, PingInTime, PingAnswered, Silence, WillCancelled,
        Live, MaxIdle
  <1> QED BY <1>1, InitShapes, NextShapes, NextClocks, PTL DEF Spec

\* HungBrokerNoticed holds in every reachable state, for every keepalive and read
\* timeout: a broker that hangs is given up within two intervals and two reads.
THEOREM HungBrokerGivenUp == Spec => []HungBrokerNoticed
  <1>1. Shapes /\ Clocks => HungBrokerNoticed
    <2> SUFFICES ASSUME Shapes, Clocks, hung, Live, Keepalive # 0 PROVE still < MaxStill
        BY DEF HungBrokerNoticed
    <2>1. /\ idle \in Nat /\ wait \in 0..ReadTimeout /\ still \in Nat /\ Keepalive \in Nat
          /\ ReadTimeout \in Nat /\ MaxIdle = Keepalive + ReadTimeout /\ MaxStill = 2 * MaxIdle
      BY SessionAssumptions DEF SessionAssumptions, Shapes, TypeOK, MaxIdle, MaxStill
    <2>2. idle < MaxIdle
      BY <2>1 DEF Clocks, PingInTime
    <2> QED BY <2>1, <2>2 DEF Clocks, Silence
  <1> QED BY <1>1, ClocksAlways, PTL

\* FailsForCause is a property of every step: an open session on a connection that
\* works is given up between two reads only when the broker hangs.
THEOREM GivenUpForCause == Spec => FailsForCause
  <1>1. ASSUME Shapes, Clocks, [Next]_vars, state = "open", state' = "failed", batch = <<>>, link = "up"
        PROVE  hung
    <2>1. CASE ReadTimesOut
      <3>1. awaiting /\ wait = ReadTimeout /\ Live
        BY <1>1, <2>1 DEF ReadTimesOut, Live
      <3> QED BY <1>1, <3>1, SessionAssumptions DEF SessionAssumptions, Clocks, PingAnswered
    <2> QED BY <1>1, <2>1
        DEF Next, Client, Environment, vars, Connect, Disconnect, SendRequest, ReadReturns,
            HandlePacket, HandleConnack, HandleAuth, HandleFails, ReadFails, Tick, BrokerReceives,
            Break, Hang, BrokerNoticesEnd, Reply, BrokerPublish, Challenge
  <1>2. Shapes /\ Clocks /\ [Next]_vars =>
            [state = "open" /\ state' = "failed" /\ batch = <<>> /\ link = "up" => hung]_vars
    BY <1>1
  <1> QED BY <1>2, ClocksAlways, PTL DEF Spec, FailsForCause

\* WillOnlyOnLoss holds in every reachable state: no last will follows a
\* disconnect_session on a connection that works.
THEOREM WillCancelledByDisconnect == Spec => []WillOnlyOnLoss
  <1>1. Shapes /\ Clocks => WillOnlyOnLoss
    BY DEF Clocks, WillCancelled, WillOnlyOnLoss, Shapes, TypeOK
  <1> QED BY <1>1, ClocksAlways, PTL

-----------------------------------------------------------------------------
(* Replies.                                                                *)

\* Empty tables route no reply.
LEMMA BlankRoutes == ASSUME Blank PROVE Routes' /\ RepliesReachAsker'
  BY DEF Blank, Routes, RepliesReachAsker, Correlations

\* Steps that touch neither the tables nor the decoded messages, or only empty the
\* latter, keep the routes.
LEMMA RoutesKept ==
    ASSUME Routes, RepliesReachAsker, UNCHANGED <<version, here, pendingReply>>,
           routed' = routed \/ routed' = {}
    PROVE  Routes' /\ RepliesReachAsker'
  BY DEF Routes, RepliesReachAsker

\* A message that is no reply leaves what is said of replies true.
LEMMA RepliesKept ==
    ASSUME RepliesReachAsker, version' = version, NEW ms, routed' = routed \cup ms,
           \A m \in ms : m.by # "reply"
    PROVE  RepliesReachAsker'
  BY DEF RepliesReachAsker

\* Every step keeps the routes of the replies.
LEMMA NextRoutes ==
    ASSUME DistinctCorrelations, Shapes, Routes, RepliesReachAsker, [Next]_vars
    PROVE  Routes' /\ RepliesReachAsker'
  <1> USE SessionAssumptions DEF SessionAssumptions
  <1>0. /\ TypeOK /\ version' = version /\ here \subseteq Commands /\ version \in {"v3", "v5"}
        /\ pendingReply \in [Correlations -> Commands \cup {None}]
        /\ \A c \in Asks : CorrelationOf[c] \in Correlations
    BY VersionFixed DEF Shapes, TypeOK, Correlations
  <1>1. CASE Connect \/ Disconnect \/ Fail
    BY <1>1, BlankRoutes DEF Connect, Disconnect, Fail
  <1>2. ASSUME NEW c \in Commands, SendRequest(c) PROVE Routes' /\ RepliesReachAsker'
    <2>1. /\ pendingReply' = IF AsksReply(c) THEN [pendingReply EXCEPT ![CorrelationOf[c]] = c]
                                             ELSE pendingReply
          /\ here' = here \cup {c} /\ routed' = {}
      BY <1>2 DEF SendRequest, Record
    <2>2. CASE version = "v5" /\ c \in Asks
      <3>1. pendingReply' = [pendingReply EXCEPT ![CorrelationOf[c]] = c]
        BY <2>1, <2>2 DEF AsksReply
      <3>2. \A d \in Asks : d \in here' <=> pendingReply'[CorrelationOf[d]] # None
        BY <1>0, <2>1, <2>2, <3>1 DEF Routes, DistinctCorrelations
      <3>3. \A k \in Correlations : pendingReply'[k] # None =>
               pendingReply'[k] \in Asks /\ CorrelationOf[pendingReply'[k]] = k
        BY <1>0, <2>2, <3>1 DEF Routes
      <3> QED BY <2>1, <3>2, <3>3 DEF Routes, RepliesReachAsker
    <2>3. CASE ~(version = "v5" /\ c \in Asks)
      BY <1>0, <2>1, <2>3 DEF AsksReply, Routes, RepliesReachAsker
    <2> QED BY <2>2, <2>3
  <1>3. CASE HandlePacket
    <2> DEFINE p == Head(batch)
    <2>1. p \in Packets /\ FromBroker(p, version)
      BY <1>3, BatchTail DEF HandlePacket
    <2>2. /\ routed' = routed \cup Decode(p)
          /\ pendingReply' = IF p.type = "reply" /\ version = "v5"
                             THEN [pendingReply EXCEPT ![p.id] = None] ELSE pendingReply
          /\ here' = IF p.type = "reply" THEN here \ {p.of} ELSE here
      BY <1>3 DEF HandlePacket, Route, Settle
    <2> HIDE DEF p
    <2>3. CASE p.type # "reply"
      <3>1. \A m \in Decode(p) : m.by = p.type
        BY <2>1, <2>3, DecodeCases DEF PublishEvent, SessionResult, Message
      <3>2. RepliesReachAsker'
        BY <1>0, <2>2, <2>3, <3>1, RepliesKept
      <3> QED BY <1>0, <2>2, <2>3, <3>2 DEF Routes
    <2>4. CASE p.type = "reply"
      <3>1. p.of \in Asks /\ p.id = CorrelationOf[p.of]
        BY <2>1, <2>4 DEF FromBroker, Awaited
      <3>2. Routes'
        <4>1. CASE version = "v5"
          <5>1. pendingReply' = [pendingReply EXCEPT ![CorrelationOf[p.of]] = None] /\ here' = here \ {p.of}
            BY <2>2, <2>4, <3>1, <4>1
          <5>2. \A d \in Asks : d \in here' <=> pendingReply'[CorrelationOf[d]] # None
            BY <1>0, <3>1, <4>1, <5>1 DEF Routes, DistinctCorrelations
          <5>3. \A k \in Correlations : pendingReply'[k] # None =>
                   pendingReply'[k] \in Asks /\ CorrelationOf[pendingReply'[k]] = k
            BY <1>0, <3>1, <4>1, <5>1 DEF Routes
          <5> QED BY <5>2, <5>3 DEF Routes
        <4>2. CASE version # "v5"
          BY <1>0, <4>2 DEF Routes
        <4> QED BY <4>1, <4>2
      <3>3. RepliesReachAsker'
        <4> DEFINE m == ReplyOrEvent(p)
        <4>1. Decode(p) = {m}
          BY <2>1, <2>4, DecodeCases
        <4>2. ASSUME version = "v5"
              PROVE  (m.kind = "result" <=> m.fresh) /\ (m.kind = "result" => m.cmd = m.of)
          <5>1. CASE pendingReply[p.id] = None
            <6>1. p.of \notin here
              BY <3>1, <4>2, <5>1 DEF Routes
            <6>2. m.kind = "event" /\ m.fresh = (p.of \in here)
              BY <4>2, <5>1 DEF ReplyOrEvent, PublishEvent, Message
            <6> QED BY <6>1, <6>2
          <5>2. CASE pendingReply[p.id] # None
            <6>1. p.of \in here /\ pendingReply[p.id] = p.of
              BY <1>0, <3>1, <4>2, <5>2 DEF Routes, DistinctCorrelations
            <6>2. /\ m.kind = "result" /\ m.cmd = pendingReply[p.id] /\ m.of = p.of
                  /\ m.fresh = (p.of \in here)
              BY <4>2, <5>2 DEF ReplyOrEvent, Message
            <6> QED BY <6>1, <6>2
          <5> QED BY <5>1, <5>2
        <4> HIDE DEF m
        <4> QED BY <1>0, <2>2, <4>1, <4>2 DEF RepliesReachAsker
      <3> QED BY <3>2, <3>3
    <2> QED BY <2>3, <2>4
  <1>4. CASE HandleConnack
    <2>1. CASE ~Fail
      <3>1. routed' = routed \cup {} /\ here' = here /\ pendingReply' = pendingReply
        BY <1>4, <2>1 DEF HandleConnack, Route, tableVars
      <3> QED BY <1>0, <3>1, RoutesKept
    <2> QED BY <1>1, <2>1
  <1>5. CASE HandleAuth
    <2> DEFINE p == Head(batch)
    <2>1. p \in Packets /\ FromBroker(p, version) /\ p.type = "auth"
      BY <1>5, BatchTail DEF HandleAuth
    <2>2. routed' = routed \cup Decode(p) /\ here' = here /\ pendingReply' = pendingReply
      BY <1>5 DEF HandleAuth, Route, tableVars
    <2> HIDE DEF p
    <2>3. \A m \in Decode(p) : m.by # "reply"
      BY <2>1, DecodeCases DEF SessionResult, Message, Acks, Final
    <2>4. RepliesReachAsker'
      BY <1>0, <2>2, <2>3, RepliesKept
    <2> QED BY <1>0, <2>2, <2>4 DEF Routes
  <1>6. CASE HandleFails \/ ReadFails
    BY <1>1, <1>6 DEF HandleFails, ReadFails
  <1>7. CASE ReadTimesOut
    BY <1>0, <1>1, <1>7, RoutesKept DEF ReadTimesOut, tableVars, readVars
  <1>8. CASE ReadReturns \/ Tick
    BY <1>0, <1>8, RoutesKept DEF ReadReturns, Tick, tableVars
  <1>9. CASE UNCHANGED <<version, sessionVars>>
    BY <1>9, RoutesKept DEF sessionVars, tableVars, readVars
  <1> QED BY <1>1, <1>2, <1>3, <1>4, <1>5, <1>6, <1>7, <1>8, <1>9
      DEF Next, Client, Environment, vars, BrokerReceives, Break, Hang, BrokerNoticesEnd, Reply,
          BrokerPublish, Challenge

\* RepliesReachAsker holds in every reachable state when no two publishes use the
\* same correlation data: the first reply on the session that asked is the
\* result of the command that asked, any other is an event.
THEOREM RepliesReachTheirAsker ==
    ASSUME DistinctCorrelations PROVE Spec => []RepliesReachAsker
  <1>1. Init => Routes /\ RepliesReachAsker
    BY DEF Init, Routes, RepliesReachAsker, Correlations
  <1>2. Shapes /\ Routes /\ RepliesReachAsker /\ [Next]_vars => Routes' /\ RepliesReachAsker'
    BY NextRoutes
  <1> QED BY <1>1, <1>2, InitShapes, NextShapes, PTL DEF Spec

-----------------------------------------------------------------------------
(* Ids.                                                                    *)

\* A packet that belongs to no id, or to one that has nothing under way, may be
\* added to what is on its way to the broker.
LEMMA TidyAppendOut ==
    ASSUME NEW out \in Seq(Packets), NEW in \in Seq(Packets), NEW read \in Seq(Packets),
           NEW rec, NEW used, Tidy(out, in, read, rec, used), NEW x \in Packets,
           Tracked(x) => /\ Current(x, rec, used)
                         /\ Absent(x.id, out) /\ Absent(x.id, in) /\ Absent(x.id, read)
    PROVE  Tidy(Append(out, x), in, read, rec, used)
  <1> DEFINE q == Append(out, x)
  <1>1. /\ Len(out) \in Nat /\ DOMAIN out = 1..Len(out) /\ DOMAIN q = 1..(Len(out) + 1)
        /\ \A j \in 1..Len(out) : q[j] = out[j]
        /\ q[Len(out) + 1] = x
    BY AppendFacts
  <1> HIDE DEF q
  <1>2. \A j \in DOMAIN q : (j \in DOMAIN out /\ q[j] = out[j]) \/ (j = Len(out) + 1 /\ q[j] = x)
    BY <1>1
  <1>3. AllCurrent(q, rec, used)
    BY <1>2 DEF AllCurrent, Tidy
  <1>4. Once(q)
    BY <1>2 DEF Once, Tidy, Absent
  <1>5. Apart(q, in) /\ Apart(q, read)
    BY <1>2 DEF Apart, Tidy, Absent
  <1> QED BY <1>3, <1>4, <1>5 DEF Tidy, q

\* And so it may be added to what is on its way to the client.
LEMMA TidyAppendIn ==
    ASSUME NEW out \in Seq(Packets), NEW in \in Seq(Packets), NEW read \in Seq(Packets),
           NEW rec, NEW used, Tidy(out, in, read, rec, used), NEW x \in Packets,
           Tracked(x) => /\ Current(x, rec, used)
                         /\ Absent(x.id, out) /\ Absent(x.id, in) /\ Absent(x.id, read)
    PROVE  Tidy(out, Append(in, x), read, rec, used)
  <1> DEFINE q == Append(in, x)
  <1>1. /\ Len(in) \in Nat /\ DOMAIN in = 1..Len(in) /\ DOMAIN q = 1..(Len(in) + 1)
        /\ \A j \in 1..Len(in) : q[j] = in[j]
        /\ q[Len(in) + 1] = x
    BY AppendFacts
  <1> HIDE DEF q
  <1>2. \A j \in DOMAIN q : (j \in DOMAIN in /\ q[j] = in[j]) \/ (j = Len(in) + 1 /\ q[j] = x)
    BY <1>1
  <1>3. AllCurrent(q, rec, used)
    BY <1>2 DEF AllCurrent, Tidy
  <1>4. Once(q)
    BY <1>2 DEF Once, Tidy, Absent
  <1>5. Apart(out, q) /\ Apart(q, read)
    BY <1>2 DEF Apart, Tidy, Absent
  <1> QED BY <1>3, <1>4, <1>5 DEF Tidy, q

\* The first packet on its way to the broker is the only one of its id.
LEMMA TidyTailOut ==
    ASSUME NEW out \in Seq(Packets), NEW in, NEW read, NEW rec, NEW used,
           Tidy(out, in, read, rec, used), out # <<>>
    PROVE  /\ Tidy(Tail(out), in, read, rec, used)
           /\ Tracked(Head(out)) =>
                 /\ Current(Head(out), rec, used)
                 /\ Absent(Head(out).id, Tail(out)) /\ Absent(Head(out).id, in)
                 /\ Absent(Head(out).id, read)
  <1> DEFINE q == Tail(out)
             p == Head(out)
  <1>1. /\ p = out[1] /\ 1 \in DOMAIN out /\ DOMAIN out = 1..Len(out) /\ Len(out) \in Nat
        /\ DOMAIN q = 1..(Len(out) - 1)
        /\ \A j \in DOMAIN q : q[j] = out[j + 1] /\ j + 1 \in DOMAIN out
    BY TailFacts
  <1> HIDE DEF q, p
  <1>2. \A j \in DOMAIN q : j + 1 # 1 /\ \A k \in DOMAIN q : j + 1 = k + 1 => j = k
    BY <1>1
  <1>3. AllCurrent(q, rec, used) /\ (Tracked(p) => Current(p, rec, used))
    BY <1>1 DEF AllCurrent, Tidy
  <1>4. Once(q)
    BY <1>1, <1>2 DEF Once, Tidy
  <1>5. Tracked(p) => Absent(p.id, q)
    BY <1>1, <1>2 DEF Once, Absent, Tidy
  <1>6. Apart(q, in) /\ Apart(q, read) /\ (Tracked(p) => Absent(p.id, in) /\ Absent(p.id, read))
    BY <1>1 DEF Apart, Absent, Tidy
  <1> QED BY <1>3, <1>4, <1>5, <1>6 DEF Tidy, q, p

\* The packet that is handled is the only one of its id.
LEMMA TidyTailRead ==
    ASSUME NEW read \in Seq(Packets), NEW in, NEW out, NEW rec, NEW used,
           Tidy(out, in, read, rec, used), read # <<>>
    PROVE  /\ Tidy(out, in, Tail(read), rec, used)
           /\ Tracked(Head(read)) =>
                 /\ Current(Head(read), rec, used)
                 /\ Absent(Head(read).id, Tail(read)) /\ Absent(Head(read).id, in)
                 /\ Absent(Head(read).id, out)
  <1> DEFINE q == Tail(read)
             p == Head(read)
  <1>1. /\ p = read[1] /\ 1 \in DOMAIN read /\ DOMAIN read = 1..Len(read) /\ Len(read) \in Nat
        /\ DOMAIN q = 1..(Len(read) - 1)
        /\ \A j \in DOMAIN q : q[j] = read[j + 1] /\ j + 1 \in DOMAIN read
    BY TailFacts
  <1> HIDE DEF q, p
  <1>2. \A j \in DOMAIN q : j + 1 # 1 /\ \A k \in DOMAIN q : j + 1 = k + 1 => j = k
    BY <1>1
  <1>3. AllCurrent(q, rec, used) /\ (Tracked(p) => Current(p, rec, used))
    BY <1>1 DEF AllCurrent, Tidy
  <1>4. Once(q)
    BY <1>1, <1>2 DEF Once, Tidy
  <1>5. Tracked(p) => Absent(p.id, q)
    BY <1>1, <1>2 DEF Once, Absent, Tidy
  <1>6. Apart(in, q) /\ Apart(out, q) /\ (Tracked(p) => Absent(p.id, in) /\ Absent(p.id, out))
    BY <1>1 DEF Apart, Absent, Tidy
  <1> QED BY <1>3, <1>4, <1>5, <1>6 DEF Tidy, q, p

\* A read divides the packets, and the ids with them.
LEMMA TidySplit ==
    ASSUME NEW out, NEW in \in Seq(Packets), NEW rec, NEW used, NEW read,
           Tidy(out, in, read, rec, used), NEW n \in 1..Len(in),
           NEW first, NEW rest, first = SubSeq(in, 1, n), rest = SubSeq(in, n + 1, Len(in))
    PROVE  Tidy(out, rest, first, rec, used)
  <1>1. /\ Len(in) \in Nat /\ DOMAIN in = 1..Len(in)
        /\ DOMAIN first = 1..n /\ DOMAIN rest = 1..(Len(in) - n)
        /\ \A j \in DOMAIN first : first[j] = in[j] /\ j \in DOMAIN in
        /\ \A j \in DOMAIN rest : rest[j] = in[n + j] /\ n + j \in DOMAIN in
    BY SplitFacts
  <1>2. /\ \A j, k \in DOMAIN rest : n + j = n + k => j = k
        /\ \A j \in DOMAIN rest, k \in DOMAIN first : n + j # k
    BY <1>1
  <1>3. AllCurrent(first, rec, used) /\ AllCurrent(rest, rec, used)
    BY <1>1 DEF AllCurrent, Tidy
  <1>4. Once(first) /\ Once(rest) /\ Apart(rest, first)
    BY <1>1, <1>2 DEF Once, Apart, Tidy
  <1>5. Apart(out, first) /\ Apart(out, rest)
    BY <1>1 DEF Apart, Tidy
  <1> QED BY <1>3, <1>4, <1>5 DEF Tidy

\* The entries of an id with nothing under way may change.
LEMMA TidyTables ==
    ASSUME NEW out, NEW in, NEW read, NEW rec, NEW used, NEW rec2, NEW used2, NEW i,
           Tidy(out, in, read, rec, used),
           Absent(i, out), Absent(i, in), Absent(i, read),
           \A k \in PacketIds \ {i} : rec2[k] = rec[k] /\ used2[k] = used[k]
    PROVE  Tidy(out, in, read, rec2, used2)
  <1>1. AllCurrent(out, rec2, used2) /\ AllCurrent(in, rec2, used2) /\ AllCurrent(read, rec2, used2)
    BY DEF Tidy, AllCurrent, Current, Absent
  <1> QED BY <1>1 DEF Tidy

\* A free id has nothing under way.
LEMMA FreeIsAbsent ==
    ASSUME NEW q, NEW rec, NEW used, AllCurrent(q, rec, used), NEW i, used[i] = None,
           \A j \in DOMAIN q : q[j] \in Packets
    PROVE  Absent(i, q)
  <1>1. ASSUME NEW j \in DOMAIN q, Tracked(q[j]) PROVE Stage(q[j]) # None
    <2>1. q[j].type \in {"puback", "pubcomp", "suback", "unsuback", "pubrec", "pubrel", "request"}
      BY <1>1 DEF Tracked, Acks, Final
    <2>2. Stage(q[j]) \in {"puback", "pubrec", "pubcomp", "suback", "unsuback"}
      BY <2>1 DEF Stage, Awaited
    <2> QED BY <2>2, NoneIsNoPacket
  <1> QED BY <1>1 DEF Absent, AllCurrent, Current

\* Empty tables, with no session or one that has only sent CONNECT.
LEMMA BlankTokens ==
    ASSUME Blank,
           Live' => /\ toClient' = <<>>
                    /\ \A j \in DOMAIN toBroker' : toBroker'[j].type = "connect"
    PROVE  Tokens'
  <1>1. inUse' = [i \in PacketIds |-> None] /\ batch' = <<>> /\ routed' = {}
        /\ pendingCommand' = [i \in PacketIds \cup BrokerIds |-> None]
    BY DEF Blank
  <1>2. \A p : p.type = "connect" => ~Tracked(p)
    BY DEF Tracked, Acks, Final
  <1>3. Live' => /\ AllCurrent(toBroker', pendingCommand', inUse')
                 /\ Once(toBroker') /\ Apart(toBroker', toClient') /\ Apart(toBroker', batch')
    BY <1>2 DEF AllCurrent, Once, Apart
  <1>4. Live' => /\ AllCurrent(toClient', pendingCommand', inUse') /\ Once(toClient')
                 /\ Apart(toClient', batch')
    BY DEF AllCurrent, Once, Apart
  <1>5. AllCurrent(batch', pendingCommand', inUse') /\ Once(batch')
    BY <1>1 DEF AllCurrent, Once
  <1>6. OneUnderWay'
    BY <1>3, <1>4, <1>5 DEF OneUnderWay, Tidy
  <1>7. StageReported' /\ TableClean' /\ ResultsNameSender'
    BY <1>1 DEF StageReported, TableClean, ResultsNameSender
  <1> QED BY <1>6, <1>7 DEF Tokens

\* Steps that leave the tables and the decoded messages alone keep the invariant
\* of the ids if the queues stay tidy.
LEMMA TokensKept ==
    ASSUME Tokens, UNCHANGED <<pendingCommand, inUse, delivery>>, OneUnderWay',
           routed' = routed \/ routed' = {}
    PROVE  Tokens'
  BY DEF Tokens, StageReported, TableClean, ResultsNameSender

\* What the client writes by itself belongs to no id.
LEMMA WriteUntracked ==
    ASSUME Shapes, NEW x \in Packets, ~Tracked(x), Write(<<x>>), NEW in \in Seq(Packets),
           NEW read \in Seq(Packets), NEW rec, NEW used, Tidy(toBroker, in, read, rec, used)
    PROVE  Tidy(toBroker', in, read, rec, used)
  <1>1. TypeOK /\ toBroker \in Seq(Packets)
    BY DEF Shapes, TypeOK
  <1>2. toBroker' = toBroker \/ toBroker' = Append(toBroker, x)
    BY <1>1, WriteOne
  <1> QED BY <1>1, <1>2, TidyAppendOut

\* The acknowledgement that is handled is the one its command waits for.
LEMMA AckExpected ==
    ASSUME Shapes, Tokens, batch # <<>>, Head(batch).type \in Final \cup {"pubrec"}
    PROVE  LET p == Head(batch) IN
           /\ p.id \in PacketIds /\ p.of \in Commands /\ pendingCommand[p.id] = p.of
           /\ inUse[p.id] = p.type /\ Named(p.id) = p.of
           /\ IF p.type = "pubcomp" THEN delivery[p.of] = "Dispatched" ELSE delivery[p.of] = "Accepted"
           /\ Absent(p.id, Tail(batch)) /\ Absent(p.id, toClient) /\ Absent(p.id, toBroker)
           /\ p.type = "pubrec" /\ ~p.ok => version = "v5"
  <1> DEFINE p == Head(batch)
  <1>1. p \in Packets /\ FromBroker(p, version) /\ Live /\ batch \in Seq(Packets)
    BY BatchTail DEF Shapes, TypeOK
  <1>2. /\ p.id \in PacketIds /\ p.of \in Commands /\ None \notin PacketIds /\ None \notin Commands
        /\ p.type = "pubrec" /\ ~p.ok => version = "v5"
    BY <1>1, SessionAssumptions DEF SessionAssumptions, FromBroker, Final
  <1>3. Tracked(p) /\ Stage(p) = p.type
    BY <1>2 DEF Tracked, Stage, Acks, Final
  <1>4. /\ Current(p, pendingCommand, inUse)
        /\ Absent(p.id, Tail(batch)) /\ Absent(p.id, toClient) /\ Absent(p.id, toBroker)
    BY <1>1, <1>3, TidyTailRead DEF Tokens, OneUnderWay
  <1>5. pendingCommand[p.id] = p.of /\ inUse[p.id] = p.type /\ Named(p.id) = p.of
    BY <1>2, <1>3, <1>4 DEF Current, Named
  <1>6. inUse[p.id] # None
    BY <1>5, NoneIsNoPacket DEF Final
  <1>7. \/ p.type = Awaited(p.of) /\ delivery[p.of] = "Accepted"
        \/ p.type = "pubcomp" /\ delivery[p.of] = "Dispatched"
    BY <1>2, <1>5, <1>6 DEF Tokens, StageReported
  <1>8. Awaited(p.of) # "pubcomp"
    BY DEF Awaited
  <1> QED BY <1>2, <1>4, <1>5, <1>7, <1>8

\* What the handling of an acknowledgement of a request does.
LEMMA AckHandled ==
    ASSUME Shapes, Tokens, HandlePacket, Head(batch).type \in Final \cup {"pubrec"}
    PROVE  LET p == Head(batch) IN
           /\ delivery' = [delivery EXCEPT ![p.of] = AckState(p)]
           /\ IF p.type = "pubrec" /\ p.ok THEN AckState(p) = "Dispatched"
                                          ELSE AckState(p) \in {"Completed", "Rejected"}
           /\ p.type = "pubrec" /\ ~p.ok => AckState(p) = "Rejected"
           /\ inUse' = [inUse EXCEPT ![p.id] = IF p.type = "pubrec" /\ p.ok THEN "pubcomp" ELSE None]
           /\ pendingCommand' = IF p.type = "pubrec" THEN pendingCommand
                                ELSE [pendingCommand EXCEPT ![p.id] = None]
           /\ routed' = routed \cup {Message("result", p.of, AckState(p), p)}
  <1> DEFINE p == Head(batch)
  <1>1. batch # <<>> /\ p \in Packets /\ FromBroker(p, version)
    BY BatchTail DEF HandlePacket
  <1>2. /\ p.id \in PacketIds /\ p.of \in Commands /\ Named(p.id) = p.of
        /\ p.type = "pubrec" /\ ~p.ok => version = "v5"
    BY <1>1, AckExpected
  <1>3. p.type \in Acks /\ p.type \in Final \cup {"pubrec"}
    BY DEF Acks
  <1>4. /\ Report(Decode(p)) /\ Settle(p) /\ Release(p) /\ routed' = routed \cup Decode(p)
    BY DEF HandlePacket, Route
  <1> HIDE DEF p
  <1>5. Decode(p) = {Message("result", p.of, AckState(p), p)}
    BY <1>1, <1>2, <1>3, DecodeCases
  <1>6. delivery' = [delivery EXCEPT ![p.of] = AckState(p)]
    <2>1. delivery' = [c \in Commands |-> IF p.of = c THEN AckState(p) ELSE delivery[c]]
      BY <1>1, <1>2, <1>3, <1>4, ReportAck
    <2> QED BY <1>2, <2>1 DEF Shapes, TypeOK
  <1>7. /\ IF p.type = "pubrec" /\ p.ok THEN AckState(p) = "Dispatched"
                                        ELSE AckState(p) \in {"Completed", "Rejected"}
        /\ p.type = "pubrec" /\ ~p.ok => AckState(p) = "Rejected"
    BY <1>2, <1>3 DEF AckState, SubackState, Final
  <1>8. inUse' = [inUse EXCEPT ![p.id] = IF p.type = "pubrec" /\ p.ok THEN "pubcomp" ELSE None]
    <2>1. CASE p.type = "pubrec" /\ p.ok
      <3>1. inUse' = [inUse EXCEPT ![p.id] = "pubcomp"]
        BY <1>4, <2>1 DEF Release
      <3> QED BY <2>1, <3>1
    <2>2. CASE ~(p.type = "pubrec" /\ p.ok)
      <3>1. inUse' = [inUse EXCEPT ![p.id] = None]
        BY <1>3, <1>4, <2>2 DEF Release
      <3> QED BY <2>2, <3>1
    <2> QED BY <2>1, <2>2
  <1>9. pendingCommand' = IF p.type = "pubrec" THEN pendingCommand
                          ELSE [pendingCommand EXCEPT ![p.id] = None]
    BY <1>3, <1>4 DEF Settle, Final
  <1> QED BY <1>4, <1>5, <1>6, <1>7, <1>8, <1>9 DEF p

\* Any other packet leaves the tables of the ids and the states of the commands
\* alone, whatever id it carries: a PUBREL of the broker, whose id may be one of
\* the client's, is no acknowledgement of a command.
LEMMA OtherHandled ==
    ASSUME Shapes, HandlePacket, Head(batch).type \notin Final \cup {"pubrec"}
    PROVE  /\ UNCHANGED <<delivery, inUse, pendingCommand>>
           /\ routed' = routed \cup Decode(Head(batch))
           /\ \A m \in Decode(Head(batch)) : m.by \notin Final \cup {"pubrec"}
  <1> DEFINE p == Head(batch)
  <1>1. batch # <<>> /\ p \in Packets /\ FromBroker(p, version)
    BY BatchTail DEF HandlePacket
  <1>2. /\ Report(Decode(p)) /\ Settle(p) /\ Release(p) /\ routed' = routed \cup Decode(p)
    BY DEF HandlePacket, Route
  <1>3. UNCHANGED <<inUse, pendingCommand>>
    BY <1>2 DEF Settle, Release
  <1> HIDE DEF p
  <1>4. p.type \notin Final \cup {"pubrec"}
    BY DEF p
  <1>5. delivery' = delivery
    BY <1>1, <1>2, <1>4, ReportOther
  <1>6. \A m \in Decode(p) : m.by = p.type
    BY <1>1, DecodedBy
  <1> QED BY <1>2, <1>3, <1>4, <1>5, <1>6 DEF p

\* Handling a packet keeps the invariant of the ids.
LEMMA HandlePacketTokens == ASSUME Shapes, Tokens, HandlePacket PROVE Tokens'
  <1> DEFINE p == Head(batch)
  <1>0. /\ TypeOK /\ inUse \in [PacketIds -> Final \cup {"pubrec", None}]
        /\ pendingCommand \in [PacketIds \cup BrokerIds -> Commands \cup {None}]
        /\ toBroker \in Seq(Packets) /\ toClient \in Seq(Packets)
        /\ delivery \in [Commands -> {"Unsent", "Accepted", "Dispatched", "Completed", "Rejected"}]
        /\ None \notin Commands /\ None \notin PacketIds
    BY SessionAssumptions DEF SessionAssumptions, Shapes, TypeOK
  <1>1. /\ batch # <<>> /\ p \in Packets /\ FromBroker(p, version) /\ Live
        /\ Tail(batch) \in Seq(Packets) /\ batch \in Seq(Packets)
    BY BatchTail DEF HandlePacket, Shapes, TypeOK
  <1>2. /\ batch' = Tail(batch) /\ toClient' = toClient /\ state' = state
        /\ Write(AutoResponse(p))
    BY DEF HandlePacket, Route
  <1>3. Tidy(toBroker, toClient, Tail(batch), pendingCommand, inUse)
    BY <1>1, TidyTailRead DEF Tokens, OneUnderWay
  <1>4. CASE p.type \notin Final \cup {"pubrec"}
    <2>1. UNCHANGED <<delivery, inUse, pendingCommand>>
      BY <1>4, OtherHandled
    <2>2. Tidy(toBroker', toClient', batch', pendingCommand', inUse')
      <3>1. CASE AutoResponse(p) = <<>>
        BY <1>0, <1>2, <1>3, <2>1, <3>1, WriteNothing
      <3>2. ASSUME NEW x \in Packets, AutoResponse(p) = <<x>>, x.of = None
            PROVE  Tidy(toBroker', toClient', batch', pendingCommand', inUse')
        <4>1. ~Tracked(x)
          BY <1>0, <3>2 DEF Tracked
        <4> QED BY <1>0, <1>1, <1>2, <1>3, <2>1, <3>2, <4>1, WriteUntracked
      <3> QED BY <1>1, <1>4, <3>1, <3>2, ResponseCases
    <2>3. ResultsNameSender'
      BY <1>4, OtherHandled DEF Tokens, ResultsNameSender
    <2>4. StageReported' /\ TableClean'
      BY <2>1 DEF Tokens, StageReported, TableClean
    <2> QED BY <1>2, <2>2, <2>3, <2>4 DEF Tokens, OneUnderWay
  <1>5. CASE p.type \in Final \cup {"pubrec"}
    <2>1. /\ p.id \in PacketIds /\ p.of \in Commands /\ pendingCommand[p.id] = p.of
          /\ inUse[p.id] = p.type
          /\ delivery[p.of] \in {"Accepted", "Dispatched"}
          /\ Absent(p.id, Tail(batch)) /\ Absent(p.id, toClient) /\ Absent(p.id, toBroker)
      BY <1>1, <1>5, AckExpected
    <2>2. /\ delivery' = [delivery EXCEPT ![p.of] = AckState(p)]
          /\ p.type = "pubrec" /\ p.ok => AckState(p) = "Dispatched"
          /\ p.type = "pubrec" /\ ~p.ok => AckState(p) = "Rejected"
          /\ inUse' = [inUse EXCEPT ![p.id] = IF p.type = "pubrec" /\ p.ok THEN "pubcomp" ELSE None]
          /\ pendingCommand' = IF p.type = "pubrec" THEN pendingCommand
                               ELSE [pendingCommand EXCEPT ![p.id] = None]
          /\ routed' = routed \cup {Message("result", p.of, AckState(p), p)}
      BY <1>5, AckHandled
    <2> HIDE DEF p
    <2>3. \A k \in PacketIds \ {p.id} : pendingCommand'[k] = pendingCommand[k] /\ inUse'[k] = inUse[k]
      BY <1>0, <2>2
    <2>4. Tidy(toBroker, toClient, Tail(batch), pendingCommand', inUse')
      BY <1>3, <2>1, <2>3, TidyTables
    <2>5. Tidy(toBroker', toClient', batch', pendingCommand', inUse')
      <3>1. CASE AutoResponse(p) = <<>>
        BY <1>0, <1>2, <2>4, <3>1, WriteNothing
      <3>2. ASSUME NEW x \in Packets, AutoResponse(p) = <<x>>, x.id = p.id, x.of = p.of,
                   x.type = "pubrel", p.type = "pubrec", p.ok
            PROVE  Tidy(toBroker', toClient', batch', pendingCommand', inUse')
        <4>1. toBroker' = toBroker \/ toBroker' = Append(toBroker, x)
          BY <1>0, <1>2, <3>2, WriteOne
        <4>2. Current(x, pendingCommand', inUse')
          BY <1>0, <2>1, <2>2, <3>2 DEF Current, Stage
        <4>3. Tidy(Append(toBroker, x), toClient, Tail(batch), pendingCommand', inUse')
          BY <1>0, <1>1, <2>1, <2>4, <3>2, <4>2, TidyAppendOut
        <4> QED BY <1>2, <2>4, <4>1, <4>3
      <3>3. p.type \notin {"publish", "pubrel"}
        BY <1>5 DEF Final
      <3> QED BY <1>1, <3>1, <3>2, <3>3, ResponseCases
    <2>6. StageReported'
      <3> SUFFICES ASSUME NEW i \in PacketIds, inUse'[i] # None
                   PROVE  /\ pendingCommand'[i] \in Commands /\ NeedsId(pendingCommand'[i])
                          /\ \/ /\ inUse'[i] = Awaited(pendingCommand'[i])
                                /\ delivery'[pendingCommand'[i]] = "Accepted"
                             \/ inUse'[i] = "pubcomp" /\ delivery'[pendingCommand'[i]] = "Dispatched"
          BY DEF StageReported
      <3>1. CASE i = p.id
        <4>1. p.type = "pubrec" /\ p.ok
          BY <1>0, <2>2, <3>1
        <4>2. pendingCommand'[i] = p.of /\ inUse'[i] = "pubcomp" /\ delivery'[p.of] = "Dispatched"
          BY <1>0, <2>1, <2>2, <3>1, <4>1
        <4>3. inUse[i] # None
          BY <2>1, <3>1, <4>1, NoneIsNoPacket
        <4>4. NeedsId(p.of)
          BY <2>1, <3>1, <4>3 DEF Tokens, StageReported
        <4> QED BY <2>1, <4>2, <4>4
      <3>2. CASE i # p.id
        <4>1. inUse'[i] = inUse[i] /\ pendingCommand'[i] = pendingCommand[i]
          BY <2>3, <3>2
        <4>2. pendingCommand[i] # p.of /\ pendingCommand[i] \in Commands
          <5>1. pendingCommand[i] \in Commands
            BY <4>1 DEF Tokens, StageReported
          <5> QED BY <1>0, <2>1, <3>2, <5>1 DEF Tokens, TableClean
        <4>3. delivery'[pendingCommand[i]] = delivery[pendingCommand[i]]
          BY <1>0, <2>2, <4>2
        <4> QED BY <4>1, <4>3 DEF Tokens, StageReported
      <3> QED BY <3>1, <3>2
    <2>7. TableClean'
      <3>0. \A i \in PacketIds : pendingCommand'[i] # None => pendingCommand'[i] = pendingCommand[i]
        BY <1>0, <2>2
      <3>1. \A i, j \in PacketIds :
               pendingCommand'[i] # None /\ pendingCommand'[i] = pendingCommand'[j] => i = j
        BY <3>0 DEF Tokens, TableClean
      <3>3. ASSUME NEW i \in PacketIds, inUse'[i] = None, pendingCommand'[i] # None
            PROVE  delivery'[pendingCommand'[i]] = "Rejected"
        <4>1. pendingCommand'[i] = pendingCommand[i] /\ pendingCommand[i] \in Commands
          BY <1>0, <3>0, <3>3
        <4>2. CASE i = p.id
          <5>1. p.type = "pubrec"
            BY <1>0, <2>2, <3>3, <4>2
          <5>2. "pubcomp" # None
            BY NoneIsNoPacket
          <5>3. ~p.ok
            BY <1>0, <2>2, <3>3, <4>2, <5>1, <5>2
          <5> QED BY <1>0, <2>1, <2>2, <4>1, <4>2, <5>1, <5>3
        <4>3. CASE i # p.id
          <5>1. inUse[i] = None /\ pendingCommand[i] # p.of
            BY <1>0, <2>1, <2>3, <3>3, <4>1, <4>3 DEF Tokens, TableClean
          <5>2. delivery'[pendingCommand[i]] = delivery[pendingCommand[i]]
            BY <1>0, <2>2, <4>1, <5>1
          <5> QED BY <3>3, <4>1, <5>1, <5>2 DEF Tokens, TableClean
        <4> QED BY <4>2, <4>3
      <3> QED BY <3>1, <3>3 DEF TableClean
    <2>8. ResultsNameSender'
      <3> DEFINE m == Message("result", p.of, AckState(p), p)
      <3>1. m.cmd = p.of /\ m.of = p.of
        BY DEF Message
      <3> HIDE DEF m
      <3> QED BY <2>2, <3>1 DEF Tokens, ResultsNameSender, m
    <2> QED BY <1>2, <2>5, <2>6, <2>7, <2>8 DEF Tokens, OneUnderWay
  <1> QED BY <1>4, <1>5

\* Sending a request keeps the invariant of the ids: the id it is given is free,
\* so it has no packet under way, and its command was never sent before.
LEMMA SendRequestTokens ==
    ASSUME Shapes, Tokens, NEW c \in Commands, SendRequest(c) PROVE Tokens'
  <1>0. /\ TypeOK /\ inUse \in [PacketIds -> Final \cup {"pubrec", None}]
        /\ pendingCommand \in [PacketIds \cup BrokerIds -> Commands \cup {None}]
        /\ toBroker \in Seq(Packets) /\ toClient \in Seq(Packets) /\ batch \in Seq(Packets)
        /\ delivery \in [Commands -> {"Unsent", "Accepted", "Dispatched", "Completed", "Rejected"}]
        /\ None \notin Commands /\ None \notin PacketIds /\ None \in Ids
    BY SessionAssumptions DEF SessionAssumptions, Shapes, TypeOK, Ids
  <1>1. PICK id \in AssignId(c) :
            /\ Record(c, id)
            /\ inUse' = IF id = None THEN inUse ELSE [inUse EXCEPT ![id] = Awaited(c)]
            /\ Write(<<Packet("request", id, c, TRUE)>>)
    BY DEF SendRequest
  <1>2. /\ IF NeedsId(c) THEN id \in PacketIds /\ inUse[id] = None ELSE id = None
        /\ pendingCommand' = IF id = None THEN pendingCommand ELSE [pendingCommand EXCEPT ![id] = c]
    BY <1>1 DEF AssignId, Record
  <1>3. /\ Live /\ delivery[c] = "Unsent" /\ delivery' = [delivery EXCEPT ![c] = "Accepted"]
        /\ routed' = {} /\ batch' = batch /\ toClient' = toClient
    BY DEF SendRequest, Live
  <1>4. \A i \in PacketIds : pendingCommand[i] # c
    BY <1>0, <1>3 DEF Tokens, StageReported, TableClean
  <1> DEFINE x == Packet("request", id, c, TRUE)
  <1>5. x \in Packets /\ x.type = "request" /\ x.id = id /\ x.of = c
    BY <1>0, <1>2 DEF PacketTypes, Packet, Packets, Ids
  <1> HIDE DEF x
  <1>6. Write(<<x>>)
    BY <1>1 DEF x
  <1>7. Tidy(toBroker, toClient, batch, pendingCommand, inUse)
    BY <1>3 DEF Tokens, OneUnderWay
  <1>8. CASE id = None
    <2>1. ~Tracked(x)
      BY <1>5, <1>8 DEF Tracked
    <2>2. UNCHANGED <<inUse, pendingCommand>>
      BY <1>1, <1>2, <1>8
    <2>3. Tidy(toBroker', toClient, batch, pendingCommand, inUse)
      BY <1>0, <1>5, <1>6, <1>7, <2>1, WriteUntracked
    <2>4. \A i \in PacketIds : pendingCommand[i] # None =>
             delivery'[pendingCommand[i]] = delivery[pendingCommand[i]]
      BY <1>0, <1>3, <1>4
    <2>5. StageReported'
      BY <1>0, <2>2, <2>4 DEF Tokens, StageReported
    <2>6. TableClean' /\ ResultsNameSender'
      BY <1>3, <2>2, <2>4 DEF Tokens, TableClean, ResultsNameSender
    <2> QED BY <1>3, <2>2, <2>3, <2>5, <2>6 DEF Tokens, OneUnderWay
  <1>9. CASE id # None
    <2>1. NeedsId(c) /\ id \in PacketIds /\ inUse[id] = None
      BY <1>2, <1>9
    <2>2. inUse' = [inUse EXCEPT ![id] = Awaited(c)] /\ pendingCommand' = [pendingCommand EXCEPT ![id] = c]
      BY <1>1, <1>2, <1>9
    <2>3. Absent(id, toBroker) /\ Absent(id, toClient) /\ Absent(id, batch)
      BY <1>0, <1>7, <2>1, FreeIsAbsent, LenProperties DEF Tidy
    <2>4. Tidy(toBroker, toClient, batch, pendingCommand', inUse')
      BY <1>0, <1>7, <2>2, <2>3, TidyTables
    <2>5. Current(x, pendingCommand', inUse')
      BY <1>0, <1>5, <2>1, <2>2 DEF Current, Stage
    <2>6. Tidy(toBroker', toClient', batch', pendingCommand', inUse')
      <3>1. toBroker' = toBroker \/ toBroker' = Append(toBroker, x)
        BY <1>0, <1>5, <1>6, WriteOne
      <3>2. Tidy(Append(toBroker, x), toClient, batch, pendingCommand', inUse')
        BY <1>0, <1>5, <2>3, <2>4, <2>5, TidyAppendOut
      <3> QED BY <1>3, <2>4, <3>1, <3>2
    <2>7. \A i \in PacketIds : i # id =>
             /\ inUse'[i] = inUse[i] /\ pendingCommand'[i] = pendingCommand[i]
             /\ pendingCommand[i] # None => delivery'[pendingCommand[i]] = delivery[pendingCommand[i]]
      BY <1>0, <1>3, <1>4, <2>2
    <2>8. inUse'[id] = Awaited(c) /\ pendingCommand'[id] = c /\ delivery'[c] = "Accepted" /\ Awaited(c) # None
      <3>1. Awaited(c) \in {"puback", "pubrec", "suback", "unsuback"}
        BY DEF Awaited
      <3> QED BY <1>0, <1>3, <2>1, <2>2, <3>1, NoneIsNoPacket
    <2>9. StageReported'
      <3> SUFFICES ASSUME NEW i \in PacketIds, inUse'[i] # None
                   PROVE  /\ pendingCommand'[i] \in Commands /\ NeedsId(pendingCommand'[i])
                          /\ \/ /\ inUse'[i] = Awaited(pendingCommand'[i])
                                /\ delivery'[pendingCommand'[i]] = "Accepted"
                             \/ inUse'[i] = "pubcomp" /\ delivery'[pendingCommand'[i]] = "Dispatched"
          BY DEF StageReported
      <3>1. CASE i = id
        BY <2>1, <2>8, <3>1
      <3>2. CASE i # id
        <4>1. pendingCommand[i] \in Commands /\ pendingCommand[i] # None
          BY <1>0, <2>7, <3>2 DEF Tokens, StageReported
        <4> QED BY <2>7, <3>2, <4>1 DEF Tokens, StageReported
      <3> QED BY <3>1, <3>2
    <2>10. TableClean'
      <3>1. \A i, j \in PacketIds :
               pendingCommand'[i] # None /\ pendingCommand'[i] = pendingCommand'[j] => i = j
        BY <1>4, <2>1, <2>7, <2>8 DEF Tokens, TableClean
      <3>3. \A i \in PacketIds : inUse'[i] = None /\ pendingCommand'[i] # None =>
               delivery'[pendingCommand'[i]] = "Rejected"
        BY <2>7, <2>8 DEF Tokens, TableClean
      <3> QED BY <3>1, <3>3 DEF TableClean
    <2>11. ResultsNameSender'
      BY <1>3 DEF ResultsNameSender
    <2> QED BY <2>6, <2>9, <2>10, <2>11 DEF Tokens, OneUnderWay
  <1> QED BY <1>8, <1>9

\* Every step keeps the invariant of the ids.
LEMMA NextTokens ==
    ASSUME Shapes, Tokens, [Next]_vars PROVE Tokens'
  <1> USE SessionAssumptions DEF SessionAssumptions
  <1>0. /\ TypeOK /\ toBroker \in Seq(Packets) /\ toClient \in Seq(Packets) /\ batch \in Seq(Packets)
        /\ None \notin Commands /\ None \in Ids
    BY DEF Shapes, TypeOK, Ids
  <1>1. CASE Connect
    <2>1. Blank /\ toClient' = <<>> /\ toBroker' = <<Packet("connect", None, None, SendsWill)>>
      BY <1>1 DEF Connect
    <2>2. \A j \in DOMAIN toBroker' : toBroker'[j].type = "connect"
      BY <2>1 DEF Packet
    <2> QED BY <2>1, <2>2, BlankTokens
  <1>2. CASE Disconnect \/ Fail
    <2>1. Blank /\ ~Live'
      BY <1>2 DEF Disconnect, Fail, Live
    <2> QED BY <2>1, BlankTokens
  <1>3. ASSUME NEW c \in Commands, SendRequest(c) PROVE Tokens'
    BY <1>3, SendRequestTokens
  <1>4. CASE HandlePacket
    BY <1>4, HandlePacketTokens
  <1>5. CASE ReadReturns
    <2>1. PICK n \in 1..Len(toClient) :
              /\ batch' = SubSeq(toClient, 1, n)
              /\ toClient' = SubSeq(toClient, n + 1, Len(toClient))
      BY <1>5 DEF ReadReturns
    <2>2. /\ Live /\ toBroker' = toBroker /\ routed' = {} /\ state' = state
          /\ UNCHANGED <<pendingCommand, inUse, delivery>>
      BY <1>5 DEF ReadReturns, tableVars
    <2>3. Tidy(toBroker, toClient', batch', pendingCommand, inUse)
      BY <1>0, <2>1, <2>2, TidySplit DEF Tokens, OneUnderWay
    <2>4. OneUnderWay'
      BY <2>2, <2>3 DEF OneUnderWay
    <2> QED BY <2>2, <2>4, TokensKept
  <1>6. CASE HandleConnack
    <2>1. CASE ~Fail
      <3>1. /\ batch # <<>> /\ Live /\ batch' = Tail(batch) /\ routed' = routed
            /\ UNCHANGED <<pendingCommand, inUse, delivery, toBroker, toClient>>
        BY <1>6, <2>1, BatchTail DEF HandleConnack, Route, tableVars, wireVars
      <3>2. OneUnderWay'
        BY <1>0, <3>1, TidyTailRead DEF Tokens, OneUnderWay
      <3> QED BY <3>1, <3>2, TokensKept
    <2> QED BY <1>2, <2>1
  <1>7. CASE HandleAuth
    <2> DEFINE p == Head(batch)
               x == Packet("auth", None, None, TRUE)
    <2>1. p \in Packets /\ FromBroker(p, version) /\ p.type = "auth" /\ Live /\ batch # <<>>
          /\ Tail(batch) \in Seq(Packets)
      BY <1>7, BatchTail DEF HandleAuth
    <2>2. /\ Write(<<x>>) /\ batch' = Tail(batch) /\ routed' = routed \cup Decode(p) /\ state' = state
          /\ UNCHANGED <<pendingCommand, inUse, delivery, toClient>>
      BY <1>7 DEF HandleAuth, Route, tableVars
    <2>3. x \in Packets /\ ~Tracked(x)
      <3>1. x \in Packets /\ x.type = "auth"
        BY <1>0 DEF PacketTypes, Packet, Packets
      <3> QED BY <3>1 DEF Tracked, Acks, Final
    <2> HIDE DEF p, x
    <2>4. Tidy(toBroker, toClient, Tail(batch), pendingCommand, inUse)
      BY <1>0, <2>1, TidyTailRead DEF Tokens, OneUnderWay
    <2>5. OneUnderWay'
      BY <1>0, <2>1, <2>2, <2>3, <2>4, WriteUntracked DEF OneUnderWay
    <2>6. \A m \in Decode(p) : m.by = "auth"
      BY <2>1, DecodeCases DEF SessionResult, Message, Acks, Final
    <2>7. ResultsNameSender'
      BY <2>2, <2>6 DEF Tokens, ResultsNameSender, Acks, Final
    <2> QED BY <2>2, <2>5, <2>7 DEF Tokens, StageReported, TableClean
  <1>8. CASE HandleFails \/ ReadFails
    BY <1>2, <1>8 DEF HandleFails, ReadFails
  <1>9. CASE ReadTimesOut
    <2> DEFINE x == Packet("pingreq", None, None, TRUE)
    <2>1. x \in Packets /\ ~Tracked(x)
      <3>1. x \in Packets /\ x.type = "pingreq"
        BY <1>0 DEF PacketTypes, Packet, Packets
      <3> QED BY <3>1 DEF Tracked, Acks, Final
    <2>2. CASE UNCHANGED <<state, tableVars, readVars, delivery, wireVars>>
      BY <2>2, TokensKept DEF Tokens, OneUnderWay, Live, tableVars, readVars, wireVars
    <2>3. CASE Write(<<x>>) /\ UNCHANGED <<state, tableVars, readVars, delivery, toClient>>
      <3> HIDE DEF x
      <3>1. OneUnderWay'
        BY <1>0, <1>9, <2>1, <2>3, WriteUntracked
        DEF ReadTimesOut, Tokens, OneUnderWay, tableVars, readVars
      <3> QED BY <2>3, <3>1, TokensKept DEF tableVars, readVars
    <2> HIDE DEF x
    <2> QED BY <1>2, <1>9, <2>2, <2>3 DEF ReadTimesOut, x
  <1>10. CASE Tick
    BY <1>10, TokensKept DEF Tick, Tokens, OneUnderWay, Live, tableVars, wireVars
  <1>11. CASE BrokerReceives
    <2> DEFINE p == Head(toBroker)
    <2>1. /\ toBroker # <<>> /\ toBroker' = Tail(toBroker)
          /\ toClient' = toClient \/ \E a \in Answers(p) : toClient' = Append(toClient, a)
          /\ UNCHANGED <<state, sessionVars, delivery>>
      BY <1>11 DEF BrokerReceives
    <2>2. p \in Packets /\ FromClient(p) /\ Tail(toBroker) \in Seq(Packets)
      BY <1>0, <2>1, TailFacts DEF Shapes
    <2>3. ASSUME Live PROVE Tidy(toBroker', toClient', batch, pendingCommand, inUse)
      <3>1. Tidy(Tail(toBroker), toClient, batch, pendingCommand, inUse)
        BY <1>0, <2>1, <2>3, TidyTailOut DEF Tokens, OneUnderWay
      <3>2. ASSUME NEW a \in Answers(p)
            PROVE  Tidy(Tail(toBroker), Append(toClient, a), batch, pendingCommand, inUse)
        <4>1. a \in Packets /\ (Tracked(a) => Tracked(p) /\ a.id = p.id /\ a.of = p.of /\ Stage(a) = Stage(p))
          BY <2>2, AnswerCases
        <4>2. Tracked(p) => /\ Current(p, pendingCommand, inUse)
                            /\ Absent(p.id, Tail(toBroker)) /\ Absent(p.id, toClient)
                            /\ Absent(p.id, batch)
          BY <1>0, <2>1, <2>3, TidyTailOut DEF Tokens, OneUnderWay
        <4>3. Tracked(a) => /\ Current(a, pendingCommand, inUse)
                            /\ Absent(a.id, Tail(toBroker)) /\ Absent(a.id, toClient)
                            /\ Absent(a.id, batch)
          BY <4>1, <4>2 DEF Current
        <4> QED BY <1>0, <2>2, <3>1, <4>1, <4>3, TidyAppendIn
      <3> QED BY <2>1, <3>1, <3>2
    <2>4. OneUnderWay'
      BY <2>1, <2>3 DEF OneUnderWay, Live, sessionVars, tableVars, readVars
    <2> QED BY <2>1, <2>4, TokensKept DEF sessionVars, tableVars, readVars
  <1>12. ASSUME NEW x \in Packets, ~Tracked(x), toClient' = Append(toClient, x),
                UNCHANGED <<state, sessionVars, delivery, toBroker>>
         PROVE  Tokens'
    <2>1. OneUnderWay'
      BY <1>0, <1>12, TidyAppendIn DEF Tokens, OneUnderWay, Live, sessionVars, tableVars, readVars
    <2> QED BY <1>12, <2>1, TokensKept DEF sessionVars, tableVars, readVars
  <1>13. CASE Break
    <2> DEFINE x == Packet("disconnect", None, None, FALSE)
    <2>1. x \in Packets /\ ~Tracked(x)
      <3>1. x \in Packets /\ x.type = "disconnect"
        BY <1>0 DEF PacketTypes, Packet, Packets
      <3> QED BY <3>1 DEF Tracked, Acks, Final
    <2>2. /\ toBroker' = <<>> /\ toClient' \in {toClient, Append(toClient, x)}
          /\ UNCHANGED <<state, sessionVars, delivery>> /\ Live
      BY <1>13 DEF Break
    <2> HIDE DEF x
    <2>3. Tidy(<<>>, toClient, batch, pendingCommand, inUse)
      BY <2>2 DEF Tokens, OneUnderWay, Tidy, AllCurrent, Once, Apart
    <2>4. Tidy(<<>>, Append(toClient, x), batch, pendingCommand, inUse)
      <3>1. <<>> \in Seq(Packets)
        OBVIOUS
      <3> QED BY <1>0, <2>1, <2>3, <3>1, TidyAppendIn
    <2>5. OneUnderWay'
      BY <2>2, <2>3, <2>4 DEF OneUnderWay, sessionVars, tableVars, readVars
    <2> QED BY <2>2, <2>5, TokensKept DEF sessionVars, tableVars, readVars
  <1>14. CASE Hang
    <2>1. OneUnderWay'
      BY <1>14 DEF Hang, Tokens, OneUnderWay, Tidy, AllCurrent, Once, Apart, Live, sessionVars,
                   tableVars, readVars
    <2> QED BY <1>14, <2>1, TokensKept DEF Hang, sessionVars, tableVars, readVars
  <1>15. ASSUME NEW c \in Asks, Reply(c) PROVE Tokens'
    <2> DEFINE x == Packet("reply", CorrelationOf[c], c, TRUE)
    <2>1. x \in Packets /\ x.type = "reply"
      BY DEF PacketTypes, Packet, Packets, Ids, Correlations
    <2>2. ~Tracked(x)
      BY <2>1 DEF Tracked, Acks, Final
    <2> QED BY <1>12, <1>15, <2>1, <2>2 DEF Reply
  <1>16. ASSUME NEW i \in BrokerIds, BrokerPublish(i) PROVE Tokens'
    <2> DEFINE x == Packet("publish", i, None, TRUE)
    <2>1. x \in Packets /\ x.type = "publish"
      BY DEF PacketTypes, Packet, Packets, Ids
    <2>2. ~Tracked(x)
      BY <2>1 DEF Tracked, Acks, Final
    <2> QED BY <1>12, <1>16, <2>1, <2>2 DEF BrokerPublish
  <1>17. ASSUME NEW m \in Methods \cup {None}, Challenge(m) PROVE Tokens'
    <2> DEFINE x == Packet("auth", m, None, TRUE)
    <2>1. x \in Packets /\ x.type = "auth"
      BY DEF PacketTypes, Packet, Packets, Ids
    <2>2. ~Tracked(x)
      BY <2>1 DEF Tracked, Acks, Final
    <2> QED BY <1>12, <1>17, <2>1, <2>2 DEF Challenge
  <1>18. CASE UNCHANGED <<state, sessionVars, delivery, toBroker, toClient>>
    <2>1. OneUnderWay'
      BY <1>18 DEF Tokens, OneUnderWay, Live, sessionVars, tableVars, readVars
    <2> QED BY <1>18, <2>1, TokensKept DEF sessionVars, tableVars, readVars
  <1>19. CASE BrokerNoticesEnd \/ UNCHANGED vars
    BY <1>18, <1>19 DEF BrokerNoticesEnd, vars, wireVars
  <1> QED BY <1>1, <1>2, <1>3, <1>4, <1>5, <1>6, <1>7, <1>8, <1>9, <1>10, <1>11, <1>13, <1>14,
             <1>15, <1>16, <1>17, <1>19 DEF Next, Client, Environment

\* The invariant of the ids holds in every reachable state.
LEMMA TokensAlways == Spec => [](Shapes /\ Tokens)
  <1>1. Init => Tokens
    BY DEF Init, Tokens, OneUnderWay, StageReported, TableClean, ResultsNameSender, Live
  <1>2. Shapes /\ Tokens /\ [Next]_vars => Tokens'
    BY NextTokens
  <1> QED BY <1>1, <1>2, InitShapes, NextShapes, PTL DEF Spec

\* ResultsNameSender holds in every reachable state, for any commands and ids,
\* those of the broker's own publishes included, which may be the client's: the
\* result of an acknowledgement names the command whose packet was acknowledged.
THEOREM ResultsNameTheirSender == Spec => []ResultsNameSender
  <1>1. Tokens => ResultsNameSender
    BY DEF Tokens
  <1> QED BY <1>1, TokensAlways, PTL

\* IdsTrackCommands holds in every reachable state: the library's ids and the
\* decoder's table never disagree, whatever ids the broker uses.
THEOREM IdsTrackTheirCommands == Spec => []IdsTrackCommands
  <1>1. Shapes /\ Tokens => IdsTrackCommands
    <2> SUFFICES ASSUME Shapes, Tokens, NEW i \in PacketIds
                 PROVE  IF inUse[i] # None
                        THEN /\ pendingCommand[i] # None
                             /\ delivery[pendingCommand[i]] \in {"Accepted", "Dispatched"}
                        ELSE pendingCommand[i] # None => delivery[pendingCommand[i]] = "Rejected"
        BY DEF IdsTrackCommands
    <2>1. None \notin Commands
      BY SessionAssumptions DEF SessionAssumptions
    <2> QED BY <2>1 DEF Tokens, StageReported, TableClean
  <1> QED BY <1>1, TokensAlways, PTL

-----------------------------------------------------------------------------
(* The session implements the delivery states.                             *)

\* Every step of a session reports nothing of a command or advances one of them.
LEMMA StepAdvances ==
    ASSUME Shapes, Tokens, [Next]_vars
    PROVE  [Deliveries!Next]_delivery
  <1>1. ASSUME NEW c \in Commands, SendRequest(c) PROVE Deliveries!Next
    <2>1. delivery[c] = "Unsent" /\ delivery' = [delivery EXCEPT ![c] = "Accepted"]
      BY <1>1 DEF SendRequest
    <2>2. Deliveries!Report(c, "Accepted")
      BY <2>1 DEF Deliveries!Report, Deliveries!Before
    <2> QED BY <2>2 DEF Deliveries!Next, Deliveries!States
  <1>2. CASE HandlePacket
    <2> DEFINE p == Head(batch)
    <2>1. batch # <<>>
      BY <1>2 DEF HandlePacket
    <2>2. CASE p.type \in Final \cup {"pubrec"}
      <3>1. p.of \in Commands /\ delivery[p.of] \in {"Accepted", "Dispatched"}
        BY <2>1, <2>2, AckExpected
      <3>2. /\ delivery' = [delivery EXCEPT ![p.of] = AckState(p)]
            /\ AckState(p) \in {"Dispatched", "Completed", "Rejected"}
        BY <1>2, <2>2, AckHandled
      <3> HIDE DEF p
      <3>3. Deliveries!Report(p.of, AckState(p))
        BY <3>1, <3>2 DEF Deliveries!Report, Deliveries!Before
      <3> QED BY <3>1, <3>2, <3>3 DEF Deliveries!Next, Deliveries!States
    <2>3. CASE p.type \notin Final \cup {"pubrec"}
      BY <1>2, <2>3, OtherHandled
    <2> QED BY <2>2, <2>3
  <1>3. CASE UNCHANGED delivery
    BY <1>3
  <1> QED BY <1>1, <1>2, <1>3
      DEF Next, Client, Environment, vars, Connect, Disconnect, ReadReturns, HandleConnack,
          HandleAuth, HandleFails, ReadFails, ReadTimesOut, Fail, Tick, BrokerReceives, Break, Hang,
          BrokerNoticesEnd, Reply, BrokerPublish, Challenge

\* DeliveryAdvances: the session implements the delivery states of the core.  A
\* command is accepted once, and completed or rejected at most once, whatever
\* the broker answers, repeats or loses, over any number of sessions.
THEOREM SessionImplementsDelivery == Spec => DeliveryAdvances
  <1>1. Init => Deliveries!Init
    BY DEF Init, Deliveries!Init
  <1>2. Shapes /\ Tokens /\ [Next]_vars => [Deliveries!Next]_delivery
    BY StepAdvances
  <1> QED BY <1>1, <1>2, TokensAlways, PTL DEF Spec, DeliveryAdvances, Deliveries!Spec
=============================================================================
