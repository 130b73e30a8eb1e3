----------------------------- MODULE MqttDriver -----------------------------
(***************************************************************************)
(* The MQTT driver of crates/ferredge-proto-mqtt/src/lib.rs: one broker    *)
(* session that callers and a background listener pass around through a    *)
(* mutex-protected slot, the connect handshake, the command channel into   *)
(* the listener, the reconnect loop, and the recovery state (desired       *)
(* subscriptions and queued requests) replayed after a reconnect.          *)
(*                                                                         *)
(* A process is a caller (Clients) or a spawned listener task (Listeners). *)
(* Every step of a process makes one access to shared state: one lock      *)
(* section, one atomic load or store, one channel operation or one         *)
(* exchange with the broker.  A packet exchange (send the request, read    *)
(* once) is one step because the session is private to the process that    *)
(* runs it.                                                                *)
(*                                                                         *)
(* Connection and listener ids are recycled once nothing refers to them,   *)
(* so no run of the model ends because it ran out of sockets.              *)
(***************************************************************************)
EXTENDS Naturals, Sequences, FiniteSets, Functions

CONSTANTS
    Clients,              \* tasks that call the driver's public API
    Publishes,            \* distinct publish requests
    Subscribes,           \* distinct subscribe requests
    Unsubscribes,         \* distinct unsubscribe requests
    Topics,               \* topic filters
    TopicOf,              \* the first topic filter of a (un)subscribe request
    LifecycleOps,         \* lifecycle calls the clients may make
    MaxCalls,             \* bound: lifecycle calls in one behaviour
    MaxListeners,         \* bound: listener tasks alive or referenced at once
    MaxConns,             \* bound: sockets alive at once
    MaxDrops,             \* bound: connections the network breaks
    ChanCap,              \* MQTT_LISTENER_COMMAND_CHANNEL_CAPACITY
    QueueEnabled,         \* reconnect.queue_requests_while_disconnected
    MaxQueued,            \* reconnect.max_queued_requests
    ReplaySubs,           \* reconnect.replay_subscriptions
    ReconnectEnabled,     \* reconnect.enabled
    MaxAttempts,          \* reconnect.max_attempts, or Unlimited
    Unlimited,            \* max_attempts = None
    AttemptCap,           \* where reconnect_attempt saturates (u32::MAX)
    CleanStart,           \* endpoint.clean_start
    MayTimeOut,           \* a command may outlast its 750 ms
    SlowBroker,           \* a CONNACK may outlast the 1 s connect read
    SinkMayFail,          \* the event sink may reject an event
    NoCall                \* "no call in progress"

Requests  == Publishes \cup Subscribes \cup Unsubscribes
Listeners == 1..MaxListeners
Conns     == 1..MaxConns
Procs     == Clients \cup Listeners
AllOps    == {"connect", "stop", "start_listening", "stop_listening", "clear_error"}
Statuses  == {"Stopped", "Running", "Failed"}

\* Program points of the two kinds of process.
EnsurePoints == {"ec_check", "ec_dial", "ec_read", "ec_eval", "ec_install"}
ClientPoints == EnsurePoints \cup
    {"idle", "ret_ok", "ret_err", "check", "sender", "send", "await", "park",
     "take", "io", "restore", "clear", "requeue", "repark",
     "swap", "s_clear", "s_stopped", "s_running", "s_sender", "s_spawn", "s_handle",
     "p_flag", "p_sender", "p_handle", "p_join", "p_status", "p_err", "p_ann",
     "p_take", "q_status", "q_err", "q_ann", "x_clear", "x_ann"}
ListenerPoints == EnsurePoints \cup
    {"ready", "done", "l_top", "l_take", "l_cmds", "l_exec", "l_read", "l_clear",
     "l_retry", "l_sleep", "l_got", "r_start", "r_subs", "r_drain", "r_queue",
     "r_fail", "r_done", "l_clrerr", "l_after", "l_check", "l_giveup", "f_ann", "f_flag",
     "l_exit", "l_flag", "l_final", "l_ann"}

ASSUME MqttAssumptions ==
    /\ Clients \cap (1..MaxListeners) = {}
    /\ Publishes \cap (Subscribes \cup Unsubscribes) = {}
    /\ Subscribes \cap Unsubscribes = {}
    /\ NoCall \notin Requests
    /\ Requests \cap AllOps = {} /\ NoCall \notin AllOps
    /\ TopicOf \in [Subscribes \cup Unsubscribes -> Topics]
    /\ LifecycleOps \subseteq AllOps
    /\ {MaxCalls, MaxListeners, MaxConns, MaxDrops, ChanCap, MaxQueued, AttemptCap} \subseteq Nat
    /\ MaxAttempts \in Nat \cup {Unlimited} /\ Unlimited \notin Nat
    /\ {QueueEnabled, ReplaySubs, ReconnectEnabled, CleanStart,
        MayTimeOut, SlowBroker, SinkMayFail} \subseteq BOOLEAN

VARIABLES
    \* MqttDriver fields
    slot,        \* session: the parked session's connection, 0 for None
    connack,     \* negotiated_connack: "none" or its reason code
    running,     \* listener_running
    handle,      \* listener_handle: the listener it joins, 0 for None
    error,       \* listener_error.is_some()
    announced,   \* the status the last broadcast carried
    sender,      \* listener_command_sender: whose channel, 0 for None
    desired,     \* desired_subscriptions: the requests kept, one per topic
    recq,        \* recovery_queue
    \* network and broker
    conn,        \* state of each connection: dialing, open or down
    brokerSubs,  \* topics the broker has this client subscribed to
    delivered,   \* requests the broker has received at least once
    drops,       \* connections broken so far
    \* processes
    pc, sess,    \* program point and privately held connection of a process
    op, gen,     \* a client's call, and the listener it talks to or joins
    resp,        \* a client's command response channel
    stat,        \* status value a client is about to broadcast
    calls,       \* lifecycle calls made so far
    chan,        \* each listener's command channel
    attempt,     \* reconnect_attempt of a listener
    path,        \* which copy of the reconnect loop it runs: "cmd" or "read"
    cmd,         \* the command it executes
    after,       \* where it goes once the run flag is down
    subsLeft,    \* replay: subscriptions still to send
    queueLeft,   \* replay: drained requests still to send
    \* history
    outcome,     \* what the caller of a request was told
    lost         \* requests thrown away by an overflow or a failed replay

driverVars   == <<slot, connack, running, handle, error, announced, sender, desired, recq>>
brokerVars   == <<conn, brokerSubs, delivered, drops>>
clientVars   == <<op, gen, resp, stat, calls>>
listenerVars == <<chan, attempt, path, cmd, after, subsLeft, queueLeft>>
vars == <<driverVars, brokerVars, pc, sess, clientVars, listenerVars, outcome, lost>>

-----------------------------------------------------------------------------
Goto(p, point) == pc' = [pc EXCEPT ![p] = point]

\* A socket nobody holds: its id may be used for the next connection.
FreeConn(i) == i # slot /\ \A p \in Procs : sess[p] # i

\* Dropping the sessions S closes their sockets (0 stands for no session).
Close(S) == conn' = [i \in Conns |-> IF i \in S THEN "down" ELSE conn[i]]

\* A listener id that no task, handle, command sender or caller refers to.
FreeListener(g) == /\ pc[g] = "done" /\ sender # g /\ handle # g
                   /\ \A c \in Clients : gen[c] # g

Init ==
    /\ slot = 0 /\ connack = "none" /\ running = FALSE /\ handle = 0
    /\ error = FALSE /\ announced = "Stopped" /\ sender = 0
    /\ desired = {} /\ recq = <<>>
    /\ conn = [i \in Conns |-> "down"]
    /\ brokerSubs = {} /\ delivered = {} /\ drops = 0
    /\ pc = [p \in Procs |-> IF p \in Clients THEN "idle" ELSE "done"]
    /\ sess = [p \in Procs |-> 0]
    /\ op = [c \in Clients |-> NoCall] /\ gen = [c \in Clients |-> 0]
    /\ resp = [c \in Clients |-> "none"] /\ stat = [c \in Clients |-> "Stopped"]
    /\ calls = 0
    /\ chan = [g \in Listeners |-> <<>>] /\ attempt = [g \in Listeners |-> 0]
    /\ path = [g \in Listeners |-> "read"] /\ cmd = [g \in Listeners |-> NoCall]
    /\ after = [g \in Listeners |-> "l_exit"]
    /\ subsLeft = [g \in Listeners |-> {}] /\ queueLeft = [g \in Listeners |-> <<>>]
    /\ outcome = [r \in Requests |-> "new"] /\ lost = {}

-----------------------------------------------------------------------------
(* Broker and network (outside the repository).                            *)

\* The broker receives request r on a connection it has accepted.
Receive(r) ==
    /\ delivered' = delivered \cup {r}
    /\ brokerSubs' = CASE r \in Subscribes   -> brokerSubs \cup {TopicOf[r]}
                       [] r \in Unsubscribes -> brokerSubs \ {TopicOf[r]}
                       [] OTHER              -> brokerSubs

\* The broker accepts connection i: any older connection of the same client id
\* is taken over (closed), and a clean start forgets the subscriptions.
Accept(i) ==
    /\ conn' = [j \in Conns |-> IF j = i THEN "open"
                                ELSE IF conn[j] = "open" THEN "down" ELSE conn[j]]
    /\ brokerSubs' = IF CleanStart THEN {} ELSE brokerSubs

\* The network, or the broker, breaks a connection.
NetDrop(i) ==
    /\ drops < MaxDrops /\ conn[i] # "down"
    /\ drops' = drops + 1
    /\ Close({i})
    /\ UNCHANGED <<driverVars, brokerSubs, delivered, pc, sess, clientVars,
                   listenerVars, outcome, lost>>

\* A broker that answers only after the connect loop stopped waiting for it.
\* The next read of the session records the answer, except a command's read.
LateAnswer(i) ==
    /\ SlowBroker /\ conn[i] = "dialing"
    /\ \A p \in Procs : sess[p] = i => pc[p] \notin EnsurePoints
    /\ \/ Accept(i) /\ connack' \in {connack, "Success"}
       \/ Close({i}) /\ connack' \in {connack, "Rejected"} /\ UNCHANGED brokerSubs
    /\ UNCHANGED <<slot, running, handle, error, announced, sender, desired, recq,
                   delivered, drops, pc, sess, clientVars, listenerVars, outcome, lost>>

\* send_packet_request_async followed by one read_from_session_async: the
\* request is received and the read succeeds (or times out, which is Ok); the
\* request is received and the connection breaks before the read; the
\* connection was already broken; or the broker has not answered CONNECT yet,
\* so nothing is received and the packet library refuses to send, or the read
\* times out.
Exchange(i, r, ok) ==
    \/ /\ conn[i] = "open" /\ ok
       /\ Receive(r) /\ UNCHANGED <<conn, drops>>
    \/ /\ conn[i] = "open" /\ ~ok /\ drops < MaxDrops
       /\ Receive(r) /\ Close({i}) /\ drops' = drops + 1
    \/ /\ conn[i] = "down" /\ ~ok
       /\ UNCHANGED <<conn, brokerSubs, delivered, drops>>
    \/ /\ conn[i] = "dialing"
       /\ UNCHANGED <<conn, brokerSubs, delivered, drops>>

-----------------------------------------------------------------------------
(* ensure_connected_async, run by callers and by the listener's retry loop. *)

\* Where a process continues when ensure_connected_async returned.
AfterConnect(p, ok) ==
    IF p \in Listeners THEN IF ok THEN "l_got" ELSE "l_retry"
    ELSE IF ~ok THEN "ret_err"
    ELSE CASE op[p] = "start_listening" -> "swap"
           [] op[p] = "connect"         -> "ret_ok"
           [] OTHER                     -> "take"

\* First lock section: a parked session means connected.
EnsureCheck(p) ==
    /\ pc[p] = "ec_check"
    /\ Goto(p, IF slot # 0 THEN AfterConnect(p, TRUE) ELSE "ec_dial")
    /\ UNCHANGED <<driverVars, brokerVars, sess, clientVars, listenerVars, outcome, lost>>

\* Connect the socket and send CONNECT, or fail to.
EnsureDial(p) ==
    /\ pc[p] = "ec_dial"
    /\ \/ \E i \in Conns :
            /\ FreeConn(i) /\ \A j \in Conns : FreeConn(j) => i <= j
            /\ conn' = [conn EXCEPT ![i] = "dialing"]
            /\ sess' = [sess EXCEPT ![p] = i]
            /\ Goto(p, "ec_read")
       \/ /\ Goto(p, AfterConnect(p, FALSE))
          /\ UNCHANGED <<conn, sess>>
    /\ UNCHANGED <<driverVars, brokerSubs, delivered, drops, clientVars,
                   listenerVars, outcome, lost>>

\* One read of the handshake loop: the CONNACK arrives and is recorded, the
\* read times out with nothing (Ok), the connection is gone, or the keepalive
\* of a session whose CONNECT stays unanswered fails the read.
EnsureRead(p) ==
    LET i == sess[p] IN
    /\ pc[p] = "ec_read"
    /\ \/ /\ conn[i] = "dialing" /\ Accept(i)
          /\ connack' = "Success"
          /\ Goto(p, "ec_eval") /\ UNCHANGED sess
       \/ /\ conn[i] = "dialing" /\ Close({i})
          /\ connack' = "Rejected"
          /\ Goto(p, "ec_eval") /\ UNCHANGED <<sess, brokerSubs>>
       \/ /\ SlowBroker /\ conn[i] = "dialing"
          /\ Goto(p, "ec_eval") /\ UNCHANGED <<connack, conn, brokerSubs, sess>>
       \/ /\ conn[i] = "down" \/ (SlowBroker /\ conn[i] = "dialing")
          /\ Close({i}) /\ sess' = [sess EXCEPT ![p] = 0]
          /\ Goto(p, AfterConnect(p, FALSE))
          /\ UNCHANGED <<connack, brokerSubs>>
    /\ UNCHANGED <<slot, running, handle, error, announced, sender, desired, recq,
                   delivered, drops, clientVars, listenerVars, outcome, lost>>

\* Second half of the loop body: judge the CONNACK that is on record, whichever
\* connection it came from.
EnsureEval(p) ==
    /\ pc[p] = "ec_eval"
    /\ Goto(p, CASE connack = "none"    -> "ec_read"
                 [] connack = "Success" -> "ec_install"
                 [] OTHER               -> AfterConnect(p, FALSE))
    /\ IF connack = "Rejected"
         THEN Close({sess[p]}) /\ sess' = [sess EXCEPT ![p] = 0]
         ELSE UNCHANGED <<conn, sess>>
    /\ UNCHANGED <<driverVars, brokerSubs, delivered, drops, clientVars,
                   listenerVars, outcome, lost>>

\* Last lock section: park the new session unless another one is parked.
EnsureInstall(p) ==
    /\ pc[p] = "ec_install"
    /\ IF slot = 0
         THEN slot' = sess[p] /\ UNCHANGED conn
         ELSE Close({sess[p]}) /\ UNCHANGED slot
    /\ sess' = [sess EXCEPT ![p] = 0]
    /\ Goto(p, AfterConnect(p, TRUE))
    /\ UNCHANGED <<connack, running, handle, error, announced, sender, desired, recq,
                   brokerSubs, delivered, drops, clientVars, listenerVars, outcome, lost>>

EnsureConnected(p) == EnsureCheck(p) \/ EnsureDial(p) \/ EnsureRead(p)
                        \/ EnsureEval(p) \/ EnsureInstall(p)

-----------------------------------------------------------------------------
(* publish, subscribe, unsubscribe.                                        *)

\* Faulty variant: the length check is off by one.
EnqueueOffByOne(r) ==
    LET full == Len(recq) > MaxQueued /\ recq # <<>> IN
    /\ recq' = Append(IF full THEN Tail(recq) ELSE recq, r)
    /\ lost' = IF full THEN lost \cup {Head(recq)} ELSE lost

\* enqueue_recovery_request with the queue enabled: a full queue drops its
\* oldest request first.
Enqueue(r) ==
    LET full == Len(recq) >= MaxQueued /\ recq # <<>> IN
    /\ recq' = Append(IF full THEN Tail(recq) ELSE recq, r)
    /\ lost' = IF full THEN lost \cup {Head(recq)} ELSE lost

\* Faulty variant: unsubscribe forgets to withdraw the intent.
CallRequestKeepsIntent(c, r) ==
    /\ pc[c] = "idle" /\ outcome[r] = "new"
    /\ op' = [op EXCEPT ![c] = r]
    /\ outcome' = [outcome EXCEPT ![r] = "called"]
    /\ desired' = IF r \in Subscribes THEN desired \cup {r} ELSE desired
    /\ Goto(c, "check")
    /\ UNCHANGED <<slot, connack, running, handle, error, announced, sender, recq,
                   brokerVars, sess, gen, resp, stat, calls, listenerVars, lost>>

\* The call begins; subscribe and unsubscribe first record the intent.
CallRequest(c, r) ==
    /\ pc[c] = "idle" /\ outcome[r] = "new"
    /\ op' = [op EXCEPT ![c] = r]
    /\ outcome' = [outcome EXCEPT ![r] = "called"]
    /\ desired' = IF r \in Publishes THEN desired
                  ELSE {d \in desired : TopicOf[d] # TopicOf[r]}
                         \cup (IF r \in Subscribes THEN {r} ELSE {})
    /\ Goto(c, "check")
    /\ UNCHANGED <<slot, connack, running, handle, error, announced, sender, recq,
                   brokerVars, sess, gen, resp, stat, calls, listenerVars, lost>>

\* listener_running decides between the listener's channel and the direct path.
CheckRunning(c) ==
    /\ pc[c] = "check"
    /\ Goto(c, IF running THEN "sender" ELSE "ec_check")
    /\ UNCHANGED <<driverVars, brokerVars, sess, clientVars, listenerVars, outcome, lost>>

\* send_listener_command: clone the sender, or fail for want of one.
CloneSender(c) ==
    /\ pc[c] = "sender"
    /\ gen' = [gen EXCEPT ![c] = sender]
    /\ Goto(c, IF sender = 0 THEN "park" ELSE "send")
    /\ UNCHANGED <<driverVars, brokerVars, sess, op, resp, stat, calls,
                   listenerVars, outcome, lost>>

\* The bounded send: waits for room, fails once the receiver is dropped.
SendCommand(c) ==
    LET g == gen[c] IN
    /\ pc[c] = "send"
    /\ \/ /\ pc[g] = "done"
          /\ Goto(c, "park") /\ gen' = [gen EXCEPT ![c] = 0]
          /\ UNCHANGED chan
       \/ /\ pc[g] # "done" /\ Len(chan[g]) < ChanCap
          /\ chan' = [chan EXCEPT ![g] = Append(@, op[c])]
          /\ Goto(c, "await") /\ UNCHANGED gen
    /\ UNCHANGED <<driverVars, brokerVars, sess, op, resp, stat, calls, attempt, path,
                   cmd, after, subsLeft, queueLeft, outcome, lost>>

\* Faulty variant: a command that outlasts its deadline counts as sent.
AwaitResponseTimeoutIsOk(c) ==
    /\ pc[c] = "await"
    /\ \/ resp[c] = "ok" /\ Goto(c, "ret_ok")
       \/ resp[c] \in {"err", "closed"} /\ Goto(c, "park")
       \/ resp[c] = "none" /\ MayTimeOut /\ Goto(c, "ret_ok")
    /\ resp' = [resp EXCEPT ![c] = "none"]
    /\ gen' = [gen EXCEPT ![c] = 0]
    /\ UNCHANGED <<driverVars, brokerVars, sess, op, stat, calls, listenerVars,
                   outcome, lost>>

\* The response arrives, its channel closes, or the deadline passes while the
\* command stays where it is.  Events of a subscribe may be refused by the sink.
AwaitResponse(c) ==
    /\ pc[c] = "await"
    /\ \/ resp[c] = "ok" /\ Goto(c, "ret_ok")
       \/ resp[c] = "ok" /\ SinkMayFail /\ op[c] \in Subscribes /\ Goto(c, "ret_err")
       \/ resp[c] \in {"err", "closed"} /\ Goto(c, "park")
       \/ resp[c] = "none" /\ MayTimeOut /\ Goto(c, "park")
    /\ resp' = [resp EXCEPT ![c] = "none"]
    /\ gen' = [gen EXCEPT ![c] = 0]
    /\ UNCHANGED <<driverVars, brokerVars, sess, op, stat, calls, listenerVars,
                   outcome, lost>>

\* A failed command is parked in the recovery queue, and the call reports Ok.
Park(c) ==
    /\ pc[c] = "park"
    /\ IF QueueEnabled
         THEN Enqueue(op[c]) /\ Goto(c, "ret_ok")
         ELSE Goto(c, "ret_err") /\ UNCHANGED <<recq, lost>>
    /\ UNCHANGED <<slot, connack, running, handle, error, announced, sender, desired,
                   brokerVars, sess, clientVars, listenerVars, outcome>>

\* take_session_wait_async: polls while a listener runs, else gives up.
TakeSession(c) ==
    /\ pc[c] = "take"
    /\ \/ /\ slot # 0
          /\ sess' = [sess EXCEPT ![c] = slot] /\ slot' = 0
          /\ Goto(c, "io")
       \/ /\ slot = 0 /\ ~running
          /\ Goto(c, "ret_err") /\ UNCHANGED <<slot, sess>>
    /\ UNCHANGED <<connack, running, handle, error, announced, sender, desired, recq,
                   brokerVars, clientVars, listenerVars, outcome, lost>>

\* Send and read on the session the caller holds.
DirectExchange(c) ==
    /\ pc[c] = "io"
    /\ \E ok \in BOOLEAN : /\ Exchange(sess[c], op[c], ok)
                           /\ Goto(c, IF ok THEN "restore" ELSE "clear")
    /\ UNCHANGED <<driverVars, sess, clientVars, listenerVars, outcome, lost>>

\* restore_session overwrites whatever is parked.
RestoreSession(c) ==
    /\ pc[c] = "restore"
    /\ Close({slot}) /\ slot' = sess[c]
    /\ sess' = [sess EXCEPT ![c] = 0]
    /\ \/ Goto(c, "ret_ok")
       \/ SinkMayFail /\ op[c] \in Subscribes /\ Goto(c, "ret_err")
    /\ UNCHANGED <<connack, running, handle, error, announced, sender, desired, recq,
                   brokerSubs, delivered, drops, clientVars, listenerVars, outcome, lost>>

\* clear_session empties the slot, whoever parked what is in it.
ClearSession(c) ==
    /\ pc[c] = "clear"
    /\ Close({slot, sess[c]}) /\ slot' = 0
    /\ sess' = [sess EXCEPT ![c] = 0]
    /\ Goto(c, "requeue")
    /\ UNCHANGED <<connack, running, handle, error, announced, sender, desired, recq,
                   brokerSubs, delivered, drops, clientVars, listenerVars, outcome, lost>>

\* A direct failure is an error unless a listener has come up meanwhile.
Requeue(c) ==
    /\ pc[c] = "requeue"
    /\ Goto(c, IF running THEN "repark" ELSE "ret_err")
    /\ UNCHANGED <<driverVars, brokerVars, sess, clientVars, listenerVars, outcome, lost>>

\* ... in which case it is parked, and Ok even when it could not be.
Repark(c) ==
    /\ pc[c] = "repark"
    /\ IF QueueEnabled THEN Enqueue(op[c]) ELSE UNCHANGED <<recq, lost>>
    /\ Goto(c, "ret_ok")
    /\ UNCHANGED <<slot, connack, running, handle, error, announced, sender, desired,
                   brokerVars, sess, clientVars, listenerVars, outcome>>

\* The call returns to its caller.
Return(c) ==
    /\ pc[c] \in {"ret_ok", "ret_err"}
    /\ outcome' = IF op[c] \in Requests
                    THEN [outcome EXCEPT ![op[c]] = IF pc[c] = "ret_ok" THEN "ok" ELSE "err"]
                    ELSE outcome
    /\ op' = [op EXCEPT ![c] = NoCall]
    /\ Goto(c, "idle")
    /\ UNCHANGED <<driverVars, brokerVars, sess, gen, resp, stat, calls, listenerVars, lost>>

RequestCall(c) ==
    \/ \E r \in Requests : CallRequest(c, r)
    \/ CheckRunning(c) \/ CloneSender(c) \/ SendCommand(c) \/ AwaitResponse(c) \/ Park(c)
    \/ TakeSession(c) \/ DirectExchange(c) \/ RestoreSession(c) \/ ClearSession(c)
    \/ Requeue(c) \/ Repark(c) \/ Return(c)

-----------------------------------------------------------------------------
(* Lifecycle::start / stop, start_listening, stop_listening, and            *)
(* clear_listener_error.                                                    *)

CallLifecycle(c, o) ==
    /\ pc[c] = "idle" /\ calls < MaxCalls
    /\ calls' = calls + 1
    /\ op' = [op EXCEPT ![c] = o]
    /\ Goto(c, CASE o \in {"connect", "start_listening"} -> "ec_check"
                 [] o \in {"stop", "stop_listening"}     -> "p_flag"
                 [] o = "clear_error"                    -> "x_clear")
    /\ UNCHANGED <<driverVars, brokerVars, sess, gen, resp, stat, listenerVars,
                   outcome, lost>>

\* listener_running.swap(true): whoever finds it down owns the start.
SwapRunning(c) ==
    /\ pc[c] = "swap"
    /\ running' = TRUE
    /\ \/ running /\ Goto(c, "ret_err") /\ UNCHANGED gen
       \/ /\ ~running
          /\ \E g \in Listeners :
                /\ FreeListener(g) /\ \A h \in Listeners : FreeListener(h) => g <= h
                /\ gen' = [gen EXCEPT ![c] = g]
                /\ pc' = [pc EXCEPT ![c] = "s_clear", ![g] = "ready"]
    /\ UNCHANGED <<slot, connack, handle, error, announced, sender, desired, recq,
                   brokerVars, sess, op, resp, stat, calls, listenerVars, outcome, lost>>

\* clear_listener_error_async: drop the error, then broadcast Stopped whatever
\* the listener is doing.
ClearError(c, from, to) ==
    /\ pc[c] = from /\ error' = FALSE
    /\ Goto(c, to)
    /\ UNCHANGED <<slot, connack, running, handle, announced, sender, desired, recq,
                   brokerVars, sess, clientVars, listenerVars, outcome, lost>>

Announce(p, from, status, to) ==
    /\ pc[p] = from /\ announced' = status
    /\ Goto(p, to)
    /\ UNCHANGED <<slot, connack, running, handle, error, sender, desired, recq,
                   brokerVars, sess, clientVars, listenerVars, outcome, lost>>

\* Publish the command sender of the listener about to be spawned.
SetSender(c) ==
    /\ pc[c] = "s_sender" /\ sender' = gen[c]
    /\ Goto(c, "s_spawn")
    /\ UNCHANGED <<slot, connack, running, handle, error, announced, desired, recq,
                   brokerVars, sess, clientVars, listenerVars, outcome, lost>>

Spawn(c) ==
    /\ pc[c] = "s_spawn"
    /\ pc' = [pc EXCEPT ![c] = "s_handle", ![gen[c]] = "l_top"]
    /\ UNCHANGED <<driverVars, brokerVars, sess, clientVars, listenerVars, outcome, lost>>

\* The handle is stored after the task may already run; an older one is dropped.
StoreHandle(c) ==
    /\ pc[c] = "s_handle" /\ handle' = gen[c]
    /\ gen' = [gen EXCEPT ![c] = 0]
    /\ Goto(c, "ret_ok")
    /\ UNCHANGED <<slot, connack, running, error, announced, sender, desired, recq,
                   brokerVars, sess, op, resp, stat, calls, listenerVars, outcome, lost>>

\* stop_listener_async: lower the flag, drop the sender, join the handle ...
StopFlag(c) ==
    /\ pc[c] = "p_flag" /\ running' = FALSE
    /\ Goto(c, "p_sender")
    /\ UNCHANGED <<slot, connack, handle, error, announced, sender, desired, recq,
                   brokerVars, sess, clientVars, listenerVars, outcome, lost>>

StopSender(c) ==
    /\ pc[c] = "p_sender" /\ sender' = 0
    /\ Goto(c, "p_handle")
    /\ UNCHANGED <<slot, connack, running, handle, error, announced, desired, recq,
                   brokerVars, sess, clientVars, listenerVars, outcome, lost>>

\* Faulty variant: the handle is dropped instead of joined.
StopDetach(c) ==
    /\ pc[c] = "p_handle" /\ handle' = 0
    /\ Goto(c, "p_status")
    /\ UNCHANGED <<slot, connack, running, error, announced, sender, desired, recq,
                   brokerVars, sess, clientVars, listenerVars, outcome, lost>>

StopTakeHandle(c) ==
    /\ pc[c] = "p_handle" /\ handle' = 0
    /\ gen' = [gen EXCEPT ![c] = handle]
    /\ Goto(c, IF handle = 0 THEN "p_status" ELSE "p_join")
    /\ UNCHANGED <<slot, connack, running, error, announced, sender, desired, recq,
                   brokerVars, sess, op, resp, stat, calls, listenerVars, outcome, lost>>

StopJoin(c) ==
    /\ pc[c] = "p_join" /\ pc[gen[c]] = "done"
    /\ gen' = [gen EXCEPT ![c] = 0]
    /\ Goto(c, "p_status")
    /\ UNCHANGED <<driverVars, brokerVars, sess, op, resp, stat, calls, listenerVars,
                   outcome, lost>>

\* ... and compute the status to broadcast (listener_status_async: the flag
\* first, then the error).
StatusFlag(c, from, toErr, toAnn) ==
    /\ pc[c] = from
    /\ stat' = [stat EXCEPT ![c] = IF running THEN "Running" ELSE @]
    /\ Goto(c, IF running THEN toAnn ELSE toErr)
    /\ UNCHANGED <<driverVars, brokerVars, sess, op, gen, resp, calls, listenerVars,
                   outcome, lost>>

StatusError(c, from, toAnn) ==
    /\ pc[c] = from
    /\ stat' = [stat EXCEPT ![c] = IF error THEN "Failed" ELSE "Stopped"]
    /\ Goto(c, toAnn)
    /\ UNCHANGED <<driverVars, brokerVars, sess, op, gen, resp, calls, listenerVars,
                   outcome, lost>>

\* Lifecycle::stop goes on to take the session and disconnect it.
StopSession(c) ==
    /\ pc[c] = "p_take"
    /\ Close({slot}) /\ slot' = 0
    /\ Goto(c, "q_status")
    /\ UNCHANGED <<connack, running, handle, error, announced, sender, desired, recq,
                   brokerSubs, delivered, drops, sess, clientVars, listenerVars,
                   outcome, lost>>

LifecycleCall(c) ==
    \/ \E o \in LifecycleOps : CallLifecycle(c, o)
    \/ SwapRunning(c)
    \/ ClearError(c, "s_clear", "s_stopped")
    \/ Announce(c, "s_stopped", "Stopped", "s_running")
    \/ Announce(c, "s_running", "Running", "s_sender")
    \/ SetSender(c) \/ Spawn(c) \/ StoreHandle(c)
    \/ StopFlag(c) \/ StopSender(c) \/ StopTakeHandle(c) \/ StopJoin(c)
    \/ StatusFlag(c, "p_status", "p_err", "p_ann")
    \/ StatusError(c, "p_err", "p_ann")
    \/ Announce(c, "p_ann", stat[c], IF op[c] = "stop" THEN "p_take" ELSE "ret_ok")
    \/ StopSession(c)
    \/ StatusFlag(c, "q_status", "q_err", "q_ann")
    \/ StatusError(c, "q_err", "q_ann")
    \/ Announce(c, "q_ann", stat[c], "ret_ok")
    \/ ClearError(c, "x_clear", "x_ann")
    \/ Announce(c, "x_ann", "Stopped", "ret_ok")

-----------------------------------------------------------------------------
(* The listener task.                                                      *)

\* Faulty variant: the attempt counter does not saturate.
SaturateNever(n) == n + 1

Saturate(n) == IF n < AttemptCap THEN n + 1 ELSE n
AllowsAttempt(n) == ReconnectEnabled /\ (MaxAttempts = Unlimited \/ n <= MaxAttempts)

\* Faulty variant: only successes are answered, and the sender is kept alive.
RespondOnlyOk(r, answer) ==
    resp' = [c \in Clients |-> IF pc[c] = "await" /\ op[c] = r /\ answer = "ok"
                                 THEN answer ELSE resp[c]]

\* Answer request r: only a caller that still waits for it can hear.
Respond(r, answer) ==
    resp' = [c \in Clients |-> IF pc[c] = "await" /\ op[c] = r THEN answer ELSE resp[c]]

\* Faulty variant: the loop does not look at the run flag.
ListenTopForever(g) ==
    /\ pc[g] = "l_top"
    /\ Goto(g, "l_take")
    /\ UNCHANGED <<driverVars, brokerVars, sess, clientVars, listenerVars, outcome, lost>>

\* 'listen: while running
ListenTop(g) ==
    /\ pc[g] = "l_top"
    /\ Goto(g, IF running THEN "l_take" ELSE "l_exit")
    /\ UNCHANGED <<driverVars, brokerVars, sess, clientVars, listenerVars, outcome, lost>>

\* Faulty variant: the session is taken, and forgotten when the task must wait.
ListenTakeTwice(g) ==
    /\ pc[g] = "l_take"
    /\ sess' = [sess EXCEPT ![g] = slot] /\ slot' = 0
    /\ Goto(g, IF slot # 0 /\ chan[g] # <<>> THEN "l_cmds" ELSE "l_top")
    /\ UNCHANGED <<connack, running, handle, error, announced, sender, desired, recq,
                   brokerVars, clientVars, listenerVars, outcome, lost>>

\* Take the parked session; without one, sleep and try again.
ListenTake(g) ==
    /\ pc[g] = "l_take"
    /\ sess' = [sess EXCEPT ![g] = slot] /\ slot' = 0
    /\ Goto(g, IF slot # 0 THEN "l_cmds" ELSE "l_top")
    /\ UNCHANGED <<connack, running, handle, error, announced, sender, desired, recq,
                   brokerVars, clientVars, listenerVars, outcome, lost>>

\* Drain the command channel before polling the broker.
ListenNextCommand(g) ==
    /\ pc[g] = "l_cmds"
    /\ IF chan[g] = <<>>
         THEN Goto(g, "l_read") /\ UNCHANGED <<chan, cmd>>
         ELSE /\ cmd' = [cmd EXCEPT ![g] = Head(chan[g])]
              /\ chan' = [chan EXCEPT ![g] = Tail(@)]
              /\ Goto(g, "l_exec")
    /\ UNCHANGED <<driverVars, brokerVars, sess, clientVars, attempt, path, after,
                   subsLeft, queueLeft, outcome, lost>>

\* process_session_command: exchange, answer, and on failure reconnect.
ListenExecute(g) ==
    /\ pc[g] = "l_exec"
    /\ \E ok \in BOOLEAN :
         /\ Exchange(sess[g], cmd[g], ok)
         /\ Respond(cmd[g], IF ok THEN "ok" ELSE "err")
         /\ Goto(g, IF ok THEN "l_cmds" ELSE "l_clear")
         /\ path' = [path EXCEPT ![g] = IF ok THEN @ ELSE "cmd"]
    /\ cmd' = [cmd EXCEPT ![g] = NoCall]
    /\ UNCHANGED <<driverVars, sess, op, gen, stat, calls, chan, attempt, after,
                   subsLeft, queueLeft, outcome, lost>>

\* One idle poll of the broker.  Ok parks the session again and forwards the
\* events; a sink that refuses one ends the listener.
ListenRead(g) ==
    /\ pc[g] = "l_read"
    /\ \/ /\ conn[sess[g]] # "down"
          /\ attempt' = [attempt EXCEPT ![g] = 0]
          /\ Close({slot}) /\ slot' = sess[g]
          /\ sess' = [sess EXCEPT ![g] = 0]
          /\ \/ Goto(g, "l_top") /\ UNCHANGED after
             \/ /\ SinkMayFail
                /\ after' = [after EXCEPT ![g] = "l_top"]
                /\ Goto(g, "l_giveup")
          /\ UNCHANGED path
       \/ /\ conn[sess[g]] = "down"
          /\ path' = [path EXCEPT ![g] = "read"]
          /\ Goto(g, "l_clear")
          /\ UNCHANGED <<attempt, conn, slot, sess, after>>
    /\ UNCHANGED <<connack, running, handle, error, announced, sender, desired, recq,
                   brokerSubs, delivered, drops, clientVars, chan, cmd, subsLeft,
                   queueLeft, outcome, lost>>

\* A failed session is dropped, and so is whatever is parked in the slot.  The
\* code drops the value of a session that failed in the loop only when its
\* reconnect loop ends; nothing uses it again, and the model closes it here.
ListenClear(g, from) ==
    /\ pc[g] = from
    /\ Close({slot, sess[g]}) /\ slot' = 0
    /\ sess' = [sess EXCEPT ![g] = 0]
    /\ Goto(g, "l_retry")
    /\ UNCHANGED <<connack, running, handle, error, announced, sender, desired, recq,
                   brokerSubs, delivered, drops, clientVars, listenerVars, outcome, lost>>

\* Head of the reconnect loop: count the attempt and see whether it is allowed.
ListenRetry(g) ==
    LET n == Saturate(attempt[g]) IN
    /\ pc[g] = "l_retry"
    /\ attempt' = [attempt EXCEPT ![g] = IF running THEN n ELSE @]
    /\ Goto(g, IF running /\ AllowsAttempt(n) THEN "l_sleep" ELSE "l_after")
    /\ UNCHANGED <<driverVars, brokerVars, sess, clientVars, chan, path, cmd, after,
                   subsLeft, queueLeft, outcome, lost>>

\* After the backoff delay the run flag is read again.
ListenWake(g) ==
    /\ pc[g] = "l_sleep"
    /\ Goto(g, IF running THEN "ec_check" ELSE "l_after")
    /\ UNCHANGED <<driverVars, brokerVars, sess, clientVars, listenerVars, outcome, lost>>

\* Take the reconnected session, unless somebody else already has.
ListenGot(g) ==
    /\ pc[g] = "l_got"
    /\ sess' = [sess EXCEPT ![g] = slot] /\ slot' = 0
    /\ Goto(g, IF slot # 0 THEN "r_start" ELSE "l_retry")
    /\ UNCHANGED <<connack, running, handle, error, announced, sender, desired, recq,
                   brokerVars, clientVars, listenerVars, outcome, lost>>

\* replay_recovery_state_on_session_async: snapshot the desired subscriptions,
ReplayStart(g) ==
    /\ pc[g] = "r_start"
    /\ subsLeft' = [subsLeft EXCEPT ![g] = IF ReplaySubs THEN desired ELSE {}]
    /\ Goto(g, "r_subs")
    /\ UNCHANGED <<driverVars, brokerVars, sess, clientVars, chan, attempt, path, cmd,
                   after, queueLeft, outcome, lost>>

\* send them one by one,
ReplaySubscription(g) ==
    /\ pc[g] = "r_subs"
    /\ \/ /\ subsLeft[g] = {}
          /\ Goto(g, "r_drain")
          /\ UNCHANGED <<brokerVars, subsLeft>>
       \/ \E r \in subsLeft[g], ok \in BOOLEAN :
            /\ Exchange(sess[g], r, ok)
            /\ subsLeft' = [subsLeft EXCEPT ![g] = IF ok THEN @ \ {r} ELSE {}]
            /\ Goto(g, IF ok THEN "r_subs" ELSE "r_fail")
    /\ UNCHANGED <<driverVars, sess, clientVars, chan, attempt, path, cmd, after,
                   queueLeft, outcome, lost>>

\* drain the whole recovery queue,
ReplayDrain(g) ==
    /\ pc[g] = "r_drain"
    /\ queueLeft' = [queueLeft EXCEPT ![g] = recq] /\ recq' = <<>>
    /\ Goto(g, "r_queue")
    /\ UNCHANGED <<slot, connack, running, handle, error, announced, sender, desired,
                   brokerVars, sess, clientVars, chan, attempt, path, cmd, after,
                   subsLeft, outcome, lost>>

\* and send what was drained; the first failure abandons the rest.
ReplayQueued(g) ==
    LET q == queueLeft[g] IN
    /\ pc[g] = "r_queue"
    /\ \/ /\ q = <<>>
          /\ Goto(g, "r_done")
          /\ UNCHANGED <<brokerVars, queueLeft, lost>>
       \/ /\ q # <<>>
          /\ \E ok \in BOOLEAN :
               /\ Exchange(sess[g], Head(q), ok)
               /\ queueLeft' = [queueLeft EXCEPT ![g] = IF ok THEN Tail(q) ELSE <<>>]
               /\ lost' = IF ok THEN lost ELSE lost \cup Range(q)
               /\ Goto(g, IF ok THEN "r_queue" ELSE "r_fail")
    /\ UNCHANGED <<driverVars, sess, clientVars, chan, attempt, path, cmd, after,
                   subsLeft, outcome>>

\* Park the recovered session.  Only the copy of the loop that follows a failed
\* command forwards the recovered events to the sink.
ReplayDone(g) ==
    /\ pc[g] = "r_done"
    /\ Close({slot}) /\ slot' = sess[g]
    /\ sess' = [sess EXCEPT ![g] = 0]
    /\ \/ /\ Goto(g, "l_clrerr")
          /\ attempt' = [attempt EXCEPT ![g] = 0] /\ UNCHANGED after
       \/ /\ SinkMayFail /\ path[g] = "cmd"
          /\ after' = [after EXCEPT ![g] = "l_exit"]
          /\ Goto(g, "l_giveup") /\ UNCHANGED attempt
    /\ UNCHANGED <<connack, running, handle, error, announced, sender, desired, recq,
                   brokerSubs, delivered, drops, clientVars, chan, path, cmd, subsLeft,
                   queueLeft, outcome, lost>>

ListenSetError(g, from, value, to) ==
    /\ pc[g] = from /\ error' = value
    /\ Goto(g, to)
    /\ UNCHANGED <<slot, connack, running, handle, announced, sender, desired, recq,
                   brokerVars, sess, clientVars, listenerVars, outcome, lost>>

\* The reconnect loop ended without a session.  The copy that follows a failed
\* read goes on listening if it was stopped before its first attempt and the
\* flag is up again.
ListenAfterLoop(g) ==
    /\ pc[g] = "l_after"
    /\ Goto(g, IF path[g] = "read" /\ attempt[g] = 0 /\ running THEN "l_top" ELSE "l_check")
    /\ UNCHANGED <<driverVars, brokerVars, sess, clientVars, listenerVars, outcome, lost>>

\* A stopped listener leaves; one whose attempts are used up records the failure.
ListenCheckStopped(g) ==
    /\ pc[g] = "l_check"
    /\ Goto(g, IF running THEN "l_giveup" ELSE "l_exit")
    /\ after' = [after EXCEPT ![g] = "l_exit"]
    /\ UNCHANGED <<driverVars, brokerVars, sess, clientVars, chan, attempt, path, cmd,
                   subsLeft, queueLeft, outcome, lost>>

\* Faulty variant: the listener leaves without lowering the flag.
ListenKeepsFlag(g, from, to) ==
    /\ pc[g] = from
    /\ Goto(g, to)
    /\ UNCHANGED <<driverVars, brokerVars, sess, clientVars, listenerVars, outcome, lost>>

\* A store of listener_running = false.
ListenLowerFlag(g, from, to) ==
    /\ pc[g] = from /\ running' = FALSE
    /\ Goto(g, to)
    /\ UNCHANGED <<slot, connack, handle, error, announced, sender, desired, recq,
                   brokerVars, sess, clientVars, listenerVars, outcome, lost>>

\* Epilogue: drop the command sender, whichever listener it belongs to.
ListenDropSender(g) ==
    /\ pc[g] = "l_exit" /\ sender' = 0
    /\ Goto(g, "l_flag")
    /\ UNCHANGED <<slot, connack, running, handle, error, announced, desired, recq,
                   brokerVars, sess, clientVars, listenerVars, outcome, lost>>

\* Faulty variant: the final status ignores the recorded error.
ListenFinalStopped(g) ==
    /\ pc[g] = "l_final"
    /\ after' = [after EXCEPT ![g] = "Stopped"]
    /\ Goto(g, "l_ann")
    /\ UNCHANGED <<driverVars, brokerVars, sess, clientVars, chan, attempt, path, cmd,
                   subsLeft, queueLeft, outcome, lost>>

\* Read the error for the final status; `after' carries it to the broadcast.
ListenFinalStatus(g) ==
    /\ pc[g] = "l_final"
    /\ after' = [after EXCEPT ![g] = IF error THEN "Failed" ELSE "Stopped"]
    /\ Goto(g, "l_ann")
    /\ UNCHANGED <<driverVars, brokerVars, sess, clientVars, chan, attempt, path, cmd,
                   subsLeft, queueLeft, outcome, lost>>

\* Broadcast it and end: the receiver is dropped, unread commands with it.
ListenEnd(g) ==
    /\ pc[g] = "l_ann" /\ announced' = after[g]
    /\ resp' = [c \in Clients |->
                  IF pc[c] = "await" /\ op[c] \in Range(chan[g])
                    THEN "closed" ELSE resp[c]]
    /\ chan' = [chan EXCEPT ![g] = <<>>]
    /\ attempt' = [attempt EXCEPT ![g] = 0]
    /\ path' = [path EXCEPT ![g] = "read"]
    /\ after' = [after EXCEPT ![g] = "l_exit"]
    /\ Goto(g, "done")
    /\ UNCHANGED <<slot, connack, running, handle, error, sender, desired, recq,
                   brokerVars, sess, op, gen, stat, calls, cmd, subsLeft, queueLeft,
                   outcome, lost>>

ListenerTask(g) ==
    \/ ListenTop(g) \/ ListenTake(g) \/ ListenNextCommand(g) \/ ListenExecute(g)
    \/ ListenRead(g)
    \/ ListenClear(g, "l_clear") \/ ListenClear(g, "r_fail")
    \/ ListenRetry(g) \/ ListenWake(g) \/ ListenGot(g)
    \/ ReplayStart(g) \/ ReplaySubscription(g) \/ ReplayDrain(g) \/ ReplayQueued(g)
    \/ ReplayDone(g)
    \/ ListenSetError(g, "l_clrerr", FALSE, "l_top")
    \/ ListenAfterLoop(g) \/ ListenCheckStopped(g)
    \/ ListenSetError(g, "l_giveup", TRUE, "f_ann")
    \/ Announce(g, "f_ann", "Failed", "f_flag")
    \/ ListenLowerFlag(g, "f_flag", after[g])
    \/ ListenDropSender(g)
    \/ ListenLowerFlag(g, "l_flag", "l_final")
    \/ ListenFinalStatus(g) \/ ListenEnd(g)

-----------------------------------------------------------------------------
Next ==
    \/ \E p \in Procs : EnsureConnected(p)
    \/ \E c \in Clients : RequestCall(c) \/ LifecycleCall(c)
    \/ \E g \in Listeners : ListenerTask(g)
    \/ \E i \in Conns : NetDrop(i) \/ LateAnswer(i)

Spec == Init /\ [][Next]_vars

\* The runtimes poll every spawned task and every caller that can make progress;
\* nobody is obliged to make a call.
FairProcesses ==
    /\ \A c \in Clients :
         WF_vars(pc[c] # "idle" /\ (EnsureConnected(c) \/ RequestCall(c) \/ LifecycleCall(c)))
    /\ \A g \in Listeners : WF_vars(EnsureConnected(g) \/ ListenerTask(g))

\* A broker that can be reached: a process that keeps dialling eventually gets
\* through, and one that keeps asking is eventually accepted.
ReachableBroker ==
    \A p \in Procs :
        /\ SF_vars(EnsureDial(p) /\ pc'[p] = "ec_read")
        /\ SF_vars(EnsureRead(p) /\ connack' = "Success")

FairSpec == Spec /\ FairProcesses
ReachableSpec == Spec /\ FairProcesses /\ ReachableBroker

-----------------------------------------------------------------------------
(* Properties.                                                             *)

\* Every field, local and channel of the driver has the type its Rust
\* declaration gives it, within the bounds of the instance.
TypeOK ==
    /\ slot \in 0..MaxConns /\ connack \in {"none", "Success", "Rejected"}
    /\ running \in BOOLEAN /\ handle \in 0..MaxListeners
    /\ error \in BOOLEAN /\ announced \in Statuses /\ sender \in 0..MaxListeners
    /\ desired \subseteq Subscribes /\ recq \in Seq(Requests)
    /\ conn \in [Conns -> {"dialing", "open", "down"}]
    /\ brokerSubs \subseteq Topics /\ delivered \subseteq Requests
    /\ drops \in 0..MaxDrops /\ calls \in 0..MaxCalls
    /\ pc \in [Procs -> ClientPoints \cup ListenerPoints]
    /\ \A c \in Clients : pc[c] \in ClientPoints
    /\ \A g \in Listeners : pc[g] \in ListenerPoints
    /\ sess \in [Procs -> 0..MaxConns]
    /\ op \in [Clients -> Requests \cup AllOps \cup {NoCall}]
    /\ gen \in [Clients -> 0..MaxListeners]
    /\ resp \in [Clients -> {"none", "ok", "err", "closed"}]
    /\ stat \in [Clients -> Statuses]
    /\ chan \in [Listeners -> Seq(Requests)]
    /\ attempt \in [Listeners -> 0..AttemptCap]
    /\ path \in [Listeners -> {"cmd", "read"}]
    /\ cmd \in [Listeners -> Requests \cup {NoCall}]
    /\ after \in [Listeners -> {"l_top", "l_exit"} \cup Statuses]
    /\ subsLeft \in [Listeners -> SUBSET Subscribes]
    /\ queueLeft \in [Listeners -> Seq(Requests)]
    /\ outcome \in [Requests -> {"new", "called", "ok", "err"}]
    /\ lost \subseteq Requests

\* "Maximum number of queued outbound recovery requests retained in memory"
\* (device.rs): however enqueues, drains and replays interleave, the recovery
\* queue never holds more than max_queued_requests.
QueueBounded == Len(recq) <= MaxQueued

\* Where an accepted request that the broker has not received may still be.
Waiting == Range(recq) \cup UNION {Range(queueLeft[g]) : g \in Listeners}

\* A publish, subscribe or unsubscribe whose caller was told Ok has been
\* received by the broker, waits in the recovery queue or in a replay, or was
\* thrown away at one of the two places where the code throws requests away:
\* the full queue, and a replay that broke off.  No other interleaving of
\* callers, listener and network loses an accepted request.
LossAccounted ==
    \A r \in Requests : outcome[r] = "ok" => r \in delivered \cup Waiting \cup lost

\* A listener task that has started and has not reached its epilogue.
Listening(g) == pc[g] \notin {"ready", "done", "l_exit", "l_flag", "l_final", "l_ann"}

\* start_listening refuses a second listener ("MQTT listener already running"):
\* at no time do two tasks listen on the one session.
OneListener == \A g, h \in Listeners : Listening(g) /\ Listening(h) => g = h

\* stop_listening "stops active listening loop", and stop stops it too: when
\* either is about to return Ok, no task is still inside its listening loop.
StopStops ==
    \A c \in Clients : pc[c] = "ret_ok" /\ op[c] \in {"stop", "stop_listening"}
        => \A g \in Listeners : ~Listening(g)

\* A raised run flag is somebody's: whatever the callers start and stop and the
\* listeners give up, a listener listens, or is about to be spawned, as long as
\* the flag sends the callers' requests to the command channel and refuses
\* further starts.
RunningServed == running => \E g \in Listeners : Listening(g) \/ pc[g] = "ready"

\* What listener_status_async reports.
Status == IF running THEN "Running" ELSE IF error THEN "Failed" ELSE "Stopped"

\* With no call in progress and every listener task finished, the last status
\* broadcast to subscribers is the one listener_status_async reports: no late
\* broadcast of an ending task or of stop leaves them with a stale status.
AnnouncedStatus ==
    (\A c \in Clients : pc[c] = "idle") /\ (\A g \in Listeners : pc[g] = "done")
        => announced = Status

\* Nothing in progress, every call accepted, a live session, nothing queued.
Settled ==
    /\ \A c \in Clients : pc[c] = "idle"
    /\ \A r \in Requests : outcome[r] \in {"new", "ok"}
    /\ recq = <<>> /\ slot # 0 /\ conn[slot] = "open"
    /\ \A g \in Listeners : chan[g] = <<>> /\ pc[g] \in {"done", "l_top", "l_take"}

\* Once the driver has settled, after whatever failures and replays, the broker
\* holds exactly the subscriptions in desired_subscriptions.
SubscriptionsMatch == Settled => brokerSubs = {TopicOf[d] : d \in desired}

\* stop and stop_listening return although they join a listener that may be
\* anywhere in its reconnect loop, with a broker that may never be reachable.
StopReturns == \A c \in Clients : pc[c] = "p_flag" ~> pc[c] = "idle"

\* "Listener is actively polling the broker session" (MqttListenerStatus): while
\* the status is Running, a listener polls the broker again and again.
RunningPolls == running ~> (~running \/ \E g \in Listeners : pc[g] = "l_read")

\* Every publish, subscribe and unsubscribe returns to its caller, even when no
\* command ever times out and the connection breaks under it.
RequestReturns == \A c \in Clients : pc[c] = "check" ~> pc[c] = "idle"

=============================================================================
