-------------------------- MODULE MqttDriverProofs --------------------------
(***************************************************************************)
(* Proofs about MqttDriver: for any number of callers, requests, listener  *)
(* tasks, sockets, broken connections and lifecycle calls, and every       *)
(* configuration of the reconnect policy unless a theorem says otherwise.  *)
(***************************************************************************)
EXTENDS MqttDriver, SequenceTheorems, TLAPS

-----------------------------------------------------------------------------
(* The inductive invariant.                                                *)

\* Program points of a request call, of a start that owns a task it has not spawned
\* yet, and of the other lifecycle calls.
RequestPoints == {"check", "sender", "send", "await", "park", "take", "io", "restore",
                  "clear", "requeue", "repark"}
StartPoints   == {"s_clear", "s_stopped", "s_running", "s_sender", "s_spawn"}
CallPoints    == StartPoints \cup {"swap", "s_handle", "p_flag", "p_sender", "p_handle", "p_join",
                                   "p_status", "p_err", "p_ann", "p_take", "q_status", "q_err",
                                   "q_ann", "x_clear", "x_ann"}

\* The type invariant, by the parts of the state.
DriverTypes ==
    /\ slot \in 0..MaxConns /\ connack \in {"none", "Success", "Rejected"}
    /\ running \in BOOLEAN /\ handle \in 0..MaxListeners
    /\ error \in BOOLEAN /\ announced \in Statuses /\ sender \in 0..MaxListeners
    /\ desired \subseteq Subscribes /\ recq \in Seq(Requests)
BrokerTypes ==
    /\ conn \in [Conns -> {"dialing", "open", "down"}]
    /\ brokerSubs \subseteq Topics /\ delivered \subseteq Requests /\ drops \in 0..MaxDrops
PointTypes ==
    /\ pc \in [Procs -> ClientPoints \cup ListenerPoints]
    /\ \A c \in Clients : pc[c] \in ClientPoints
    /\ \A g \in Listeners : pc[g] \in ListenerPoints
SessionTypes == sess \in [Procs -> 0..MaxConns]
ClientTypes ==
    /\ op \in [Clients -> Requests \cup AllOps \cup {NoCall}]
    /\ gen \in [Clients -> 0..MaxListeners]
    /\ resp \in [Clients -> {"none", "ok", "err", "closed"}]
    /\ stat \in [Clients -> Statuses] /\ calls \in 0..MaxCalls
ListenerTypes ==
    /\ chan \in [Listeners -> Seq(Requests)]
    /\ attempt \in [Listeners -> 0..AttemptCap]
    /\ path \in [Listeners -> {"cmd", "read"}]
    /\ cmd \in [Listeners -> Requests \cup {NoCall}]
    /\ after \in [Listeners -> {"l_top", "l_exit"} \cup Statuses]
    /\ subsLeft \in [Listeners -> SUBSET Subscribes]
    /\ queueLeft \in [Listeners -> Seq(Requests)]
HistoryTypes ==
    /\ outcome \in [Requests -> {"new", "called", "ok", "err"}]
    /\ lost \subseteq Requests

\* A caller is inside the call it made.
CallsFit ==
    \A c \in Clients :
        /\ pc[c] \in RequestPoints => op[c] \in Requests
        /\ pc[c] \in CallPoints => op[c] \in AllOps
        /\ pc[c] \in EnsurePoints => op[c] \in Requests \cup {"connect", "start_listening"}

\* A start in progress owns a task that nobody else starts and that does not run yet.
StartsOwnTask ==
    \A c \in Clients : pc[c] \in StartPoints =>
        /\ gen[c] \in Listeners /\ pc[gen[c]] = "ready"
        /\ \A d \in Clients : pc[d] \in StartPoints /\ gen[d] = gen[c] => d = c

\* What a listener task carries fits where it is.
TasksFit ==
    \A g \in Listeners :
        /\ pc[g] = "l_exec" => cmd[g] \in Requests
        /\ pc[g] \in {"l_giveup", "f_ann", "f_flag"} => after[g] \in {"l_top", "l_exit"}
        /\ pc[g] = "l_ann" => after[g] \in Statuses

Control == PointTypes /\ CallsFit /\ StartsOwnTask /\ TasksFit
Values  == DriverTypes /\ BrokerTypes /\ SessionTypes /\ ClientTypes /\ ListenerTypes /\ HistoryTypes
IInv    == Values /\ Control

\* Points at which a process holds a session of its own.
HoldPoints == {"ec_read", "ec_eval", "ec_install", "io", "restore", "clear", "l_cmds", "l_exec",
               "l_read", "l_clear", "r_start", "r_subs", "r_drain", "r_queue", "r_fail", "r_done"}
SessionsHeld == \A p \in Procs : pc[p] \in HoldPoints => sess[p] # 0

\* A parked session is one whose CONNECT the broker has answered with Success.
ParkedSessionAccepted == slot # 0 => conn[slot] # "dialing"

\* A session whose CONNECT is unanswered is in the handshake of the process that dialled.
NotDialing ==
    /\ ParkedSessionAccepted
    /\ \A p \in Procs : sess[p] # 0 /\ pc[p] # "ec_read" => conn[sess[p]] # "dialing"

\* Drained requests are on their way only while their replay sends them.
DrainedInReplay == \A g \in Listeners : pc[g] # "r_queue" => queueLeft[g] = <<>>

\* The request reached the broker, waits, or was thrown away where the code does that.
Accounted(r) == r \in delivered \cup Waiting \cup lost

\* A caller about to be told Ok has its request accounted for, and an answer of the
\* listener or a session to restore says that the broker has it.
OkAccounted ==
    \A c \in Clients :
        /\ resp[c] = "ok" => pc[c] = "await" /\ op[c] \in delivered
        /\ pc[c] = "restore" => op[c] \in delivered
        /\ pc[c] = "ret_ok" /\ op[c] \in Requests => Accounted(op[c])

Sessions == SessionsHeld /\ NotDialing
Losses   == DrainedInReplay /\ OkAccounted /\ LossAccounted

-----------------------------------------------------------------------------
(* What steps keep.                                                        *)

\* The parts make up the type invariant.
LEMMA TypeParts == TypeOK <=> Values /\ PointTypes
  BY DEF TypeOK, Values, PointTypes, DriverTypes, BrokerTypes, SessionTypes, ClientTypes, ListenerTypes,
     HistoryTypes

\* A process is a caller or a listener task, not both.
LEMMA Kinds == /\ \A c \in Clients : c \in Procs /\ c \notin Listeners
               /\ \A g \in Listeners : g \in Procs /\ g \notin Clients
               /\ \A p \in Procs : p \in Clients \/ p \in Listeners
               /\ Listeners = 1..MaxListeners /\ MaxListeners \in Nat /\ MaxConns \in Nat
  BY MqttAssumptions DEF Procs, Listeners

\* A part of the state that a step leaves alone keeps its types.
LEMMA SameValues ==
    ASSUME IInv
    PROVE  /\ UNCHANGED driverVars => DriverTypes'
           /\ UNCHANGED brokerVars => BrokerTypes'
           /\ UNCHANGED sess => SessionTypes'
           /\ UNCHANGED clientVars => ClientTypes'
           /\ UNCHANGED listenerVars => ListenerTypes'
           /\ UNCHANGED <<outcome, lost>> => HistoryTypes'
  <1> USE DEF IInv, Values
  <1>1. UNCHANGED driverVars => DriverTypes'
    BY DEF driverVars, DriverTypes
  <1>2. UNCHANGED brokerVars => BrokerTypes'
    BY DEF brokerVars, BrokerTypes
  <1>3. UNCHANGED sess => SessionTypes'
    BY DEF SessionTypes
  <1>4. UNCHANGED clientVars => ClientTypes'
    BY DEF clientVars, ClientTypes
  <1>5. UNCHANGED listenerVars => ListenerTypes'
    BY DEF listenerVars, ListenerTypes
  <1>6. UNCHANGED <<outcome, lost>> => HistoryTypes'
    BY DEF HistoryTypes
  <1> QED BY <1>1, <1>2, <1>3, <1>4, <1>5, <1>6

\* The step of a caller to another point, of which only a start that is under way
\* already owns a task.
LEMMA ClientStep ==
    ASSUME IInv, NEW c \in Clients, NEW x \in ClientPoints, Goto(c, x),
           \A d \in Clients \ {c} : op'[d] = op[d] /\ gen'[d] = gen[d],
           x \in RequestPoints => op'[c] \in Requests,
           x \in CallPoints => op'[c] \in AllOps,
           x \in EnsurePoints => op'[c] \in Requests \cup {"connect", "start_listening"},
           x \in StartPoints => pc[c] \in StartPoints /\ gen'[c] = gen[c],
           UNCHANGED <<cmd, after>>
    PROVE  Control'
  <1>1. /\ pc' = [pc EXCEPT ![c] = x]
        /\ pc'[c] = x /\ \A p \in Procs : p # c => pc'[p] = pc[p]
    BY Kinds DEF Goto, IInv, Control, PointTypes
  <1>2. PointTypes'
    BY <1>1, Kinds DEF IInv, Control, PointTypes
  <1>3. CallsFit'
    BY <1>1, Kinds DEF IInv, Control, CallsFit
  <1>4. StartsOwnTask'
    <2> SUFFICES ASSUME NEW e \in Clients, pc'[e] \in StartPoints
                 PROVE  /\ gen'[e] \in Listeners /\ pc'[gen'[e]] = "ready"
                        /\ \A d \in Clients : pc'[d] \in StartPoints /\ gen'[d] = gen'[e] => d = e
      BY DEF StartsOwnTask
    <2>1. \A d \in Clients : pc'[d] \in StartPoints => pc[d] \in StartPoints /\ gen'[d] = gen[d]
      BY <1>1, Kinds
    <2>2. gen[e] \in Listeners /\ pc[gen[e]] = "ready"
      BY <2>1 DEF IInv, Control, StartsOwnTask
    <2>3. \A d \in Clients : pc'[d] \in StartPoints /\ gen'[d] = gen'[e] => d = e
      BY <2>1 DEF IInv, Control, StartsOwnTask
    <2> QED BY <1>1, <2>1, <2>2, <2>3, Kinds
  <1>5. TasksFit'
    BY <1>1, Kinds DEF IInv, Control, TasksFit
  <1> QED BY <1>2, <1>3, <1>4, <1>5 DEF Control

\* The step of a listener task that runs to another point.
LEMMA TaskStep ==
    ASSUME IInv, NEW g \in Listeners, NEW x \in ListenerPoints, Goto(g, x), pc[g] # "ready",
           \A h \in Listeners \ {g} : cmd'[h] = cmd[h] /\ after'[h] = after[h],
           x = "l_exec" => cmd'[g] \in Requests,
           x \in {"l_giveup", "f_ann", "f_flag"} => after'[g] \in {"l_top", "l_exit"},
           x = "l_ann" => after'[g] \in Statuses,
           UNCHANGED <<op, gen>>
    PROVE  Control'
  <1>1. /\ pc' = [pc EXCEPT ![g] = x]
        /\ pc'[g] = x /\ \A p \in Procs : p # g => pc'[p] = pc[p]
    BY Kinds DEF Goto, IInv, Control, PointTypes
  <1>2. PointTypes'
    BY <1>1, Kinds DEF IInv, Control, PointTypes
  <1>3. CallsFit'
    BY <1>1, Kinds DEF IInv, Control, CallsFit
  <1>4. StartsOwnTask'
    <2> SUFFICES ASSUME NEW e \in Clients, pc'[e] \in StartPoints
                 PROVE  /\ gen'[e] \in Listeners /\ pc'[gen'[e]] = "ready"
                        /\ \A d \in Clients : pc'[d] \in StartPoints /\ gen'[d] = gen'[e] => d = e
      BY DEF StartsOwnTask
    <2>1. \A d \in Clients : pc'[d] = pc[d]
      BY <1>1, Kinds
    <2>2. gen[e] \in Listeners /\ pc[gen[e]] = "ready" /\ gen[e] # g
      BY <2>1 DEF IInv, Control, StartsOwnTask
    <2>3. \A d \in Clients : pc'[d] \in StartPoints /\ gen'[d] = gen'[e] => d = e
      BY <2>1 DEF IInv, Control, StartsOwnTask
    <2> QED BY <1>1, <2>2, <2>3, Kinds
  <1>5. TasksFit'
    BY <1>1, Kinds DEF IInv, Control, TasksFit
  <1> QED BY <1>2, <1>3, <1>4, <1>5 DEF Control

\* A step that moves no process.
LEMMA NobodyMoves ==
    ASSUME IInv, UNCHANGED <<pc, op, gen, cmd, after>>
    PROVE  Control'
  BY DEF IInv, Control, PointTypes, CallsFit, StartsOwnTask, TasksFit

-----------------------------------------------------------------------------
(* The initial state and the steps of the network.                         *)

\* The initial state satisfies the invariant.
LEMMA InitIInv == Init => IInv
  <1> SUFFICES ASSUME Init PROVE IInv
    OBVIOUS
  <1>1. \A p \in Procs : pc[p] = IF p \in Clients THEN "idle" ELSE "done"
    BY DEF Init
  <1>2. PointTypes
    BY Kinds DEF Init, PointTypes, ClientPoints, ListenerPoints
  <1>3. CallsFit /\ StartsOwnTask
    BY <1>1, Kinds DEF CallsFit, StartsOwnTask, RequestPoints, CallPoints, StartPoints, EnsurePoints
  <1>4. TasksFit
    BY <1>1, Kinds DEF TasksFit
  <1>5. slot \in 0..MaxConns /\ handle \in 0..MaxListeners /\ sender \in 0..MaxListeners
    BY Kinds DEF Init
  <1>6. DriverTypes
    <2>1. running \in BOOLEAN /\ error \in BOOLEAN
      BY Zenon DEF Init
    <2>2. recq \in Seq(Requests)
      BY DEF Init
    <2> QED BY <1>5, <2>1, <2>2 DEF Init, DriverTypes, Statuses
  <1>7. BrokerTypes
    BY MqttAssumptions DEF Init, BrokerTypes
  <1>8. SessionTypes /\ ClientTypes
    BY MqttAssumptions, Kinds DEF Init, SessionTypes, ClientTypes, Statuses
  <1>9. ListenerTypes /\ HistoryTypes
    BY MqttAssumptions, Kinds DEF Init, ListenerTypes, HistoryTypes
  <1> QED BY <1>2, <1>3, <1>4, <1>6, <1>7, <1>8, <1>9 DEF IInv, Values, Control

\* Closing sockets, accepting one, and an exchange of a request, keep the broker's side
\* typed.
LEMMA BrokerKeeps ==
    ASSUME IInv
    PROVE  /\ \A S : Close(S) => conn' \in [Conns -> {"dialing", "open", "down"}]
           /\ \A i : Accept(i) => /\ conn' \in [Conns -> {"dialing", "open", "down"}]
                                  /\ brokerSubs' \subseteq Topics
           /\ \A i : \A r \in Requests : \A ok \in BOOLEAN : Exchange(i, r, ok) => BrokerTypes'
  <1>1. ASSUME NEW S, Close(S) PROVE conn' \in [Conns -> {"dialing", "open", "down"}]
    BY <1>1 DEF Close, IInv, Values, BrokerTypes
  <1>2. ASSUME NEW i, Accept(i) PROVE conn' \in [Conns -> {"dialing", "open", "down"}] /\ brokerSubs' \subseteq Topics
    BY <1>2 DEF Accept, IInv, Values, BrokerTypes
  <1>3. ASSUME NEW r \in Requests, Receive(r) PROVE brokerSubs' \subseteq Topics /\ delivered' \subseteq Requests
    <2>1. delivered' \subseteq Requests
      BY <1>3 DEF Receive, IInv, Values, BrokerTypes
    <2>2. \A s \in Subscribes \cup Unsubscribes : TopicOf[s] \in Topics
      BY MqttAssumptions
    <2>3. Subscribes \cap Unsubscribes = {}
      BY MqttAssumptions
    <2>4. brokerSubs \subseteq Topics
      BY DEF IInv, Values, BrokerTypes
    <2>5. \/ r \in Subscribes /\ brokerSubs' = brokerSubs \cup {TopicOf[r]}
          \/ r \in Unsubscribes /\ brokerSubs' = brokerSubs \ {TopicOf[r]}
          \/ brokerSubs' = brokerSubs
      BY <1>3, <2>3 DEF Receive
    <2> QED BY <2>1, <2>2, <2>4, <2>5
  <1>4. ASSUME NEW i, NEW r \in Requests, NEW ok \in BOOLEAN, Exchange(i, r, ok) PROVE BrokerTypes'
    <2>1. conn' \in [Conns -> {"dialing", "open", "down"}]
      BY <1>1, <1>4 DEF Exchange, IInv, Values, BrokerTypes
    <2>2. brokerSubs' \subseteq Topics /\ delivered' \subseteq Requests
      BY <1>3, <1>4 DEF Exchange, IInv, Values, BrokerTypes
    <2>3. drops' \in 0..MaxDrops
      <3>1. drops \in 0..MaxDrops /\ MaxDrops \in Nat
        BY MqttAssumptions DEF IInv, Values, BrokerTypes
      <3>2. drops' = drops \/ (drops < MaxDrops /\ drops' = drops + 1)
        BY <1>4 DEF Exchange
      <3> QED BY <3>1, <3>2
    <2> QED BY <2>1, <2>2, <2>3 DEF BrokerTypes
  <1> QED BY <1>1, <1>2, <1>4

\* The network keeps the invariant.
LEMMA NetworkStep ==
    ASSUME IInv, NEW i \in Conns, NetDrop(i) \/ LateAnswer(i)
    PROVE  IInv'
  <1>1. Control'
    BY NobodyMoves DEF NetDrop, LateAnswer, clientVars, listenerVars
  <1>2. CASE NetDrop(i)
    <2>1. drops' \in 0..MaxDrops
      <3>1. drops \in 0..MaxDrops /\ MaxDrops \in Nat
        BY MqttAssumptions DEF IInv, Values, BrokerTypes
      <3> QED BY <1>2, <3>1 DEF NetDrop
    <2>2. BrokerTypes'
      BY <1>2, <2>1, BrokerKeeps DEF NetDrop, BrokerTypes, IInv, Values
    <2> QED BY <1>1, <1>2, <2>2, SameValues DEF NetDrop, IInv, Values
  <1>3. CASE LateAnswer(i)
    <2>1. BrokerTypes'
      BY <1>3, BrokerKeeps DEF LateAnswer, BrokerTypes, IInv, Values
    <2>2. connack' \in {"none", "Success", "Rejected"}
      BY <1>3 DEF LateAnswer, IInv, Values, DriverTypes
    <2>3. DriverTypes'
      BY <1>3, <2>2 DEF LateAnswer, IInv, Values, DriverTypes
    <2> QED BY <1>1, <1>3, <2>1, <2>3, SameValues DEF LateAnswer, IInv, Values
  <1> QED BY <1>2, <1>3

-----------------------------------------------------------------------------
(* ensure_connected_async.                                                 *)

\* Where ensure_connected_async continues fits the call it was made for.
LEMMA AfterConnectFits ==
    ASSUME IInv, NEW p \in Procs, pc[p] \in EnsurePoints, NEW ok \in BOOLEAN
    PROVE  /\ p \in Clients => /\ AfterConnect(p, ok) \in {"ret_err", "ret_ok", "swap", "take"}
                               /\ AfterConnect(p, ok) = "swap" => op[p] \in AllOps
                               /\ AfterConnect(p, ok) = "take" => op[p] \in Requests
                               /\ AfterConnect(p, ok) = "ret_ok" => op[p] = "connect"
           /\ p \in Listeners => AfterConnect(p, ok) \in {"l_got", "l_retry"}
  <1>1. CASE p \in Listeners
    BY <1>1, Kinds DEF AfterConnect
  <1>2. CASE p \in Clients
    <2>1. op[p] \in Requests \cup {"connect", "start_listening"} /\ p \notin Listeners
      BY <1>2, Kinds DEF IInv, Control, CallsFit
    <2>2. Requests \cap AllOps = {}
      BY MqttAssumptions
    <2>3. CASE ~ok
      BY <2>1, <2>3, <1>2, Kinds DEF AfterConnect
    <2>4. CASE ok /\ op[p] = "start_listening"
      BY <2>1, <2>4, <1>2, Kinds DEF AfterConnect, AllOps
    <2>5. CASE ok /\ op[p] = "connect"
      BY <2>1, <2>5, <1>2, Kinds DEF AfterConnect, AllOps
    <2>6. CASE ok /\ op[p] \in Requests
      BY <2>1, <2>2, <2>6, <1>2, Kinds DEF AfterConnect, AllOps
    <2> QED BY <2>1, <2>3, <2>4, <2>5, <2>6
  <1> QED BY <1>1, <1>2, Kinds

\* A process moves within ensure_connected_async or leaves it.
LEMMA EnsureMoves ==
    ASSUME IInv, NEW p \in Procs, pc[p] \in EnsurePoints, NEW x, Goto(p, x),
           x \in EnsurePoints \cup {AfterConnect(p, TRUE), AfterConnect(p, FALSE)},
           UNCHANGED <<op, gen, cmd, after>>
    PROVE  Control'
  <1>1. ASSUME p \in Clients PROVE Control'
    <2>1. x \in EnsurePoints \cup {"ret_err", "ret_ok", "swap", "take"}
      BY <1>1, AfterConnectFits
    <2>2. x = "take" => op[p] \in Requests
      BY <1>1, AfterConnectFits DEF EnsurePoints
    <2>3. x = "swap" => op[p] \in AllOps
      BY <1>1, AfterConnectFits DEF EnsurePoints
    <2>4. op[p] \in Requests \cup {"connect", "start_listening"}
      BY <1>1 DEF IInv, Control, CallsFit
    <2>5. x \in ClientPoints
      BY <2>1 DEF ClientPoints
    <2>6. x \notin StartPoints
      BY <2>1 DEF StartPoints, EnsurePoints
    <2>7. /\ x \in RequestPoints => op'[p] \in Requests
          /\ x \in CallPoints => op'[p] \in AllOps
          /\ x \in EnsurePoints => op'[p] \in Requests \cup {"connect", "start_listening"}
      BY <2>1, <2>2, <2>3, <2>4 DEF RequestPoints, CallPoints, StartPoints, EnsurePoints
    <2> QED BY <1>1, <2>5, <2>6, <2>7, ClientStep
  <1>2. ASSUME p \in Listeners PROVE Control'
    <2>1. x \in EnsurePoints \cup {"l_got", "l_retry"}
      BY <1>2, AfterConnectFits
    <2>2. x \in ListenerPoints
      BY <2>1 DEF ListenerPoints
    <2>3. pc[p] # "ready" /\ x \notin {"l_exec", "l_giveup", "f_ann", "f_flag", "l_ann"}
      BY <2>1 DEF EnsurePoints
    <2> QED BY <1>2, <2>2, <2>3, TaskStep
  <1> QED BY <1>1, <1>2, Kinds

\* ensure_connected_async keeps the invariant.
LEMMA EnsureStep ==
    ASSUME IInv, NEW p \in Procs, EnsureConnected(p)
    PROVE  IInv'
  <1> USE DEF IInv, Values
  <1>1. CASE EnsureCheck(p)
    <2>1. pc[p] \in EnsurePoints
      BY <1>1 DEF EnsureCheck, EnsurePoints
    <2>2. Control'
      BY <1>1, <2>1, EnsureMoves DEF EnsureCheck, clientVars, listenerVars, EnsurePoints
    <2> QED BY <1>1, <2>2, SameValues DEF EnsureCheck
  <1>2. CASE EnsureDial(p)
    <2>1. pc[p] \in EnsurePoints
      BY <1>2 DEF EnsureDial, EnsurePoints
    <2>2. Control'
      BY <1>2, <2>1, EnsureMoves DEF EnsureDial, clientVars, listenerVars, EnsurePoints
    <2>3. \A i \in Conns : i \in 0..MaxConns
      BY Kinds DEF Conns
    <2>4. BrokerTypes' /\ SessionTypes'
      BY <1>2, <2>3 DEF EnsureDial, BrokerTypes, SessionTypes
    <2> QED BY <1>2, <2>2, <2>4, SameValues DEF EnsureDial
  <1>3. CASE EnsureRead(p)
    <2>1. pc[p] \in EnsurePoints
      BY <1>3 DEF EnsureRead, EnsurePoints
    <2>2. Control'
      BY <1>3, <2>1, EnsureMoves DEF EnsureRead, clientVars, listenerVars, EnsurePoints
    <2>3. BrokerTypes'
      BY <1>3, BrokerKeeps DEF EnsureRead, BrokerTypes
    <2>4. SessionTypes'
      <3>1. sess' = sess \/ sess' = [sess EXCEPT ![p] = 0]
        BY <1>3 DEF EnsureRead
      <3> QED BY <3>1, Kinds DEF SessionTypes
    <2>5. DriverTypes'
      BY <1>3 DEF EnsureRead, DriverTypes
    <2> QED BY <1>3, <2>2, <2>3, <2>4, <2>5, SameValues DEF EnsureRead
  <1>4. CASE EnsureEval(p)
    <2>1. pc[p] \in EnsurePoints
      BY <1>4 DEF EnsureEval, EnsurePoints
    <2>2. Control'
      <3>1. \E x \in EnsurePoints \cup {AfterConnect(p, TRUE), AfterConnect(p, FALSE)} : Goto(p, x)
        BY <1>4 DEF EnsureEval, EnsurePoints, DriverTypes
      <3> QED BY <1>4, <2>1, <3>1, EnsureMoves DEF EnsureEval, clientVars, listenerVars
    <2>3. BrokerTypes'
      BY <1>4, BrokerKeeps DEF EnsureEval, BrokerTypes
    <2>4. SessionTypes'
      BY <1>4, Kinds DEF EnsureEval, SessionTypes
    <2> QED BY <1>4, <2>2, <2>3, <2>4, SameValues DEF EnsureEval
  <1>5. CASE EnsureInstall(p)
    <2>1. pc[p] \in EnsurePoints
      BY <1>5 DEF EnsureInstall, EnsurePoints
    <2>2. Control'
      BY <1>5, <2>1, EnsureMoves DEF EnsureInstall, clientVars, listenerVars, EnsurePoints
    <2>3. BrokerTypes'
      BY <1>5, BrokerKeeps DEF EnsureInstall, BrokerTypes
    <2>4. SessionTypes'
      BY <1>5, Kinds DEF EnsureInstall, SessionTypes
    <2>5. DriverTypes'
      BY <1>5 DEF EnsureInstall, DriverTypes, SessionTypes
    <2> QED BY <1>5, <2>2, <2>3, <2>4, <2>5, SameValues DEF EnsureInstall
  <1> QED BY <1>1, <1>2, <1>3, <1>4, <1>5 DEF EnsureConnected

-----------------------------------------------------------------------------
(* publish, subscribe, unsubscribe.                                        *)

\* enqueue_recovery_request: the oldest request leaves a full queue, the new one is
\* behind the others, and a queue that was within its limit stays within it.
LEMMA EnqueueKeeps ==
    ASSUME recq \in Seq(Requests), NEW r \in Requests, Enqueue(r)
    PROVE  /\ recq' \in Seq(Requests)
           /\ lost' \subseteq lost \cup Requests /\ lost \subseteq lost'
           /\ MaxQueued > 0 /\ Len(recq) <= MaxQueued => Len(recq') <= MaxQueued
           /\ Range(recq) \cup {r} \subseteq Range(recq') \cup lost'
  <1> DEFINE full == Len(recq) >= MaxQueued /\ recq # <<>>
  <1>1. MaxQueued \in Nat /\ Len(recq) \in Nat /\ DOMAIN recq = 1..Len(recq)
    BY MqttAssumptions, LenProperties
  <1>2. CASE full
    <2>1. recq' = Append(Tail(recq), r) /\ lost' = lost \cup {Head(recq)} /\ recq # <<>>
      BY <1>2 DEF Enqueue
    <2>2. /\ Head(recq) \in Requests /\ Tail(recq) \in Seq(Requests) /\ Len(Tail(recq)) = Len(recq) - 1
          /\ Head(recq) = recq[1] /\ \A i \in 1..(Len(recq) - 1) : Tail(recq)[i] = recq[i + 1]
      BY <2>1, HeadTailProperties
    <2>3. recq' \in Seq(Requests) /\ Len(recq') = Len(recq) /\ DOMAIN recq' = 1..Len(recq)
      BY <1>1, <2>1, <2>2
    <2>4. recq'[Len(recq)] = r /\ \A i \in 1..(Len(recq) - 1) : recq'[i] = recq[i + 1]
      BY <1>1, <2>1, <2>2
    <2>5. Len(recq) > 0
      BY <1>1, <2>1
    <2>6. ASSUME NEW i \in DOMAIN recq PROVE recq[i] \in Range(recq') \cup lost'
      <3>1. CASE i = 1
        BY <2>1, <2>2, <3>1
      <3>2. CASE i # 1
        <4>1. i - 1 \in 1..(Len(recq) - 1) /\ i - 1 \in DOMAIN recq'
          BY <1>1, <2>3, <3>2
        <4>2. recq'[i - 1] = recq[i]
          BY <1>1, <2>4, <4>1
        <4> QED BY <4>1, <4>2 DEF Range
      <3> QED BY <3>1, <3>2
    <2>7. r \in Range(recq')
      BY <1>1, <2>3, <2>4, <2>5 DEF Range
    <2>8. Range(recq) \cup {r} \subseteq Range(recq') \cup lost'
      BY <2>6, <2>7 DEF Range
    <2> QED BY <2>1, <2>2, <2>3, <2>8
  <1>3. CASE ~full
    <2>1. recq' = Append(recq, r) /\ lost' = lost
      BY <1>3 DEF Enqueue
    <2>2. /\ recq' \in Seq(Requests) /\ Len(recq') = Len(recq) + 1 /\ DOMAIN recq' = 1..(Len(recq) + 1)
          /\ recq'[Len(recq) + 1] = r /\ \A i \in 1..Len(recq) : recq'[i] = recq[i]
      BY <1>1, <2>1
    <2>3. MaxQueued > 0 /\ Len(recq) <= MaxQueued => Len(recq) < MaxQueued
      BY <1>1, <1>3
    <2>4. MaxQueued > 0 /\ Len(recq) <= MaxQueued => Len(recq') <= MaxQueued
      BY <1>1, <2>2, <2>3
    <2>5. Range(recq) \cup {r} \subseteq Range(recq')
      BY <1>1, <2>2 DEF Range
    <2> QED BY <2>1, <2>2, <2>4, <2>5
  <1> QED BY <1>2, <1>3

\* A step of a request call that keeps the call, to another point of it or to its end.
LEMMA RequestMoves ==
    ASSUME IInv, NEW c \in Clients, op[c] \in Requests,
           NEW x \in RequestPoints \cup {"ec_check", "ret_ok", "ret_err"}, Goto(c, x),
           \A d \in Clients \ {c} : gen'[d] = gen[d],
           UNCHANGED <<op, cmd, after>>
    PROVE  Control'
  <1>1. x \in ClientPoints /\ x \notin CallPoints /\ x \notin StartPoints
    BY DEF RequestPoints, ClientPoints, CallPoints, StartPoints, EnsurePoints
  <1> QED BY <1>1, ClientStep

\* Every step of a request call keeps the invariant.
LEMMA RequestStep ==
    ASSUME IInv, NEW c \in Clients, RequestCall(c)
    PROVE  IInv'
  <1> USE DEF IInv, Values
  <1>1. ASSUME NEW r \in Requests, CallRequest(c, r) PROVE IInv'
    <2>1. op'[c] = r /\ \A d \in Clients \ {c} : op'[d] = op[d]
      BY <1>1 DEF CallRequest, ClientTypes
    <2>2. "check" \in ClientPoints /\ "check" \notin CallPoints /\ "check" \notin EnsurePoints
          /\ "check" \notin StartPoints
      BY DEF ClientPoints, CallPoints, EnsurePoints, StartPoints
    <2>3. Control'
      BY <1>1, <2>1, <2>2, ClientStep DEF CallRequest, listenerVars
    <2>4. ClientTypes'
      BY <1>1 DEF CallRequest, ClientTypes
    <2>5. outcome' \in [Requests -> {"new", "called", "ok", "err"}]
      BY <1>1 DEF CallRequest, HistoryTypes
    <2>6. HistoryTypes'
      BY <1>1, <2>5 DEF CallRequest, HistoryTypes
    <2>7. desired' \subseteq Subscribes
      BY <1>1 DEF CallRequest, DriverTypes
    <2>8. DriverTypes'
      BY <1>1, <2>7 DEF CallRequest, DriverTypes
    <2> QED BY <1>1, <2>3, <2>4, <2>6, <2>8, SameValues DEF CallRequest
  <1>2. ASSUME pc[c] \in RequestPoints PROVE op[c] \in Requests
    BY <1>2 DEF Control, CallsFit
  <1>3. CASE CheckRunning(c)
    <2>1. op[c] \in Requests
      BY <1>2, <1>3 DEF CheckRunning, RequestPoints
    <2>2. Control'
      BY <1>3, <2>1, RequestMoves DEF CheckRunning, RequestPoints, clientVars, listenerVars
    <2> QED BY <1>3, <2>2, SameValues DEF CheckRunning
  <1>4. CASE CloneSender(c)
    <2>1. op[c] \in Requests
      BY <1>2, <1>4 DEF CloneSender, RequestPoints
    <2>2. Control'
      BY <1>4, <2>1, RequestMoves DEF CloneSender, RequestPoints, listenerVars, ClientTypes
    <2>3. ClientTypes'
      BY <1>4 DEF CloneSender, ClientTypes, DriverTypes
    <2> QED BY <1>4, <2>2, <2>3, SameValues DEF CloneSender
  <1>5. CASE SendCommand(c)
    <2>1. op[c] \in Requests
      BY <1>2, <1>5 DEF SendCommand, RequestPoints
    <2>2. Control'
      BY <1>5, <2>1, RequestMoves DEF SendCommand, RequestPoints, ClientTypes
    <2>3. ClientTypes'
      BY <1>5, Kinds DEF SendCommand, ClientTypes
    <2>4. chan' \in [Listeners -> Seq(Requests)]
      <3>1. chan' = chan \/ chan' = [chan EXCEPT ![gen[c]] = Append(@, op[c])]
        BY <1>5 DEF SendCommand
      <3>2. \A q \in Seq(Requests) : Append(q, op[c]) \in Seq(Requests)
        BY <2>1
      <3>3. chan \in [Listeners -> Seq(Requests)]
        BY DEF ListenerTypes
      <3> QED BY <3>1, <3>2, <3>3
    <2>5. ListenerTypes'
      BY <1>5, <2>4 DEF SendCommand, ListenerTypes
    <2> QED BY <1>5, <2>2, <2>3, <2>5, SameValues DEF SendCommand
  <1>6. CASE AwaitResponse(c)
    <2>1. op[c] \in Requests
      BY <1>2, <1>6 DEF AwaitResponse, RequestPoints
    <2>2. Control'
      BY <1>6, <2>1, RequestMoves DEF AwaitResponse, RequestPoints, listenerVars, ClientTypes
    <2>3. ClientTypes'
      BY <1>6, Kinds DEF AwaitResponse, ClientTypes
    <2> QED BY <1>6, <2>2, <2>3, SameValues DEF AwaitResponse
  <1>7. CASE Park(c)
    <2>1. op[c] \in Requests
      BY <1>2, <1>7 DEF Park, RequestPoints
    <2>2. Control'
      BY <1>7, <2>1, RequestMoves DEF Park, RequestPoints, clientVars, listenerVars
    <2>3. recq' \in Seq(Requests) /\ lost' \subseteq Requests
      BY <1>7, <2>1, EnqueueKeeps DEF Park, DriverTypes, HistoryTypes
    <2>4. DriverTypes' /\ HistoryTypes'
      BY <1>7, <2>3 DEF Park, DriverTypes, HistoryTypes
    <2> QED BY <1>7, <2>2, <2>4, SameValues DEF Park
  <1>8. CASE TakeSession(c)
    <2>1. op[c] \in Requests
      BY <1>2, <1>8 DEF TakeSession, RequestPoints
    <2>2. Control'
      BY <1>8, <2>1, RequestMoves DEF TakeSession, RequestPoints, clientVars, listenerVars
    <2>3. SessionTypes' /\ DriverTypes'
      BY <1>8, Kinds DEF TakeSession, SessionTypes, DriverTypes
    <2> QED BY <1>8, <2>2, <2>3, SameValues DEF TakeSession
  <1>9. CASE DirectExchange(c)
    <2>1. op[c] \in Requests
      BY <1>2, <1>9 DEF DirectExchange, RequestPoints
    <2>2. Control'
      BY <1>9, <2>1, RequestMoves DEF DirectExchange, RequestPoints, clientVars, listenerVars
    <2>3. BrokerTypes'
      BY <1>9, <2>1, BrokerKeeps DEF DirectExchange
    <2> QED BY <1>9, <2>2, <2>3, SameValues DEF DirectExchange
  <1>10. CASE RestoreSession(c)
    <2>1. op[c] \in Requests
      BY <1>2, <1>10 DEF RestoreSession, RequestPoints
    <2>2. Control'
      BY <1>10, <2>1, RequestMoves DEF RestoreSession, RequestPoints, clientVars, listenerVars
    <2>3. slot' \in 0..MaxConns /\ sess' \in [Procs -> 0..MaxConns]
      BY <1>10, Kinds DEF RestoreSession, SessionTypes, DriverTypes
    <2>4. SessionTypes' /\ DriverTypes'
      BY <1>10, <2>3 DEF RestoreSession, SessionTypes, DriverTypes
    <2>5. BrokerTypes'
      BY <1>10, BrokerKeeps DEF RestoreSession, BrokerTypes
    <2> QED BY <1>10, <2>2, <2>4, <2>5, SameValues DEF RestoreSession
  <1>11. CASE ClearSession(c)
    <2>1. op[c] \in Requests
      BY <1>2, <1>11 DEF ClearSession, RequestPoints
    <2>2. Control'
      BY <1>11, <2>1, RequestMoves DEF ClearSession, RequestPoints, clientVars, listenerVars
    <2>3. slot' \in 0..MaxConns /\ sess' \in [Procs -> 0..MaxConns]
      BY <1>11, Kinds DEF ClearSession, SessionTypes, DriverTypes
    <2>4. SessionTypes' /\ DriverTypes'
      BY <1>11, <2>3 DEF ClearSession, SessionTypes, DriverTypes
    <2>5. BrokerTypes'
      BY <1>11, BrokerKeeps DEF ClearSession, BrokerTypes
    <2> QED BY <1>11, <2>2, <2>4, <2>5, SameValues DEF ClearSession
  <1>12. CASE Requeue(c)
    <2>1. op[c] \in Requests
      BY <1>2, <1>12 DEF Requeue, RequestPoints
    <2>2. Control'
      BY <1>12, <2>1, RequestMoves DEF Requeue, RequestPoints, clientVars, listenerVars
    <2> QED BY <1>12, <2>2, SameValues DEF Requeue
  <1>13. CASE Repark(c)
    <2>1. op[c] \in Requests
      BY <1>2, <1>13 DEF Repark, RequestPoints
    <2>2. Control'
      BY <1>13, <2>1, RequestMoves DEF Repark, RequestPoints, clientVars, listenerVars
    <2>3. recq' \in Seq(Requests) /\ lost' \subseteq Requests
      BY <1>13, <2>1, EnqueueKeeps DEF Repark, DriverTypes, HistoryTypes
    <2>4. DriverTypes' /\ HistoryTypes'
      BY <1>13, <2>3 DEF Repark, DriverTypes, HistoryTypes
    <2> QED BY <1>13, <2>2, <2>4, SameValues DEF Repark
  <1>14. CASE Return(c)
    <2>1. \A d \in Clients \ {c} : op'[d] = op[d] /\ gen'[d] = gen[d]
      BY <1>14 DEF Return, ClientTypes
    <2>2. /\ "idle" \in ClientPoints /\ "idle" \notin CallPoints /\ "idle" \notin EnsurePoints
          /\ "idle" \notin StartPoints /\ "idle" \notin RequestPoints
      BY DEF ClientPoints, CallPoints, EnsurePoints, StartPoints, RequestPoints
    <2>3. Control'
      BY <1>14, <2>1, <2>2, ClientStep DEF Return, listenerVars
    <2>4. ClientTypes'
      BY <1>14 DEF Return, ClientTypes
    <2>5. outcome' \in [Requests -> {"new", "called", "ok", "err"}]
      BY <1>14 DEF Return, HistoryTypes
    <2>6. HistoryTypes'
      BY <1>14, <2>5 DEF Return, HistoryTypes
    <2> QED BY <1>14, <2>3, <2>4, <2>6, SameValues DEF Return
  <1> QED BY <1>1, <1>3, <1>4, <1>5, <1>6, <1>7, <1>8, <1>9, <1>10, <1>11, <1>12, <1>13, <1>14 DEF RequestCall

-----------------------------------------------------------------------------
(* Lifecycle calls.                                                        *)

\* A step of a lifecycle call that keeps the call, to another point of it or to its
\* end; a start keeps the task it owns.
LEMMA CallMoves ==
    ASSUME IInv, NEW c \in Clients, pc[c] \in CallPoints,
           NEW x \in CallPoints \cup {"ret_ok", "ret_err"}, Goto(c, x),
           \A d \in Clients \ {c} : gen'[d] = gen[d],
           x \in StartPoints => pc[c] \in StartPoints /\ gen'[c] = gen[c],
           UNCHANGED <<op, cmd, after>>
    PROVE  Control'
  <1>1. x \in ClientPoints /\ x \notin RequestPoints /\ x \notin EnsurePoints
    BY DEF RequestPoints, ClientPoints, CallPoints, StartPoints, EnsurePoints
  <1>2. op[c] \in AllOps
    BY DEF IInv, Control, CallsFit
  <1> QED BY <1>1, <1>2, ClientStep

\* A step that changes no more than the error, the broadcast status, the run flag, the
\* command sender or the handle keeps the types of the driver.
LEMMA DriverStep ==
    ASSUME IInv, UNCHANGED <<slot, connack, desired, recq>>,
           running' \in BOOLEAN, error' \in BOOLEAN, announced' \in Statuses,
           handle' \in 0..MaxListeners, sender' \in 0..MaxListeners
    PROVE  DriverTypes'
  BY DEF IInv, Values, DriverTypes

\* The run flag lets one start through, which comes to own a task of its own.
LEMMA SwapKeeps ==
    ASSUME IInv, NEW c \in Clients, SwapRunning(c)
    PROVE  IInv'
  <1> USE DEF IInv, Values
  <1>1. running' \in BOOLEAN /\ error \in BOOLEAN /\ announced \in Statuses
    <2>1. running' \in BOOLEAN
      BY Zenon DEF SwapRunning
    <2> QED BY <2>1 DEF DriverTypes
  <1>2. DriverTypes'
    BY <1>1, DriverStep DEF SwapRunning, DriverTypes
  <1>3. CASE running
    <2>1. Control'
      BY <1>3, CallMoves DEF SwapRunning, CallPoints, StartPoints, listenerVars
    <2> QED BY <1>2, <1>3, <2>1, SameValues DEF SwapRunning, clientVars
  <1>4. CASE ~running
    <2>1. PICK g \in Listeners : /\ FreeListener(g)
                                 /\ gen' = [gen EXCEPT ![c] = g]
                                 /\ pc' = [pc EXCEPT ![c] = "s_clear", ![g] = "ready"]
      BY <1>4 DEF SwapRunning
    <2>2. /\ pc'[c] = "s_clear" /\ pc'[g] = "ready" /\ pc[c] = "swap" /\ pc[g] = "done"
          /\ \A p \in Procs : p # c /\ p # g => pc'[p] = pc[p]
      BY <2>1, Kinds DEF Control, PointTypes, FreeListener, SwapRunning
    <2>3. gen'[c] = g /\ gen[c] # g /\ \A d \in Clients : d # c => gen'[d] = gen[d] /\ gen[d] # g
      BY <2>1 DEF FreeListener, ClientTypes
    <2>4. UNCHANGED <<op, cmd, after>>
      BY DEF SwapRunning, listenerVars
    <2>5. "s_clear" \in ClientPoints /\ "ready" \in ListenerPoints
      BY DEF ClientPoints, ListenerPoints
    <2>6. PointTypes'
      BY <2>1, <2>2, <2>5, Kinds DEF Control, PointTypes
    <2>7. CallsFit'
      <3>1. \A d \in Clients : d # g
        BY Kinds
      <3>2. op[c] \in AllOps
        BY <2>2 DEF Control, CallsFit, CallPoints
      <3>3. /\ "s_clear" \notin RequestPoints /\ "s_clear" \notin EnsurePoints
        BY DEF RequestPoints, EnsurePoints
      <3> QED BY <2>2, <2>4, <3>1, <3>2, <3>3, Kinds DEF Control, CallsFit
    <2>8. StartsOwnTask'
      <3> SUFFICES ASSUME NEW e \in Clients, pc'[e] \in StartPoints
                   PROVE  /\ gen'[e] \in Listeners /\ pc'[gen'[e]] = "ready"
                          /\ \A d \in Clients : pc'[d] \in StartPoints /\ gen'[d] = gen'[e] => d = e
        BY DEF StartsOwnTask
      <3>1. \A d \in Clients : d # c => pc'[d] = pc[d]
        BY <2>2, Kinds
      <3>2. CASE e = c
        BY <2>2, <2>3, <3>1, <3>2
      <3>3. CASE e # c
        <4>1. gen'[e] = gen[e] /\ gen[e] \in Listeners /\ pc[gen[e]] = "ready"
          BY <2>3, <3>1, <3>3 DEF Control, StartsOwnTask
        <4>2. pc'[gen[e]] = "ready"
          BY <2>2, <4>1, Kinds
        <4>3. \A d \in Clients : pc'[d] \in StartPoints /\ gen'[d] = gen'[e] => d = e
          BY <2>3, <3>1, <3>3, <4>1 DEF Control, StartsOwnTask
        <4> QED BY <4>1, <4>2, <4>3
      <3> QED BY <3>2, <3>3
    <2>9. TasksFit'
      BY <2>2, <2>4, Kinds DEF Control, TasksFit
    <2>10. ClientTypes'
      <3>1. g \in 0..MaxListeners
        BY Kinds
      <3> QED BY <2>1, <3>1 DEF SwapRunning, ClientTypes
    <2> QED BY <1>2, <2>6, <2>7, <2>8, <2>9, <2>10, SameValues DEF SwapRunning, Control
  <1> QED BY <1>3, <1>4

\* The owned task begins to run.
LEMMA SpawnKeeps ==
    ASSUME IInv, NEW c \in Clients, Spawn(c)
    PROVE  IInv'
  <1> USE DEF IInv, Values
  <1>1. pc[c] \in StartPoints /\ pc[c] \in CallPoints
    BY DEF Spawn, StartPoints, CallPoints
  <1> DEFINE g == gen[c]
  <1>2. g \in Listeners /\ pc[g] = "ready" /\ \A d \in Clients : pc[d] \in StartPoints /\ gen[d] = g => d = c
    BY <1>1 DEF Control, StartsOwnTask
  <1>3. /\ pc' = [pc EXCEPT ![c] = "s_handle", ![g] = "l_top"]
        /\ UNCHANGED <<op, gen, cmd, after>>
    BY DEF Spawn, clientVars, listenerVars
  <1> HIDE DEF g
  <1>4. /\ pc'[c] = "s_handle" /\ pc'[g] = "l_top"
        /\ \A p \in Procs : p # c /\ p # g => pc'[p] = pc[p]
    BY <1>2, <1>3, Kinds DEF Control, PointTypes
  <1>5. /\ "s_handle" \in ClientPoints /\ "l_top" \in ListenerPoints /\ "s_handle" \notin StartPoints
        /\ "s_handle" \notin RequestPoints /\ "s_handle" \notin EnsurePoints
    BY DEF ClientPoints, ListenerPoints, StartPoints, RequestPoints, EnsurePoints
  <1>6. PointTypes'
    BY <1>2, <1>3, <1>4, <1>5, Kinds DEF Control, PointTypes
  <1>7. CallsFit'
    <2>1. \A d \in Clients : d # g
      BY <1>2, Kinds
    <2>2. op[c] \in AllOps
      BY <1>1 DEF Control, CallsFit
    <2> QED BY <1>3, <1>4, <1>5, <2>1, <2>2, Kinds DEF Control, CallsFit
  <1>8. StartsOwnTask'
    <2> SUFFICES ASSUME NEW e \in Clients, pc'[e] \in StartPoints
                 PROVE  /\ gen'[e] \in Listeners /\ pc'[gen'[e]] = "ready"
                        /\ \A d \in Clients : pc'[d] \in StartPoints /\ gen'[d] = gen'[e] => d = e
      BY DEF StartsOwnTask
    <2>1. \A d \in Clients : pc'[d] \in StartPoints => d # c /\ pc[d] \in StartPoints
      BY <1>2, <1>4, <1>5, Kinds
    <2>2. gen[e] \in Listeners /\ pc[gen[e]] = "ready" /\ gen[e] # g /\ gen[e] # c
      BY <1>2, <2>1, Kinds DEF Control, StartsOwnTask
    <2>3. \A d \in Clients : pc'[d] \in StartPoints /\ gen'[d] = gen'[e] => d = e
      BY <1>3, <2>1 DEF Control, StartsOwnTask
    <2> QED BY <1>3, <1>4, <2>2, <2>3, Kinds
  <1>9. TasksFit'
    BY <1>2, <1>3, <1>4, Kinds DEF Control, TasksFit
  <1> QED BY <1>6, <1>7, <1>8, <1>9, SameValues DEF Spawn, Control

\* Every step of a lifecycle call keeps the invariant.
LEMMA LifecycleStep ==
    ASSUME IInv, NEW c \in Clients, LifecycleCall(c)
    PROVE  IInv'
  <1> USE DEF IInv, Values
  <1>1. ASSUME NEW o \in LifecycleOps, CallLifecycle(c, o) PROVE IInv'
    <2>1. o \in AllOps /\ calls' \in 0..MaxCalls
      <3>1. o \in AllOps /\ calls \in 0..MaxCalls /\ MaxCalls \in Nat
        BY MqttAssumptions DEF ClientTypes
      <3> QED BY <1>1, <3>1 DEF CallLifecycle
    <2>2. ClientTypes'
      BY <1>1, <2>1 DEF CallLifecycle, ClientTypes
    <2>3. op'[c] = o /\ \A d \in Clients \ {c} : op'[d] = op[d] /\ gen'[d] = gen[d]
      BY <1>1 DEF CallLifecycle, ClientTypes
    <2>4. /\ o \in {"connect", "start_listening"} => Goto(c, "ec_check")
          /\ o \in {"stop", "stop_listening"} => Goto(c, "p_flag")
          /\ o = "clear_error" => Goto(c, "x_clear")
      BY <1>1 DEF CallLifecycle
    <2>5. UNCHANGED <<cmd, after>>
      BY <1>1 DEF CallLifecycle, listenerVars
    <2>6. CASE o \in {"connect", "start_listening"}
      <3>1. /\ "ec_check" \in ClientPoints /\ "ec_check" \notin CallPoints
            /\ "ec_check" \notin StartPoints /\ "ec_check" \notin RequestPoints
        BY DEF ClientPoints, EnsurePoints, CallPoints, StartPoints, RequestPoints
      <3>2. Control'
        BY <2>3, <2>4, <2>5, <2>6, <3>1, ClientStep
      <3> QED BY <1>1, <2>2, <3>2, SameValues DEF CallLifecycle
    <2>7. CASE o \in {"stop", "stop_listening", "clear_error"}
      <3>1. \A x \in {"p_flag", "x_clear"} : /\ x \in ClientPoints /\ x \notin EnsurePoints
                                             /\ x \notin StartPoints /\ x \notin RequestPoints
        BY DEF ClientPoints, EnsurePoints, CallPoints, StartPoints, RequestPoints
      <3>2. Control'
        BY <2>1, <2>3, <2>4, <2>5, <2>7, <3>1, ClientStep
      <3> QED BY <1>1, <2>2, <3>2, SameValues DEF CallLifecycle
    <2> QED BY <2>1, <2>6, <2>7 DEF AllOps
  <1>2. CASE SwapRunning(c)
    BY <1>2, SwapKeeps
  <1>3. ASSUME NEW from \in CallPoints, NEW to \in CallPoints, ClearError(c, from, to),
               to \in StartPoints => from \in StartPoints
        PROVE  IInv'
    <2>1. Control'
      BY <1>3, CallMoves DEF ClearError, clientVars, listenerVars
    <2>2. error' \in BOOLEAN
      BY <1>3, Zenon DEF ClearError
    <2>3. DriverTypes'
      BY <1>3, <2>2 DEF ClearError, DriverTypes
    <2> QED BY <1>3, <2>1, <2>3, SameValues DEF ClearError
  <1>4. ASSUME NEW from \in CallPoints, NEW to \in CallPoints \cup {"ret_ok"}, NEW s \in Statuses,
               Announce(c, from, s, to), to \in StartPoints => from \in StartPoints
        PROVE  IInv'
    <2>1. Control'
      BY <1>4, CallMoves DEF Announce, clientVars, listenerVars
    <2>2. DriverTypes'
      BY <1>4 DEF Announce, DriverTypes
    <2> QED BY <1>4, <2>1, <2>2, SameValues DEF Announce
  <1>5. CASE SetSender(c)
    <2>1. Control'
      BY <1>5, CallMoves DEF SetSender, clientVars, listenerVars, CallPoints, StartPoints
    <2>2. DriverTypes'
      BY <1>5 DEF SetSender, DriverTypes, ClientTypes
    <2> QED BY <1>5, <2>1, <2>2, SameValues DEF SetSender
  <1>6. CASE Spawn(c)
    BY <1>6, SpawnKeeps
  <1>7. CASE StoreHandle(c)
    <2>1. Control'
      BY <1>7, CallMoves DEF StoreHandle, listenerVars, CallPoints, StartPoints, ClientTypes
    <2>2. ClientTypes' /\ handle' \in 0..MaxListeners
      BY <1>7, Kinds DEF StoreHandle, ClientTypes
    <2>3. DriverTypes'
      BY <1>7, <2>2 DEF StoreHandle, DriverTypes
    <2> QED BY <1>7, <2>1, <2>2, <2>3, SameValues DEF StoreHandle
  <1>8. CASE StopFlag(c)
    <2>1. Control'
      BY <1>8, CallMoves DEF StopFlag, clientVars, listenerVars, CallPoints, StartPoints
    <2>2. running' \in BOOLEAN
      BY <1>8, Zenon DEF StopFlag
    <2>3. DriverTypes'
      BY <1>8, <2>2 DEF StopFlag, DriverTypes
    <2> QED BY <1>8, <2>1, <2>3, SameValues DEF StopFlag
  <1>9. CASE StopSender(c)
    <2>1. Control'
      BY <1>9, CallMoves DEF StopSender, clientVars, listenerVars, CallPoints, StartPoints
    <2>2. DriverTypes'
      BY <1>9, Kinds DEF StopSender, DriverTypes
    <2> QED BY <1>9, <2>1, <2>2, SameValues DEF StopSender
  <1>10. CASE StopTakeHandle(c)
    <2>1. Control'
      BY <1>10, CallMoves DEF StopTakeHandle, listenerVars, CallPoints, StartPoints, ClientTypes
    <2>2. ClientTypes' /\ handle' \in 0..MaxListeners
      BY <1>10, Kinds DEF StopTakeHandle, ClientTypes, DriverTypes
    <2>3. DriverTypes'
      BY <1>10, <2>2 DEF StopTakeHandle, DriverTypes
    <2> QED BY <1>10, <2>1, <2>2, <2>3, SameValues DEF StopTakeHandle
  <1>11. CASE StopJoin(c)
    <2>1. Control'
      BY <1>11, CallMoves DEF StopJoin, listenerVars, CallPoints, StartPoints, ClientTypes
    <2>2. ClientTypes'
      BY <1>11, Kinds DEF StopJoin, ClientTypes
    <2> QED BY <1>11, <2>1, <2>2, SameValues DEF StopJoin
  <1>12. ASSUME NEW from \in CallPoints, NEW toErr \in CallPoints \ StartPoints,
                NEW toAnn \in CallPoints \ StartPoints, StatusFlag(c, from, toErr, toAnn)
         PROVE  IInv'
    <2>1. Control'
      BY <1>12, CallMoves DEF StatusFlag, listenerVars
    <2>2. ClientTypes'
      BY <1>12 DEF StatusFlag, ClientTypes, Statuses
    <2> QED BY <1>12, <2>1, <2>2, SameValues DEF StatusFlag
  <1>13. ASSUME NEW from \in CallPoints, NEW toAnn \in CallPoints \ StartPoints, StatusError(c, from, toAnn)
         PROVE  IInv'
    <2>1. Control'
      BY <1>13, CallMoves DEF StatusError, listenerVars
    <2>2. ClientTypes'
      BY <1>13 DEF StatusError, ClientTypes, Statuses
    <2> QED BY <1>13, <2>1, <2>2, SameValues DEF StatusError
  <1>14. CASE StopSession(c)
    <2>1. Control'
      BY <1>14, CallMoves DEF StopSession, clientVars, listenerVars, CallPoints, StartPoints
    <2>2. DriverTypes'
      BY <1>14, Kinds DEF StopSession, DriverTypes
    <2>3. BrokerTypes'
      BY <1>14, BrokerKeeps DEF StopSession, BrokerTypes
    <2> QED BY <1>14, <2>1, <2>2, <2>3, SameValues DEF StopSession
  <1>15. /\ {"s_clear", "s_stopped", "s_running", "s_sender"} \subseteq StartPoints
         /\ {"s_clear", "s_stopped", "s_running", "s_sender"} \subseteq CallPoints
         /\ {"p_status", "p_err", "p_ann", "p_take", "q_status", "q_err", "q_ann", "x_clear", "x_ann"}
              \subseteq CallPoints \ StartPoints
         /\ "ret_ok" \notin StartPoints
         /\ {"Stopped", "Running"} \subseteq Statuses /\ stat[c] \in Statuses
    BY DEF CallPoints, StartPoints, Statuses, ClientTypes
  <1>16. CASE \/ ClearError(c, "s_clear", "s_stopped") \/ ClearError(c, "x_clear", "x_ann")
    BY <1>3, <1>15, <1>16
  <1>17. CASE \/ Announce(c, "s_stopped", "Stopped", "s_running")
              \/ Announce(c, "s_running", "Running", "s_sender")
    BY <1>4, <1>15, <1>17
  <1>18. CASE Announce(c, "p_ann", stat[c], IF op[c] = "stop" THEN "p_take" ELSE "ret_ok")
    BY <1>4, <1>15, <1>18
  <1>19. CASE Announce(c, "q_ann", stat[c], "ret_ok") \/ Announce(c, "x_ann", "Stopped", "ret_ok")
    BY <1>4, <1>15, <1>19
  <1>20. CASE StatusFlag(c, "p_status", "p_err", "p_ann") \/ StatusFlag(c, "q_status", "q_err", "q_ann")
    BY <1>12, <1>15, <1>20
  <1>21. CASE StatusError(c, "p_err", "p_ann") \/ StatusError(c, "q_err", "q_ann")
    BY <1>13, <1>15, <1>21
  <1> QED BY <1>1, <1>2, <1>5, <1>6, <1>7, <1>8, <1>9, <1>10, <1>11, <1>14, <1>16, <1>17, <1>18, <1>19,
             <1>20, <1>21 DEF LifecycleCall

-----------------------------------------------------------------------------
(* The listener task.                                                      *)

\* A step of a running task that leaves its command and the status it carries alone.
LEMMA TaskMoves ==
    ASSUME IInv, NEW g \in Listeners, pc[g] # "ready",
           NEW x \in ListenerPoints \ {"l_exec", "l_giveup", "f_ann", "f_flag", "l_ann"}, Goto(g, x),
           UNCHANGED <<op, gen, cmd, after>>
    PROVE  Control'
  BY TaskStep

\* Every step of a listener task keeps the invariant.
LEMMA ListenerStep ==
    ASSUME IInv, NEW g \in Listeners, ListenerTask(g)
    PROVE  IInv'
  <1> USE DEF IInv, Values
  <1>1. CASE ListenTop(g)
    <2>1. Control'
      BY <1>1, TaskMoves DEF ListenTop, clientVars, listenerVars, ListenerPoints
    <2> QED BY <1>1, <2>1, SameValues DEF ListenTop
  <1>2. CASE ListenTake(g) \/ ListenGot(g)
    <2>1. Control'
      BY <1>2, TaskMoves DEF ListenTake, ListenGot, clientVars, listenerVars, ListenerPoints
    <2>2. slot' \in 0..MaxConns /\ sess' \in [Procs -> 0..MaxConns]
      BY <1>2, Kinds DEF ListenTake, ListenGot, SessionTypes, DriverTypes
    <2>3. SessionTypes' /\ DriverTypes'
      BY <1>2, <2>2 DEF ListenTake, ListenGot, SessionTypes, DriverTypes
    <2> QED BY <1>2, <2>1, <2>3, SameValues DEF ListenTake, ListenGot
  <1>3. CASE ListenNextCommand(g)
    <2>1. chan[g] \in Seq(Requests)
      BY DEF ListenerTypes
    <2>2. CASE chan[g] = <<>>
      <3>1. Control'
        BY <1>3, <2>2, TaskMoves DEF ListenNextCommand, clientVars, ListenerPoints
      <3> QED BY <1>3, <2>2, <3>1, SameValues DEF ListenNextCommand, listenerVars
    <2>3. CASE chan[g] # <<>>
      <3>1. Head(chan[g]) \in Requests /\ Tail(chan[g]) \in Seq(Requests)
        BY <2>1, <2>3, HeadTailProperties
      <3>2. cmd' = [cmd EXCEPT ![g] = Head(chan[g])] /\ chan' = [chan EXCEPT ![g] = Tail(chan[g])]
            /\ Goto(g, "l_exec") /\ pc[g] = "l_cmds"
        BY <1>3, <2>3 DEF ListenNextCommand
      <3>3. chan' \in [Listeners -> Seq(Requests)] /\ cmd' \in [Listeners -> Requests \cup {NoCall}]
        BY <3>1, <3>2 DEF ListenerTypes
      <3>4. ListenerTypes'
        BY <1>3, <3>3 DEF ListenNextCommand, ListenerTypes
      <3>5. cmd'[g] \in Requests /\ \A h \in Listeners \ {g} : cmd'[h] = cmd[h]
        BY <3>1, <3>2 DEF ListenerTypes
      <3>6. Control'
        BY <1>3, <3>2, <3>5, TaskStep DEF ListenNextCommand, clientVars, ListenerPoints
      <3> QED BY <1>3, <3>4, <3>6, SameValues DEF ListenNextCommand
    <2> QED BY <2>2, <2>3
  <1>4. CASE ListenExecute(g)
    <2>1. cmd[g] \in Requests
      BY <1>4 DEF ListenExecute, Control, TasksFit
    <2>2. BrokerTypes'
      BY <1>4, <2>1, BrokerKeeps DEF ListenExecute
    <2>3. resp' \in [Clients -> {"none", "ok", "err", "closed"}]
      BY <1>4 DEF ListenExecute, Respond, ClientTypes
    <2>4. ClientTypes'
      BY <1>4, <2>3 DEF ListenExecute, ClientTypes
    <2>5. path' \in [Listeners -> {"cmd", "read"}] /\ cmd' \in [Listeners -> Requests \cup {NoCall}]
      BY <1>4 DEF ListenExecute, ListenerTypes
    <2>6. ListenerTypes'
      BY <1>4, <2>5 DEF ListenExecute, ListenerTypes
    <2>7. \A h \in Listeners \ {g} : cmd'[h] = cmd[h] /\ after'[h] = after[h]
      BY <1>4 DEF ListenExecute, ListenerTypes
    <2>8. Control'
      BY <1>4, <2>7, TaskStep DEF ListenExecute, ListenerPoints
    <2> QED BY <1>4, <2>2, <2>4, <2>6, <2>8, SameValues DEF ListenExecute
  <1>5. CASE ListenRead(g)
    <2>1. slot' \in 0..MaxConns /\ sess' \in [Procs -> 0..MaxConns]
      BY <1>5, Kinds DEF ListenRead, SessionTypes, DriverTypes
    <2>2. SessionTypes' /\ DriverTypes'
      BY <1>5, <2>1 DEF ListenRead, SessionTypes, DriverTypes
    <2>3. BrokerTypes'
      BY <1>5, BrokerKeeps DEF ListenRead, BrokerTypes
    <2>4. /\ attempt' \in [Listeners -> 0..AttemptCap] /\ path' \in [Listeners -> {"cmd", "read"}]
          /\ after' \in [Listeners -> {"l_top", "l_exit"} \cup Statuses]
      <3>1. 0 \in 0..AttemptCap
        BY MqttAssumptions
      <3> QED BY <1>5, <3>1 DEF ListenRead, ListenerTypes
    <2>5. ListenerTypes'
      BY <1>5, <2>4 DEF ListenRead, ListenerTypes
    <2>6. /\ \A h \in Listeners \ {g} : cmd'[h] = cmd[h] /\ after'[h] = after[h]
          /\ \/ \E x \in {"l_top", "l_clear"} : Goto(g, x)
             \/ Goto(g, "l_giveup") /\ after'[g] = "l_top"
      BY <1>5 DEF ListenRead, ListenerTypes
    <2>7. Control'
      BY <1>5, <2>6, TaskStep DEF ListenRead, clientVars, ListenerPoints
    <2> QED BY <1>5, <2>2, <2>3, <2>5, <2>7, SameValues DEF ListenRead
  <1>6. CASE ListenClear(g, "l_clear") \/ ListenClear(g, "r_fail")
    <2>1. Control'
      BY <1>6, TaskMoves DEF ListenClear, clientVars, listenerVars, ListenerPoints
    <2>2. slot' \in 0..MaxConns /\ sess' \in [Procs -> 0..MaxConns]
      BY <1>6, Kinds DEF ListenClear, SessionTypes, DriverTypes
    <2>3. SessionTypes' /\ DriverTypes'
      BY <1>6, <2>2 DEF ListenClear, SessionTypes, DriverTypes
    <2>4. BrokerTypes'
      BY <1>6, BrokerKeeps DEF ListenClear, BrokerTypes
    <2> QED BY <1>6, <2>1, <2>3, <2>4, SameValues DEF ListenClear
  <1>7. CASE ListenRetry(g)
    <2>1. Control'
      BY <1>7, TaskMoves DEF ListenRetry, clientVars, ListenerPoints
    <2>2. Saturate(attempt[g]) \in 0..AttemptCap
      <3>1. attempt[g] \in 0..AttemptCap /\ AttemptCap \in Nat
        BY MqttAssumptions DEF ListenerTypes
      <3> QED BY <3>1 DEF Saturate
    <2>3. attempt' \in [Listeners -> 0..AttemptCap]
      BY <1>7, <2>2 DEF ListenRetry, ListenerTypes
    <2>4. ListenerTypes'
      BY <1>7, <2>3 DEF ListenRetry, ListenerTypes
    <2> QED BY <1>7, <2>1, <2>4, SameValues DEF ListenRetry
  <1>8. CASE ListenWake(g)
    <2>1. Control'
      BY <1>8, TaskMoves DEF ListenWake, clientVars, listenerVars, ListenerPoints, EnsurePoints
    <2> QED BY <1>8, <2>1, SameValues DEF ListenWake
  <1>9. CASE ReplayStart(g)
    <2>1. Control'
      BY <1>9, TaskMoves DEF ReplayStart, clientVars, ListenerPoints
    <2>2. subsLeft' \in [Listeners -> SUBSET Subscribes]
      BY <1>9 DEF ReplayStart, ListenerTypes, DriverTypes
    <2>3. ListenerTypes'
      BY <1>9, <2>2 DEF ReplayStart, ListenerTypes
    <2> QED BY <1>9, <2>1, <2>3, SameValues DEF ReplayStart
  <1>10. CASE ReplaySubscription(g)
    <2>1. Control'
      BY <1>10, TaskMoves DEF ReplaySubscription, clientVars, ListenerPoints
    <2>2. subsLeft' \in [Listeners -> SUBSET Subscribes]
      BY <1>10 DEF ReplaySubscription, ListenerTypes
    <2>3. ListenerTypes'
      BY <1>10, <2>2 DEF ReplaySubscription, ListenerTypes
    <2>4. \A r \in subsLeft[g] : r \in Requests
      BY DEF ListenerTypes, Requests
    <2>5. BrokerTypes'
      BY <1>10, <2>4, BrokerKeeps DEF ReplaySubscription, BrokerTypes, brokerVars
    <2> QED BY <1>10, <2>1, <2>3, <2>5, SameValues DEF ReplaySubscription
  <1>11. CASE ReplayDrain(g)
    <2>1. Control'
      BY <1>11, TaskMoves DEF ReplayDrain, clientVars, ListenerPoints
    <2>2. queueLeft' \in [Listeners -> Seq(Requests)] /\ recq' \in Seq(Requests)
      BY <1>11 DEF ReplayDrain, ListenerTypes, DriverTypes
    <2>3. ListenerTypes' /\ DriverTypes'
      BY <1>11, <2>2 DEF ReplayDrain, ListenerTypes, DriverTypes
    <2> QED BY <1>11, <2>1, <2>3, SameValues DEF ReplayDrain
  <1>12. CASE ReplayQueued(g)
    <2>1. Control'
      BY <1>12, TaskMoves DEF ReplayQueued, clientVars, ListenerPoints
    <2>2. queueLeft[g] \in Seq(Requests)
      BY DEF ListenerTypes
    <2>3. queueLeft[g] # <<>> => Head(queueLeft[g]) \in Requests /\ Tail(queueLeft[g]) \in Seq(Requests)
      BY <2>2, HeadTailProperties
    <2>4. Range(queueLeft[g]) \subseteq Requests
      BY <2>2, LenProperties DEF Range
    <2>5. queueLeft' \in [Listeners -> Seq(Requests)]
      <3>1. \/ queueLeft' = queueLeft
            \/ queueLeft' = [queueLeft EXCEPT ![g] = <<>>]
            \/ queueLeft[g] # <<>> /\ queueLeft' = [queueLeft EXCEPT ![g] = Tail(queueLeft[g])]
        BY <1>12 DEF ReplayQueued
      <3>2. queueLeft \in [Listeners -> Seq(Requests)] /\ <<>> \in Seq(Requests)
        BY DEF ListenerTypes
      <3> DEFINE Q == Seq(Requests)
      <3> HIDE DEF Q
      <3>3. \A q \in Q : [queueLeft EXCEPT ![g] = q] \in [Listeners -> Q]
        BY <3>2 DEF Q
      <3> QED BY <2>3, <3>1, <3>2, <3>3 DEF Q
    <2>6. ListenerTypes'
      BY <1>12, <2>5 DEF ReplayQueued, ListenerTypes
    <2>7. BrokerTypes'
      BY <1>12, <2>3, BrokerKeeps DEF ReplayQueued, BrokerTypes, brokerVars
    <2>8. HistoryTypes'
      BY <1>12, <2>4 DEF ReplayQueued, HistoryTypes
    <2> QED BY <1>12, <2>1, <2>6, <2>7, <2>8, SameValues DEF ReplayQueued
  <1>13. CASE ReplayDone(g)
    <2>1. slot' \in 0..MaxConns /\ sess' \in [Procs -> 0..MaxConns]
      BY <1>13, Kinds DEF ReplayDone, SessionTypes, DriverTypes
    <2>2. SessionTypes' /\ DriverTypes'
      BY <1>13, <2>1 DEF ReplayDone, SessionTypes, DriverTypes
    <2>3. BrokerTypes'
      BY <1>13, BrokerKeeps DEF ReplayDone, BrokerTypes
    <2>4. /\ attempt' \in [Listeners -> 0..AttemptCap]
          /\ after' \in [Listeners -> {"l_top", "l_exit"} \cup Statuses]
      <3>1. 0 \in 0..AttemptCap
        BY MqttAssumptions
      <3> QED BY <1>13, <3>1 DEF ReplayDone, ListenerTypes
    <2>5. ListenerTypes'
      BY <1>13, <2>4 DEF ReplayDone, ListenerTypes
    <2>6. /\ \A h \in Listeners \ {g} : cmd'[h] = cmd[h] /\ after'[h] = after[h]
          /\ Goto(g, "l_clrerr") \/ (Goto(g, "l_giveup") /\ after'[g] = "l_exit")
      BY <1>13 DEF ReplayDone, ListenerTypes
    <2>7. Control'
      BY <1>13, <2>6, TaskStep DEF ReplayDone, clientVars, ListenerPoints
    <2> QED BY <1>13, <2>2, <2>3, <2>5, <2>7, SameValues DEF ReplayDone
  <1>14. CASE ListenSetError(g, "l_clrerr", FALSE, "l_top")
    <2>1. Control'
      BY <1>14, TaskMoves DEF ListenSetError, clientVars, listenerVars, ListenerPoints
    <2>2. error' \in BOOLEAN
      BY <1>14, Zenon DEF ListenSetError
    <2>3. DriverTypes'
      BY <1>14, <2>2 DEF ListenSetError, DriverTypes
    <2> QED BY <1>14, <2>1, <2>3, SameValues DEF ListenSetError
  <1>15. CASE ListenAfterLoop(g)
    <2>1. Control'
      BY <1>15, TaskMoves DEF ListenAfterLoop, clientVars, listenerVars, ListenerPoints
    <2> QED BY <1>15, <2>1, SameValues DEF ListenAfterLoop
  <1>16. CASE ListenCheckStopped(g)
    <2>1. after' \in [Listeners -> {"l_top", "l_exit"} \cup Statuses]
      BY <1>16 DEF ListenCheckStopped, ListenerTypes
    <2>2. ListenerTypes'
      BY <1>16, <2>1 DEF ListenCheckStopped, ListenerTypes
    <2>3. after'[g] = "l_exit" /\ \A h \in Listeners \ {g} : cmd'[h] = cmd[h] /\ after'[h] = after[h]
      BY <1>16 DEF ListenCheckStopped, ListenerTypes
    <2>4. Control'
      BY <1>16, <2>3, TaskStep DEF ListenCheckStopped, clientVars, ListenerPoints
    <2> QED BY <1>16, <2>2, <2>4, SameValues DEF ListenCheckStopped
  <1>17. CASE ListenSetError(g, "l_giveup", TRUE, "f_ann")
    <2>1. after[g] \in {"l_top", "l_exit"}
      BY <1>17 DEF ListenSetError, Control, TasksFit
    <2>2. Control'
      BY <1>17, <2>1, TaskStep DEF ListenSetError, clientVars, listenerVars, ListenerPoints
    <2>3. error' \in BOOLEAN
      BY <1>17, Zenon DEF ListenSetError
    <2>4. DriverTypes'
      BY <1>17, <2>3 DEF ListenSetError, DriverTypes
    <2> QED BY <1>17, <2>2, <2>4, SameValues DEF ListenSetError
  <1>18. CASE Announce(g, "f_ann", "Failed", "f_flag")
    <2>1. after[g] \in {"l_top", "l_exit"}
      BY <1>18 DEF Announce, Control, TasksFit
    <2>2. Control'
      BY <1>18, <2>1, TaskStep DEF Announce, clientVars, listenerVars, ListenerPoints
    <2>3. DriverTypes'
      BY <1>18 DEF Announce, DriverTypes, Statuses
    <2> QED BY <1>18, <2>2, <2>3, SameValues DEF Announce
  <1>19. CASE ListenLowerFlag(g, "f_flag", after[g]) \/ ListenLowerFlag(g, "l_flag", "l_final")
    <2>1. pc[g] = "f_flag" => after[g] \in {"l_top", "l_exit"}
      BY DEF Control, TasksFit
    <2>2. Control'
      BY <1>19, <2>1, TaskMoves DEF ListenLowerFlag, clientVars, listenerVars, ListenerPoints
    <2>3. running' \in BOOLEAN
      BY <1>19, Zenon DEF ListenLowerFlag
    <2>4. DriverTypes'
      BY <1>19, <2>3 DEF ListenLowerFlag, DriverTypes
    <2> QED BY <1>19, <2>2, <2>4, SameValues DEF ListenLowerFlag
  <1>20. CASE ListenDropSender(g)
    <2>1. Control'
      BY <1>20, TaskMoves DEF ListenDropSender, clientVars, listenerVars, ListenerPoints
    <2>2. DriverTypes'
      BY <1>20, Kinds DEF ListenDropSender, DriverTypes
    <2> QED BY <1>20, <2>1, <2>2, SameValues DEF ListenDropSender
  <1>21. CASE ListenFinalStatus(g)
    <2>1. after' \in [Listeners -> {"l_top", "l_exit"} \cup Statuses]
      BY <1>21 DEF ListenFinalStatus, ListenerTypes, Statuses
    <2>2. ListenerTypes'
      BY <1>21, <2>1 DEF ListenFinalStatus, ListenerTypes
    <2>3. after'[g] \in Statuses /\ \A h \in Listeners \ {g} : cmd'[h] = cmd[h] /\ after'[h] = after[h]
      BY <1>21 DEF ListenFinalStatus, ListenerTypes, Statuses
    <2>4. Control'
      BY <1>21, <2>3, TaskStep DEF ListenFinalStatus, clientVars, ListenerPoints
    <2> QED BY <1>21, <2>2, <2>4, SameValues DEF ListenFinalStatus
  <1>22. CASE ListenEnd(g)
    <2>1. announced' \in Statuses
      <3>1. pc[g] = "l_ann" /\ announced' = after[g]
        BY <1>22 DEF ListenEnd
      <3> QED BY <3>1 DEF Control, TasksFit
    <2>2. DriverTypes'
      BY <1>22, <2>1 DEF ListenEnd, DriverTypes
    <2>3. resp' \in [Clients -> {"none", "ok", "err", "closed"}]
      BY <1>22 DEF ListenEnd, ClientTypes
    <2>4. ClientTypes'
      BY <1>22, <2>3 DEF ListenEnd, ClientTypes
    <2>5. 0 \in 0..AttemptCap /\ <<>> \in Seq(Requests)
      BY MqttAssumptions
    <2>6. /\ chan' \in [Listeners -> Seq(Requests)] /\ attempt' \in [Listeners -> 0..AttemptCap]
          /\ path' \in [Listeners -> {"cmd", "read"}]
          /\ after' \in [Listeners -> {"l_top", "l_exit"} \cup Statuses]
      BY <1>22, <2>5 DEF ListenEnd, ListenerTypes
    <2>7. ListenerTypes'
      BY <1>22, <2>6 DEF ListenEnd, ListenerTypes
    <2>8. \A h \in Listeners \ {g} : cmd'[h] = cmd[h] /\ after'[h] = after[h]
      BY <1>22 DEF ListenEnd, ListenerTypes
    <2>9. Control'
      BY <1>22, <2>8, TaskStep DEF ListenEnd, ListenerPoints
    <2> QED BY <1>22, <2>2, <2>4, <2>7, <2>9, SameValues DEF ListenEnd
  <1> QED BY <1>1, <1>2, <1>3, <1>4, <1>5, <1>6, <1>7, <1>8, <1>9, <1>10, <1>11, <1>12, <1>13, <1>14, <1>15,
             <1>16, <1>17, <1>18, <1>19, <1>20, <1>21, <1>22 DEF ListenerTask

-----------------------------------------------------------------------------
\* Every step keeps the invariant.
LEMMA NextIInv == IInv /\ [Next]_vars => IInv'
  <1> SUFFICES ASSUME IInv, [Next]_vars PROVE IInv'
    OBVIOUS
  <1>1. CASE UNCHANGED vars
    <2>1. Control'
      BY <1>1, NobodyMoves DEF vars, clientVars, listenerVars
    <2> QED BY <1>1, <2>1, SameValues DEF vars, IInv, Values
  <1> QED BY <1>1, NetworkStep, EnsureStep, RequestStep, LifecycleStep, ListenerStep DEF Next

\* Every field, local and channel of the driver keeps its type, in whatever way the
\* callers, the listener tasks and the network interleave.
THEOREM TypeCorrect == Spec => []TypeOK
  <1>1. IInv => TypeOK
    BY TypeParts DEF IInv, Control
  <1> QED BY <1>1, InitIInv, NextIInv, PTL DEF Spec

-----------------------------------------------------------------------------
(* The recovery queue.                                                     *)

\* Where requests enter and leave the recovery queue and the replays.
LEMMA RecoverySteps ==
    ASSUME IInv, [Next]_vars
    PROVE  \/ UNCHANGED <<recq, queueLeft, lost>> /\ delivered \subseteq delivered'
           \/ (\E r \in Requests : Enqueue(r)) /\ UNCHANGED <<queueLeft, delivered>>
           \/ \E g \in Listeners : ReplayDrain(g)
           \/ \E g \in Listeners : ReplayQueued(g)
  <1> DEFINE Quiet == UNCHANGED <<recq, queueLeft, lost>> /\ delivered \subseteq delivered'
             Moved == \/ (\E r \in Requests : Enqueue(r)) /\ UNCHANGED <<queueLeft, delivered>>
                      \/ \E g \in Listeners : ReplayDrain(g)
                      \/ \E g \in Listeners : ReplayQueued(g)
  <1> SUFFICES Quiet \/ Moved
    OBVIOUS
  <1> USE DEF driverVars, brokerVars, listenerVars
  <1>1. \A i, r, ok : Exchange(i, r, ok) => delivered \subseteq delivered'
    BY DEF Exchange, Receive
  <1>2. ASSUME NEW p \in Procs, EnsureConnected(p) PROVE Quiet
    BY <1>2 DEF EnsureConnected, EnsureCheck, EnsureDial, EnsureRead, EnsureEval, EnsureInstall
  <1>3. ASSUME NEW c \in Clients, RequestCall(c) PROVE Quiet \/ Moved
    <2>1. CASE Park(c) \/ Repark(c)
      <3>1. op[c] \in Requests
        BY <2>1 DEF IInv, Control, CallsFit, RequestPoints, Park, Repark
      <3> QED BY <2>1, <3>1 DEF Park, Repark
    <2>2. CASE DirectExchange(c)
      BY <1>1, <2>2 DEF DirectExchange
    <2>3. CASE \/ \E r \in Requests : CallRequest(c, r)
               \/ CheckRunning(c) \/ CloneSender(c) \/ SendCommand(c) \/ AwaitResponse(c)
               \/ TakeSession(c) \/ RestoreSession(c) \/ ClearSession(c) \/ Requeue(c) \/ Return(c)
      BY <2>3 DEF CallRequest, CheckRunning, CloneSender, SendCommand, AwaitResponse, TakeSession,
         RestoreSession, ClearSession, Requeue, Return
    <2> QED BY <1>3, <2>1, <2>2, <2>3 DEF RequestCall
  <1>4. ASSUME NEW c \in Clients, LifecycleCall(c) PROVE Quiet
    BY <1>4 DEF LifecycleCall, CallLifecycle, SwapRunning, ClearError, Announce, SetSender, Spawn, StoreHandle,
       StopFlag, StopSender, StopTakeHandle, StopJoin, StatusFlag, StatusError, StopSession
  <1>5. ASSUME NEW g \in Listeners, ListenerTask(g) PROVE Quiet \/ Moved
    <2>1. CASE ReplayDrain(g) \/ ReplayQueued(g)
      BY <2>1
    <2>2. CASE ListenExecute(g) \/ ReplaySubscription(g)
      BY <1>1, <2>2 DEF ListenExecute, ReplaySubscription
    <2>3. CASE \/ ListenTop(g) \/ ListenTake(g) \/ ListenNextCommand(g) \/ ListenRead(g)
               \/ ListenClear(g, "l_clear") \/ ListenClear(g, "r_fail")
               \/ ListenRetry(g) \/ ListenWake(g) \/ ListenGot(g) \/ ReplayStart(g) \/ ReplayDone(g)
      BY <2>3 DEF ListenTop, ListenTake, ListenNextCommand, ListenRead, ListenClear, ListenRetry, ListenWake,
         ListenGot, ReplayStart, ReplayDone
    <2>4. CASE \/ ListenSetError(g, "l_clrerr", FALSE, "l_top") \/ ListenAfterLoop(g) \/ ListenCheckStopped(g)
               \/ ListenSetError(g, "l_giveup", TRUE, "f_ann") \/ Announce(g, "f_ann", "Failed", "f_flag")
               \/ ListenLowerFlag(g, "f_flag", after[g]) \/ ListenDropSender(g)
               \/ ListenLowerFlag(g, "l_flag", "l_final") \/ ListenFinalStatus(g) \/ ListenEnd(g)
      BY <2>4 DEF ListenSetError, ListenAfterLoop, ListenCheckStopped, Announce, ListenLowerFlag,
         ListenDropSender, ListenFinalStatus, ListenEnd
    <2> QED BY <1>5, <2>1, <2>2, <2>3, <2>4 DEF ListenerTask
  <1>6. ASSUME NEW i \in Conns, NetDrop(i) \/ LateAnswer(i) PROVE Quiet
    BY <1>6 DEF NetDrop, LateAnswer
  <1>7. CASE UNCHANGED vars
    BY <1>7 DEF vars
  <1> HIDE DEF Quiet, Moved
  <1> QED BY <1>2, <1>3, <1>4, <1>5, <1>6, <1>7 DEF Next

\* However callers park requests and listeners drain them, the recovery queue never
\* exceeds max_queued_requests, for every limit but zero: with that one the code drops
\* nothing from an empty queue and keeps one request.
THEOREM QueueIsBounded == ASSUME MaxQueued > 0 PROVE Spec => []QueueBounded
  <1>1. Init => IInv /\ QueueBounded
    <2>1. Init => QueueBounded
      BY MqttAssumptions DEF Init, QueueBounded
    <2> QED BY <2>1, InitIInv
  <1>2. IInv /\ QueueBounded /\ [Next]_vars => IInv' /\ QueueBounded'
    <2> SUFFICES ASSUME IInv, QueueBounded, [Next]_vars PROVE QueueBounded'
      BY NextIInv
    <2>1. CASE UNCHANGED recq
      BY <2>1 DEF QueueBounded
    <2>2. CASE \E r \in Requests : Enqueue(r)
      BY <2>2, EnqueueKeeps DEF QueueBounded, IInv, Values, DriverTypes
    <2>3. CASE \E g \in Listeners : ReplayDrain(g)
      <3>1. recq' = <<>>
        BY <2>3 DEF ReplayDrain
      <3> QED BY <3>1, MqttAssumptions DEF QueueBounded
    <2>4. CASE \E g \in Listeners : ReplayQueued(g)
      BY <2>4 DEF ReplayQueued, driverVars, QueueBounded
    <2> QED BY <2>1, <2>2, <2>3, <2>4, RecoverySteps
  <1> QED BY <1>1, <1>2, PTL DEF Spec

-----------------------------------------------------------------------------
(* Sessions, with a broker that answers CONNECT within the read of the handshake. *)

\* No connection starts to be dialled.
NoDial == \A i \in Conns : conn'[i] = "dialing" => conn[i] = "dialing"

\* Only EnsureDial dials.
LEMMA NobodyDials ==
    ASSUME IInv
    PROVE  /\ UNCHANGED conn => NoDial
           /\ \A S : Close(S) => NoDial
           /\ \A i : Accept(i) => NoDial
           /\ \A i, r, ok : Exchange(i, r, ok) => NoDial
  <1>1. \A S : Close(S) => NoDial
    BY DEF Close, NoDial
  <1>2. \A i : Accept(i) => NoDial
    BY DEF Accept, NoDial
  <1>3. UNCHANGED conn => NoDial
    BY DEF NoDial
  <1>4. \A i, r, ok : Exchange(i, r, ok) => NoDial
    BY <1>1, <1>3 DEF Exchange
  <1> QED BY <1>1, <1>2, <1>3, <1>4

\* A process moves and at most passes its session to or from the slot.
LEMMA SessionMoves ==
    ASSUME IInv, Sessions, NEW p \in Procs, pc[p] # "ec_read", NEW x, Goto(p, x), NoDial,
           \A q \in Procs \ {p} : sess'[q] = sess[q],
           sess'[p] \in {sess[p], 0, slot}, slot' \in {slot, 0, sess[p]},
           x \in HoldPoints => sess'[p] # 0
    PROVE  Sessions'
  <1>1. pc'[p] = x /\ \A q \in Procs : q # p => pc'[q] = pc[q]
    BY DEF Goto, IInv, Control, PointTypes
  <1>2. slot \in 0..MaxConns /\ \A q \in Procs : sess[q] \in 0..MaxConns
    BY DEF IInv, Values, DriverTypes, SessionTypes
  <1>3. \A i \in 0..MaxConns : i # 0 => i \in Conns
    BY Kinds DEF Conns
  <1>4. \A i \in 0..MaxConns : i # 0 /\ conn[i] # "dialing" => conn'[i] # "dialing"
    BY <1>3 DEF NoDial
  <1>5. SessionsHeld'
    BY <1>1 DEF Sessions, SessionsHeld
  <1>6. ParkedSessionAccepted'
    BY <1>2, <1>4 DEF Sessions, NotDialing, ParkedSessionAccepted
  <1>7. \A q \in Procs : sess'[q] # 0 /\ pc'[q] # "ec_read" => conn'[sess'[q]] # "dialing"
    BY <1>1, <1>2, <1>4 DEF Sessions, NotDialing, ParkedSessionAccepted
  <1> QED BY <1>5, <1>6, <1>7 DEF Sessions, NotDialing

\* Steps that leave every session where it is.
LEMMA SessionsStay ==
    ASSUME IInv, Sessions, NoDial, UNCHANGED <<slot, sess>>,
           \A q \in Procs : /\ pc'[q] \in HoldPoints => pc[q] \in HoldPoints
                            /\ pc[q] = "ec_read" => pc'[q] = "ec_read"
    PROVE  Sessions'
  <1>1. slot \in 0..MaxConns /\ \A q \in Procs : sess[q] \in 0..MaxConns
    BY DEF IInv, Values, DriverTypes, SessionTypes
  <1>2. \A i \in 0..MaxConns : i # 0 => i \in Conns
    BY Kinds DEF Conns
  <1>3. \A i \in 0..MaxConns : i # 0 /\ conn[i] # "dialing" => conn'[i] # "dialing"
    BY <1>2 DEF NoDial
  <1>4. SessionsHeld'
    BY DEF Sessions, SessionsHeld
  <1>5. NotDialing'
    BY <1>1, <1>3 DEF Sessions, NotDialing, ParkedSessionAccepted
  <1> QED BY <1>4, <1>5 DEF Sessions

\* Initially there is no session.
LEMMA SessionsInit == Init => Sessions
  BY DEF Init, Sessions, SessionsHeld, NotDialing, ParkedSessionAccepted, HoldPoints

\* The handshake parks only a session whose CONNECT was answered.
LEMMA EnsureSessions ==
    ASSUME IInv, Sessions, SlowBroker = FALSE, NEW p \in Procs, EnsureConnected(p)
    PROVE  Sessions'
  <1> USE DEF brokerVars, driverVars
  <1>1. ASSUME pc[p] \in EnsurePoints, NEW ok \in BOOLEAN
        PROVE  AfterConnect(p, ok) \notin HoldPoints /\ AfterConnect(p, ok) # "ec_read"
    BY <1>1, AfterConnectFits, Kinds DEF HoldPoints
  <1>2. CASE EnsureCheck(p)
    BY <1>1, <1>2, NobodyDials, SessionMoves DEF EnsureCheck, EnsurePoints, HoldPoints
  <1>3. CASE EnsureDial(p)
    <2>1. CASE Goto(p, AfterConnect(p, FALSE)) /\ UNCHANGED <<conn, sess>>
      BY <1>1, <1>3, <2>1, NobodyDials, SessionMoves DEF EnsureDial, EnsurePoints
    <2>2. CASE \E i \in Conns : /\ FreeConn(i) /\ conn' = [conn EXCEPT ![i] = "dialing"]
                                /\ sess' = [sess EXCEPT ![p] = i] /\ Goto(p, "ec_read")
      <3>1. PICK i \in Conns : /\ FreeConn(i) /\ conn' = [conn EXCEPT ![i] = "dialing"]
                               /\ sess' = [sess EXCEPT ![p] = i] /\ Goto(p, "ec_read")
        BY <2>2
      <3>2. /\ pc'[p] = "ec_read" /\ \A q \in Procs : q # p => pc'[q] = pc[q]
            /\ sess'[p] = i /\ \A q \in Procs : q # p => sess'[q] = sess[q]
        BY <3>1 DEF Goto, IInv, Control, PointTypes, Values, SessionTypes
      <3>3. i # slot /\ (\A q \in Procs : sess[q] # i) /\ slot' = slot
        BY <1>3, <3>1 DEF FreeConn, EnsureDial
      <3>4. \A j \in Conns : j # i => conn'[j] = conn[j]
        BY <3>1 DEF IInv, Values, BrokerTypes
      <3>5. slot \in 0..MaxConns /\ \A q \in Procs : sess[q] \in 0..MaxConns
        BY DEF IInv, Values, DriverTypes, SessionTypes
      <3>6. /\ \A j \in 0..MaxConns : j # 0 => j \in Conns
            /\ i # 0
        BY Kinds DEF Conns
      <3>7. SessionsHeld'
        BY <3>2, <3>6 DEF Sessions, SessionsHeld
      <3>8. ParkedSessionAccepted'
        BY <3>3, <3>4, <3>5, <3>6 DEF Sessions, NotDialing, ParkedSessionAccepted
      <3>9. \A q \in Procs : sess'[q] # 0 /\ pc'[q] # "ec_read" => conn'[sess'[q]] # "dialing"
        BY <3>2, <3>3, <3>4, <3>5, <3>6 DEF Sessions, NotDialing
      <3> QED BY <3>7, <3>8, <3>9 DEF Sessions, NotDialing
    <2> QED BY <1>3, <2>1, <2>2 DEF EnsureDial
  <1>4. CASE EnsureRead(p)
    <2> DEFINE i == sess[p]
    <2>1. pc[p] = "ec_read" /\ pc[p] \in EnsurePoints
      BY <1>4 DEF EnsureRead, EnsurePoints
    <2>2. i \in Conns
      <3>1. i # 0 /\ i \in 0..MaxConns
        BY <2>1 DEF Sessions, SessionsHeld, HoldPoints, IInv, Values, SessionTypes
      <3> QED BY <3>1, Kinds DEF Conns
    <2>3. \/ sess' = sess /\ conn'[i] # "dialing" /\ Goto(p, "ec_eval")
          \/ sess' = [sess EXCEPT ![p] = 0] /\ Goto(p, AfterConnect(p, FALSE))
      BY <1>4, <2>2 DEF EnsureRead, Accept, Close
    <2>4. NoDial /\ slot' = slot
      BY <1>4, NobodyDials DEF EnsureRead
    <2>5. /\ \A q \in Procs : q # p => pc'[q] = pc[q] /\ sess'[q] = sess[q]
          /\ \/ pc'[p] = "ec_eval" /\ sess'[p] = i /\ conn'[i] # "dialing"
             \/ pc'[p] = AfterConnect(p, FALSE) /\ sess'[p] = 0
      BY <2>3 DEF Goto, IInv, Control, PointTypes, Values, SessionTypes
    <2>6. slot \in 0..MaxConns /\ \A q \in Procs : sess[q] \in 0..MaxConns
      BY DEF IInv, Values, DriverTypes, SessionTypes
    <2>7. \A j \in 0..MaxConns : j # 0 /\ conn[j] # "dialing" => conn'[j] # "dialing"
      BY <2>4, Kinds DEF NoDial, Conns
    <2>8. i # 0
      BY <2>2, Kinds DEF Conns
    <2> HIDE DEF i
    <2>9. SessionsHeld'
      BY <1>1, <2>1, <2>5, <2>8 DEF Sessions, SessionsHeld
    <2>10. ParkedSessionAccepted'
      BY <2>4, <2>6, <2>7 DEF Sessions, NotDialing, ParkedSessionAccepted
    <2>11. \A q \in Procs : sess'[q] # 0 /\ pc'[q] # "ec_read" => conn'[sess'[q]] # "dialing"
      BY <2>5, <2>6, <2>7 DEF Sessions, NotDialing
    <2> QED BY <2>9, <2>10, <2>11 DEF Sessions, NotDialing
  <1>5. CASE EnsureEval(p)
    <2>1. pc[p] = "ec_eval" /\ pc[p] \in EnsurePoints /\ sess[p] # 0
      BY <1>5 DEF EnsureEval, EnsurePoints, Sessions, SessionsHeld, HoldPoints
    <2>2. NoDial /\ slot' = slot
      BY <1>5, NobodyDials DEF EnsureEval
    <2>3. \/ sess' = sess /\ Goto(p, "ec_read")
          \/ sess' = sess /\ Goto(p, "ec_install")
          \/ sess' = [sess EXCEPT ![p] = 0] /\ Goto(p, AfterConnect(p, FALSE))
      BY <1>5 DEF EnsureEval, IInv, Values, DriverTypes
    <2>4. /\ \A q \in Procs \ {p} : sess'[q] = sess[q]
          /\ sess'[p] \in {sess[p], 0, slot}
      BY <2>3 DEF IInv, Values, SessionTypes
    <2> QED BY <1>1, <2>1, <2>2, <2>3, <2>4, SessionMoves
  <1>6. CASE EnsureInstall(p)
    <2>1. pc[p] = "ec_install" /\ pc[p] \in EnsurePoints
      BY <1>6 DEF EnsureInstall, EnsurePoints
    <2>2. NoDial /\ slot' \in {slot, sess[p]} /\ Goto(p, AfterConnect(p, TRUE))
      BY <1>6, NobodyDials DEF EnsureInstall
    <2>3. sess'[p] = 0 /\ \A q \in Procs \ {p} : sess'[q] = sess[q]
      BY <1>6 DEF EnsureInstall, IInv, Values, SessionTypes
    <2> QED BY <1>1, <2>1, <2>2, <2>3, SessionMoves
  <1> QED BY <1>2, <1>3, <1>4, <1>5, <1>6 DEF EnsureConnected

\* Callers keep it so.
LEMMA ClientSessions ==
    ASSUME IInv, Sessions, NEW c \in Clients, RequestCall(c) \/ LifecycleCall(c)
    PROVE  Sessions'
  <1> USE DEF brokerVars, driverVars
  <1>1. c \in Procs
    BY Kinds
  <1>2. ASSUME NEW x, Goto(c, x), x \notin HoldPoints, pc[c] # "ec_read", UNCHANGED <<slot, sess, conn>>
        PROVE  Sessions'
    BY <1>1, <1>2, NobodyDials, SessionMoves
  <1>3. CASE \/ \E r \in Requests : CallRequest(c, r)
             \/ CheckRunning(c) \/ CloneSender(c) \/ SendCommand(c) \/ AwaitResponse(c) \/ Park(c)
             \/ Requeue(c) \/ Repark(c) \/ Return(c)
    BY <1>2, <1>3 DEF HoldPoints, CallRequest, CheckRunning, CloneSender, SendCommand, AwaitResponse, Park,
       Requeue, Repark, Return
  <1>4. CASE TakeSession(c)
    <2>1. /\ \A q \in Procs \ {c} : sess'[q] = sess[q]
          /\ \/ slot # 0 /\ sess'[c] = slot /\ slot' = 0 /\ Goto(c, "io")
             \/ sess'[c] = sess[c] /\ slot' = slot /\ Goto(c, "ret_err")
      BY <1>1, <1>4 DEF TakeSession, IInv, Values, SessionTypes
    <2> QED BY <1>1, <1>4, <2>1, NobodyDials, SessionMoves DEF TakeSession, HoldPoints
  <1>5. CASE DirectExchange(c)
    <2>1. sess[c] # 0
      BY <1>1, <1>5 DEF DirectExchange, Sessions, SessionsHeld, HoldPoints
    <2> QED BY <1>1, <1>5, <2>1, NobodyDials, SessionMoves DEF DirectExchange
  <1>6. CASE RestoreSession(c) \/ ClearSession(c)
    <2>1. sess'[c] = 0 /\ \A q \in Procs \ {c} : sess'[q] = sess[q]
      BY <1>1, <1>6 DEF RestoreSession, ClearSession, IInv, Values, SessionTypes
    <2> QED BY <1>1, <1>6, <2>1, NobodyDials, SessionMoves DEF RestoreSession, ClearSession, HoldPoints
  <1>7. ASSUME NEW o \in LifecycleOps, CallLifecycle(c, o) PROVE Sessions'
    <2>1. o \in AllOps
      BY MqttAssumptions
    <2>2. \E x \in {"ec_check", "p_flag", "x_clear"} : Goto(c, x)
      BY <1>7, <2>1 DEF CallLifecycle, AllOps
    <2> QED BY <1>2, <1>7, <2>2 DEF CallLifecycle, HoldPoints
  <1>8. CASE SwapRunning(c) \/ Spawn(c)
    <2>1. \A q \in Procs : /\ pc'[q] \in HoldPoints => pc[q] \in HoldPoints
                           /\ pc[q] = "ec_read" => pc'[q] = "ec_read"
      <3>1. CASE SwapRunning(c)
        BY <3>1 DEF SwapRunning, Goto, FreeListener, IInv, Control, PointTypes, HoldPoints
      <3>2. CASE Spawn(c)
        <4>1. pc[gen[c]] = "ready" /\ gen[c] \in Listeners
          BY <3>2 DEF Spawn, IInv, Control, StartsOwnTask, StartPoints
        <4> QED BY <3>2, <4>1 DEF Spawn, IInv, Control, PointTypes, HoldPoints
      <3> QED BY <1>8, <3>1, <3>2
    <2> QED BY <1>8, <2>1, NobodyDials, SessionsStay DEF SwapRunning, Spawn
  <1>9. CASE StopSession(c)
    BY <1>1, <1>9, NobodyDials, SessionMoves DEF StopSession, HoldPoints
  <1>10. CASE \/ ClearError(c, "s_clear", "s_stopped") \/ ClearError(c, "x_clear", "x_ann")
              \/ Announce(c, "s_stopped", "Stopped", "s_running")
              \/ Announce(c, "s_running", "Running", "s_sender")
              \/ Announce(c, "p_ann", stat[c], IF op[c] = "stop" THEN "p_take" ELSE "ret_ok")
              \/ Announce(c, "q_ann", stat[c], "ret_ok") \/ Announce(c, "x_ann", "Stopped", "ret_ok")
    BY <1>2, <1>10 DEF HoldPoints, ClearError, Announce
  <1>11. CASE \/ StatusFlag(c, "p_status", "p_err", "p_ann") \/ StatusFlag(c, "q_status", "q_err", "q_ann")
              \/ StatusError(c, "p_err", "p_ann") \/ StatusError(c, "q_err", "q_ann")
    BY <1>2, <1>11 DEF HoldPoints, StatusFlag, StatusError
  <1>12. CASE \/ SetSender(c) \/ StoreHandle(c) \/ StopFlag(c) \/ StopSender(c) \/ StopTakeHandle(c)
              \/ StopJoin(c)
    BY <1>2, <1>12 DEF HoldPoints, SetSender, StoreHandle, StopFlag, StopSender, StopTakeHandle, StopJoin
  <1> QED BY <1>3, <1>4, <1>5, <1>6, <1>7, <1>8, <1>9, <1>10, <1>11, <1>12 DEF RequestCall, LifecycleCall

\* Listener tasks keep it so.
LEMMA TaskSessions ==
    ASSUME IInv, Sessions, NEW g \in Listeners, ListenerTask(g)
    PROVE  Sessions'
  <1> USE DEF brokerVars, driverVars
  <1>1. g \in Procs
    BY Kinds
  <1>2. ASSUME NEW x, Goto(g, x), x \in HoldPoints => pc[g] \in HoldPoints, pc[g] # "ec_read",
               UNCHANGED <<slot, sess>>, NoDial
        PROVE  Sessions'
    BY <1>1, <1>2, SessionMoves DEF Sessions, SessionsHeld
  <1>3. CASE \/ ListenTop(g) \/ ListenNextCommand(g) \/ ListenRetry(g) \/ ListenWake(g) \/ ReplayStart(g)
             \/ ReplayDrain(g)
    BY <1>2, <1>3, NobodyDials DEF HoldPoints, ListenTop, ListenNextCommand, ListenRetry, ListenWake, ReplayStart,
       ReplayDrain
  <1>4. CASE ListenTake(g) \/ ListenGot(g)
    <2>1. sess'[g] = slot /\ slot' = 0 /\ \A q \in Procs \ {g} : sess'[q] = sess[q]
      BY <1>1, <1>4 DEF ListenTake, ListenGot, IInv, Values, SessionTypes
    <2> QED BY <1>1, <1>4, <2>1, NobodyDials, SessionMoves DEF ListenTake, ListenGot, HoldPoints
  <1>5. CASE ListenExecute(g) \/ ReplaySubscription(g) \/ ReplayQueued(g)
    <2>1. NoDial
      BY <1>5, NobodyDials DEF ListenExecute, ReplaySubscription, ReplayQueued
    <2> QED BY <1>2, <1>5, <2>1 DEF ListenExecute, ReplaySubscription, ReplayQueued, HoldPoints
  <1>6. CASE ListenRead(g)
    <2>1. CASE conn[sess[g]] # "down"
      <3>1. /\ sess'[g] = 0 /\ slot' = sess[g] /\ \A q \in Procs \ {g} : sess'[q] = sess[q]
            /\ Close({slot}) /\ (Goto(g, "l_top") \/ Goto(g, "l_giveup")) /\ pc[g] = "l_read"
        BY <1>1, <1>6, <2>1 DEF ListenRead, IInv, Values, SessionTypes
      <3> QED BY <1>1, <3>1, NobodyDials, SessionMoves DEF HoldPoints
    <2>2. CASE conn[sess[g]] = "down"
      BY <1>2, <1>6, <2>2, NobodyDials DEF ListenRead, HoldPoints
    <2> QED BY <2>1, <2>2
  <1>7. CASE ListenClear(g, "l_clear") \/ ListenClear(g, "r_fail")
    <2>1. sess'[g] = 0 /\ slot' = 0 /\ \A q \in Procs \ {g} : sess'[q] = sess[q]
      BY <1>1, <1>7 DEF ListenClear, IInv, Values, SessionTypes
    <2> QED BY <1>1, <1>7, <2>1, NobodyDials, SessionMoves DEF ListenClear, HoldPoints
  <1>8. CASE ReplayDone(g)
    <2>1. /\ sess'[g] = 0 /\ slot' = sess[g] /\ \A q \in Procs \ {g} : sess'[q] = sess[q]
          /\ Close({slot}) /\ (Goto(g, "l_clrerr") \/ Goto(g, "l_giveup")) /\ pc[g] = "r_done"
      BY <1>1, <1>8 DEF ReplayDone, IInv, Values, SessionTypes
    <2> QED BY <1>1, <2>1, NobodyDials, SessionMoves DEF HoldPoints
  <1>9. CASE \/ ListenSetError(g, "l_clrerr", FALSE, "l_top") \/ ListenAfterLoop(g) \/ ListenCheckStopped(g)
             \/ ListenSetError(g, "l_giveup", TRUE, "f_ann") \/ Announce(g, "f_ann", "Failed", "f_flag")
             \/ ListenDropSender(g) \/ ListenLowerFlag(g, "l_flag", "l_final") \/ ListenFinalStatus(g)
             \/ ListenEnd(g)
    BY <1>2, <1>9, NobodyDials DEF HoldPoints, ListenSetError, ListenAfterLoop, ListenCheckStopped, Announce,
       ListenLowerFlag, ListenDropSender, ListenFinalStatus, ListenEnd
  <1>10. CASE ListenLowerFlag(g, "f_flag", after[g])
    <2>1. after[g] \in {"l_top", "l_exit"}
      BY <1>10 DEF ListenLowerFlag, IInv, Control, TasksFit
    <2> QED BY <1>2, <1>10, <2>1, NobodyDials DEF ListenLowerFlag, HoldPoints
  <1> QED BY <1>3, <1>4, <1>5, <1>6, <1>7, <1>8, <1>9, <1>10 DEF ListenerTask

\* Every step keeps it so.
LEMMA NextSessions ==
    ASSUME IInv, Sessions, SlowBroker = FALSE, [Next]_vars
    PROVE  Sessions'
  <1>1. ASSUME NEW i \in Conns, NetDrop(i) \/ LateAnswer(i) PROVE Sessions'
    <2>1. NoDial
      BY <1>1, NobodyDials DEF NetDrop, LateAnswer
    <2> QED BY <1>1, <2>1, SessionsStay DEF NetDrop, LateAnswer, driverVars
  <1>2. CASE UNCHANGED vars
    BY <1>2, NobodyDials, SessionsStay DEF vars, driverVars, brokerVars
  <1> QED BY <1>1, <1>2, EnsureSessions, ClientSessions, TaskSessions DEF Next

-----------------------------------------------------------------------------
(* No accepted request is lost unaccounted.                                *)

\* A successful exchange on an accepted session has delivered its request.
LEMMA ExchangeDelivers ==
    ASSUME IInv, Sessions, NEW p \in Procs, pc[p] \in {"io", "l_exec", "r_subs", "r_queue"},
           NEW r, NEW ok \in BOOLEAN, Exchange(sess[p], r, ok), ok
    PROVE  r \in delivered'
  <1>1. sess[p] # 0
    BY DEF Sessions, SessionsHeld, HoldPoints
  <1>2. conn[sess[p]] # "dialing"
    BY <1>1 DEF Sessions, NotDialing
  <1> QED BY <1>2 DEF Exchange, Receive

\* A listener task that leaves the sending of its drained requests has none left, and
\* every other step lets it go on.
LEMMA DrainedStays ==
    ASSUME IInv, Losses, [Next]_vars
    PROVE  DrainedInReplay'
  <1> USE DEF driverVars, brokerVars, listenerVars
  <1>1. ASSUME UNCHANGED queueLeft, \A g \in Listeners : pc[g] = "r_queue" => pc'[g] = "r_queue"
        PROVE  DrainedInReplay'
    BY <1>1 DEF Losses, DrainedInReplay
  <1>2. ASSUME NEW p \in Procs, NEW x, Goto(p, x), pc[p] # "r_queue"
        PROVE  \A g \in Listeners : pc[g] = "r_queue" => pc'[g] = "r_queue"
    BY <1>2, Kinds DEF Goto, IInv, Control, PointTypes
  <1>3. ASSUME NEW p \in Procs, EnsureConnected(p) PROVE DrainedInReplay'
    BY <1>1, <1>2, <1>3 DEF EnsureConnected, EnsureCheck, EnsureDial, EnsureRead, EnsureEval, EnsureInstall
  <1>4. ASSUME NEW c \in Clients, RequestCall(c) PROVE DrainedInReplay'
    <2>1. c \in Procs
      BY Kinds
    <2>2. UNCHANGED queueLeft /\ pc[c] # "r_queue" /\ \E x : Goto(c, x)
      BY <1>4 DEF RequestCall, CallRequest, CheckRunning, CloneSender, SendCommand, AwaitResponse, Park, TakeSession,
         DirectExchange, RestoreSession, ClearSession, Requeue, Repark, Return
    <2> QED BY <1>1, <1>2, <2>1, <2>2
  <1>5. ASSUME NEW c \in Clients, LifecycleCall(c) PROVE DrainedInReplay'
    <2>1. c \in Procs
      BY Kinds
    <2>2. CASE SwapRunning(c) \/ Spawn(c)
      <3>1. CASE SwapRunning(c)
        <4>1. \A g \in Listeners : pc[g] = "r_queue" => pc'[g] = "r_queue"
          BY <2>1, <3>1, Kinds DEF SwapRunning, Goto, FreeListener, IInv, Control, PointTypes
        <4> QED BY <1>1, <3>1, <4>1 DEF SwapRunning
      <3>2. CASE Spawn(c)
        <4>1. pc[gen[c]] = "ready" /\ gen[c] \in Listeners
          BY <3>2 DEF Spawn, IInv, Control, StartsOwnTask, StartPoints
        <4>2. \A g \in Listeners : pc[g] = "r_queue" => pc'[g] = "r_queue"
          BY <3>2, <4>1, Kinds DEF Spawn, IInv, Control, PointTypes
        <4> QED BY <1>1, <3>2, <4>2 DEF Spawn
      <3> QED BY <2>2, <3>1, <3>2
    <2>3. CASE ~(SwapRunning(c) \/ Spawn(c))
      <3>1. UNCHANGED queueLeft /\ pc[c] # "r_queue" /\ \E x : Goto(c, x)
        BY <1>5, <2>3 DEF LifecycleCall, CallLifecycle, ClearError, Announce, SetSender, StoreHandle, StopFlag,
           StopSender, StopTakeHandle, StopJoin, StatusFlag, StatusError, StopSession
      <3> QED BY <1>1, <1>2, <2>1, <3>1
    <2> QED BY <2>2, <2>3
  <1>6. ASSUME NEW g \in Listeners, ListenerTask(g) PROVE DrainedInReplay'
    <2>1. g \in Procs
      BY Kinds
    <2>2. CASE ReplayDrain(g)
      <3>1. pc'[g] = "r_queue" /\ \A h \in Listeners : h # g => pc'[h] = pc[h] /\ queueLeft'[h] = queueLeft[h]
        BY <2>1, <2>2, Kinds DEF ReplayDrain, Goto, IInv, Control, PointTypes, Values, ListenerTypes
      <3> QED BY <3>1 DEF Losses, DrainedInReplay
    <2>3. CASE ReplayQueued(g)
      <3>1. /\ \A h \in Listeners : h # g => pc'[h] = pc[h] /\ queueLeft'[h] = queueLeft[h]
            /\ pc'[g] = "r_queue" \/ queueLeft'[g] = <<>>
        BY <2>1, <2>3, Kinds DEF ReplayQueued, Goto, IInv, Control, PointTypes, Values, ListenerTypes
      <3> QED BY <3>1 DEF Losses, DrainedInReplay
    <2>4. CASE \/ ListenTop(g) \/ ListenTake(g) \/ ListenNextCommand(g) \/ ListenExecute(g) \/ ListenRead(g)
               \/ ListenClear(g, "l_clear") \/ ListenClear(g, "r_fail")
               \/ ListenRetry(g) \/ ListenWake(g) \/ ListenGot(g) \/ ReplayStart(g) \/ ReplaySubscription(g)
               \/ ReplayDone(g)
      <3>1. UNCHANGED queueLeft /\ pc[g] # "r_queue" /\ \E x : Goto(g, x)
        BY <2>4 DEF ListenTop, ListenTake, ListenNextCommand, ListenExecute, ListenRead, ListenClear, ListenRetry,
           ListenWake, ListenGot, ReplayStart, ReplaySubscription, ReplayDone
      <3> QED BY <1>1, <1>2, <2>1, <3>1
    <2>5. CASE \/ ListenSetError(g, "l_clrerr", FALSE, "l_top") \/ ListenAfterLoop(g) \/ ListenCheckStopped(g)
               \/ ListenSetError(g, "l_giveup", TRUE, "f_ann") \/ Announce(g, "f_ann", "Failed", "f_flag")
               \/ ListenLowerFlag(g, "f_flag", after[g]) \/ ListenDropSender(g)
               \/ ListenLowerFlag(g, "l_flag", "l_final") \/ ListenFinalStatus(g) \/ ListenEnd(g)
      <3>1. UNCHANGED queueLeft /\ pc[g] # "r_queue" /\ \E x : Goto(g, x)
        BY <2>5 DEF ListenSetError, ListenAfterLoop, ListenCheckStopped, Announce, ListenLowerFlag,
           ListenDropSender, ListenFinalStatus, ListenEnd
      <3> QED BY <1>1, <1>2, <2>1, <3>1
    <2> QED BY <1>6, <2>2, <2>3, <2>4, <2>5 DEF ListenerTask
  <1>7. ASSUME NEW i \in Conns, NetDrop(i) \/ LateAnswer(i) PROVE DrainedInReplay'
    BY <1>1, <1>7 DEF NetDrop, LateAnswer
  <1>8. CASE UNCHANGED vars
    BY <1>1, <1>8 DEF vars
  <1> QED BY <1>3, <1>4, <1>5, <1>6, <1>7, <1>8 DEF Next

\* What is accounted for stays so: a request leaves the queue for a replay or, thrown
\* away, for `lost', and a replay for the broker or for `lost'.
LEMMA AccountedStays ==
    ASSUME IInv, Sessions, Losses, [Next]_vars, NEW r, Accounted(r)
    PROVE  Accounted(r)' /\ delivered \subseteq delivered'
  <1>1. /\ r \in delivered \/ r \in lost \/ r \in Range(recq) \/ \E g \in Listeners : r \in Range(queueLeft[g])
        /\ \/ r \in delivered' \/ r \in lost' \/ r \in Range(recq')
           \/ \E g \in Listeners : r \in Range(queueLeft'[g])
           => Accounted(r)'
    BY DEF Accounted, Waiting
  <1>2. CASE UNCHANGED <<recq, queueLeft, lost>> /\ delivered \subseteq delivered'
    BY <1>1, <1>2
  <1>3. CASE (\E s \in Requests : Enqueue(s)) /\ UNCHANGED <<queueLeft, delivered>>
    <2>1. lost \subseteq lost' /\ Range(recq) \subseteq Range(recq') \cup lost'
      BY <1>3, EnqueueKeeps DEF IInv, Values, DriverTypes
    <2> QED BY <1>1, <1>3, <2>1
  <1>4. ASSUME NEW g \in Listeners, ReplayDrain(g) PROVE Accounted(r)' /\ delivered \subseteq delivered'
    <2>1. /\ queueLeft'[g] = recq /\ \A h \in Listeners : h # g => queueLeft'[h] = queueLeft[h]
          /\ UNCHANGED <<delivered, lost>>
      BY <1>4 DEF ReplayDrain, brokerVars, IInv, Values, ListenerTypes
    <2>2. queueLeft[g] = <<>>
      BY <1>4 DEF ReplayDrain, Losses, DrainedInReplay
    <2>3. Range(queueLeft[g]) = {}
      BY <2>2 DEF Range
    <2> QED BY <1>1, <2>1, <2>3
  <1>5. ASSUME NEW g \in Listeners, ReplayQueued(g) PROVE Accounted(r)' /\ delivered \subseteq delivered'
    <2> DEFINE q == queueLeft[g]
    <2>1. q \in Seq(Requests) /\ g \in Procs /\ pc[g] = "r_queue"
      BY <1>5, Kinds DEF ReplayQueued, IInv, Values, ListenerTypes
    <2>2. UNCHANGED recq
      BY <1>5 DEF ReplayQueued, driverVars
    <2>3. CASE q = <<>>
      BY <1>1, <1>5, <2>2, <2>3 DEF ReplayQueued, brokerVars
    <2>4. CASE q # <<>>
      <3>1. PICK ok \in BOOLEAN :
               /\ Exchange(sess[g], Head(q), ok)
               /\ queueLeft' = [queueLeft EXCEPT ![g] = IF ok THEN Tail(q) ELSE <<>>]
               /\ lost' = IF ok THEN lost ELSE lost \cup Range(q)
        BY <1>5, <2>4 DEF ReplayQueued
      <3>2. \A h \in Listeners : h # g => queueLeft'[h] = queueLeft[h]
        BY <3>1 DEF IInv, Values, ListenerTypes
      <3>3. delivered \subseteq delivered' /\ lost \subseteq lost'
        BY <3>1 DEF Exchange, Receive
      <3>4. CASE ~ok
        BY <1>1, <2>2, <3>1, <3>2, <3>3, <3>4
      <3>5. CASE ok
        <4>1. Head(q) \in delivered'
          BY <2>1, <3>1, <3>5, ExchangeDelivers
        <4>2. queueLeft'[g] = Tail(q)
          BY <3>1, <3>5 DEF IInv, Values, ListenerTypes
        <4>3. Range(q) \subseteq {Head(q)} \cup Range(Tail(q))
          <5>1. /\ Len(q) \in Nat \ {0} /\ DOMAIN q = 1..Len(q) /\ Tail(q) \in Seq(Requests)
                /\ DOMAIN Tail(q) = 1..(Len(q) - 1) /\ Head(q) = q[1]
                /\ \A i \in 1..(Len(q) - 1) : Tail(q)[i] = q[i + 1]
            BY <2>1, <2>4, HeadTailProperties, LenProperties
          <5> HIDE DEF q
          <5> SUFFICES ASSUME NEW i \in DOMAIN q PROVE q[i] \in {Head(q)} \cup Range(Tail(q))
            BY DEF Range
          <5>2. CASE i = 1
            BY <5>1, <5>2
          <5>3. CASE i # 1
            <6>1. i - 1 \in 1..(Len(q) - 1)
              BY <5>1, <5>3
            <6>2. Tail(q)[i - 1] = q[i]
              BY <5>1, <6>1
            <6> QED BY <5>1, <6>1, <6>2 DEF Range
          <5> QED BY <5>2, <5>3
        <4> QED BY <1>1, <2>2, <3>2, <3>3, <4>1, <4>2, <4>3
      <3> QED BY <3>4, <3>5
    <2> QED BY <2>3, <2>4
  <1> QED BY <1>2, <1>3, <1>4, <1>5, RecoverySteps

\* The broker does not forget what it has received.
LEMMA DeliveredGrows ==
    ASSUME IInv, [Next]_vars
    PROVE  delivered \subseteq delivered'
  <1>1. \A i, r, ok : Exchange(i, r, ok) => delivered \subseteq delivered'
    BY DEF Exchange, Receive
  <1>2. \A g \in Listeners : ReplayDrain(g) \/ ReplayQueued(g) => delivered \subseteq delivered'
    BY <1>1 DEF ReplayDrain, ReplayQueued, brokerVars
  <1> QED BY <1>2, RecoverySteps

\* OkAccounted for one caller.
OkFor(c) ==
    /\ resp[c] = "ok" => pc[c] = "await" /\ op[c] \in delivered
    /\ pc[c] = "restore" => op[c] \in delivered
    /\ pc[c] = "ret_ok" /\ op[c] \in Requests => Accounted(op[c])

\* Nothing changes for a caller that a step does not move, even when its answer is
\* that the command failed.
LEMMA OkForOthers ==
    ASSUME IInv, Sessions, Losses, [Next]_vars, NEW c \in Clients,
           pc'[c] = pc[c], op'[c] = op[c], resp'[c] = resp[c] \/ resp'[c] # "ok"
    PROVE  OkFor(c)'
  <1>1. OkFor(c)
    BY DEF Losses, OkAccounted, OkFor
  <1>2. resp'[c] = "ok" => pc'[c] = "await" /\ op'[c] \in delivered'
    BY <1>1, DeliveredGrows DEF OkFor
  <1>3. pc'[c] = "restore" => op'[c] \in delivered'
    BY <1>1, DeliveredGrows DEF OkFor
  <1>4. \A r : r \in delivered \cup Waiting \cup lost => r \in delivered' \cup Waiting' \cup lost'
    BY AccountedStays DEF Accounted
  <1>5. pc'[c] = "ret_ok" /\ op'[c] \in Requests => op'[c] \in delivered' \cup Waiting' \cup lost'
    BY <1>1, <1>4 DEF OkFor, Accounted
  <1> QED BY <1>2, <1>3, <1>5 DEF OkFor, Accounted

\* A caller that moves is told Ok only for a request that is accounted for.
LEMMA OkForMover ==
    ASSUME IInv, NEW c \in Clients, resp'[c] # "ok",
           pc'[c] = "restore" => op'[c] \in delivered',
           pc'[c] = "ret_ok" /\ op'[c] \in Requests => op'[c] \in delivered' \cup Waiting' \cup lost'
    PROVE  OkFor(c)'
  BY DEF OkFor, Accounted

\* Where ensure_connected_async goes.
LEMMA EnsureGoes ==
    ASSUME IInv, NEW p \in Procs, EnsureConnected(p)
    PROVE  /\ pc[p] \in EnsurePoints /\ UNCHANGED <<op, resp>>
           /\ \E x \in EnsurePoints \cup {AfterConnect(p, TRUE), AfterConnect(p, FALSE)} : Goto(p, x)
  BY DEF EnsureConnected, EnsureCheck, EnsureDial, EnsureRead, EnsureEval, EnsureInstall, EnsurePoints,
     clientVars, IInv, Values, DriverTypes

\* Every step keeps the promise of Ok.
LEMMA OkStep ==
    ASSUME IInv, Sessions, Losses, QueueEnabled = TRUE, [Next]_vars
    PROVE  OkAccounted'
  <1> SUFFICES ASSUME NEW d \in Clients PROVE OkFor(d)'
    BY DEF OkAccounted, OkFor
  <1> USE DEF clientVars
  <1>0. \A c \in Clients : OkFor(c) /\ (pc[c] # "await" => resp[c] # "ok")
    BY DEF Losses, OkAccounted, OkFor
  <1>1. ASSUME NEW p \in Procs, NEW x, Goto(p, x)
        PROVE  pc'[p] = x /\ \A q \in Procs : q # p => pc'[q] = pc[q]
    BY <1>1 DEF Goto, IInv, Control, PointTypes
  <1>2. ASSUME NEW p \in Procs, EnsureConnected(p) PROVE OkFor(d)'
    <2>1. PICK x \in EnsurePoints \cup {AfterConnect(p, TRUE), AfterConnect(p, FALSE)} : Goto(p, x)
      BY <1>2, EnsureGoes
    <2>2. pc[p] \in EnsurePoints /\ UNCHANGED <<op, resp>>
      BY <1>2, EnsureGoes
    <2>3. CASE d # p
      BY <1>1, <2>1, <2>2, <2>3, OkForOthers, Kinds
    <2>4. CASE d = p
      <3>1. pc'[d] = x /\ resp'[d] # "ok"
        BY <1>0, <1>1, <2>1, <2>2, <2>4 DEF EnsurePoints
      <3>2. x # "restore" /\ (x = "ret_ok" => op[d] = "connect")
        BY <2>1, <2>2, <2>4, AfterConnectFits DEF EnsurePoints
      <3>3. "connect" \notin Requests
        BY MqttAssumptions DEF AllOps
      <3> QED BY <2>2, <3>1, <3>2, <3>3, OkForMover
    <2> QED BY <2>3, <2>4
  <1>3. ASSUME NEW c \in Clients, NEW x, Goto(c, x), d # c, UNCHANGED resp \/ resp'[d] = resp[d], op'[d] = op[d]
        PROVE  OkFor(d)'
    <2>1. c \in Procs /\ d \in Procs
      BY Kinds
    <2> QED BY <1>1, <1>3, <2>1, OkForOthers
  <1>4. ASSUME NEW c \in Clients, RequestCall(c), d # c PROVE OkFor(d)'
    <2>1. /\ \E x : Goto(c, x)
          /\ op'[d] = op[d] /\ resp'[d] = resp[d]
      BY <1>4 DEF RequestCall, CallRequest, CheckRunning, CloneSender, SendCommand, AwaitResponse, Park, TakeSession,
         DirectExchange, RestoreSession, ClearSession, Requeue, Repark, Return, IInv, Values, ClientTypes
    <2> QED BY <1>3, <1>4, <2>1
  <1>5. ASSUME NEW c \in Clients, RequestCall(c), d = c PROVE OkFor(d)'
    <2>1. c \in Procs /\ \A x : Goto(c, x) => pc'[c] = x
      BY <1>1, Kinds
    <2>2. ASSUME NEW r \in Requests, CallRequest(c, r) PROVE OkFor(d)'
      BY <1>0, <1>5, <2>1, <2>2, OkForMover DEF CallRequest
    <2>3. CASE CheckRunning(c) \/ CloneSender(c) \/ SendCommand(c) \/ TakeSession(c) \/ ClearSession(c) \/ Requeue(c)
      <3>1. resp' = resp /\ pc[c] # "await" /\ pc'[c] \notin {"restore", "ret_ok"}
        BY <2>1, <2>3 DEF CheckRunning, CloneSender, SendCommand, TakeSession, ClearSession, Requeue
      <3> QED BY <1>0, <1>5, <3>1, OkForMover
    <2>4. CASE AwaitResponse(c)
      <3>1. resp'[c] = "none" /\ op' = op
        BY <2>4 DEF AwaitResponse, IInv, Values, ClientTypes
      <3>2. pc'[c] \in {"ret_ok", "ret_err", "park"} /\ (pc'[c] = "ret_ok" => resp[c] = "ok")
        BY <2>1, <2>4 DEF AwaitResponse
      <3>3. resp[c] = "ok" => op[c] \in delivered'
        BY <1>0, DeliveredGrows DEF OkFor
      <3> QED BY <1>5, <3>1, <3>2, <3>3, OkForMover
    <2>5. CASE Park(c) \/ Repark(c)
      <3>1. op[c] \in Requests /\ UNCHANGED <<op, resp>> /\ pc[c] # "await"
        BY <2>5 DEF Park, Repark, IInv, Control, CallsFit, RequestPoints
      <3>2. Enqueue(op[c]) /\ pc'[c] = "ret_ok"
        BY <2>1, <2>5 DEF Park, Repark
      <3>3. op[c] \in Range(recq') \cup lost'
        BY <3>1, <3>2, EnqueueKeeps DEF IInv, Values, DriverTypes
      <3>4. op[c] \in delivered' \cup Waiting' \cup lost'
        BY <3>3 DEF Waiting
      <3> QED BY <1>0, <1>5, <3>1, <3>2, <3>4, OkForMover
    <2>6. CASE DirectExchange(c)
      <3>1. PICK ok \in BOOLEAN : Exchange(sess[c], op[c], ok) /\ Goto(c, IF ok THEN "restore" ELSE "clear")
        BY <2>6 DEF DirectExchange
      <3>2. pc[c] = "io" /\ UNCHANGED <<op, resp>>
        BY <2>6 DEF DirectExchange
      <3>3. ok => op[c] \in delivered'
        BY <2>1, <3>1, <3>2, ExchangeDelivers
      <3>4. pc'[c] = IF ok THEN "restore" ELSE "clear"
        BY <2>1, <3>1
      <3> QED BY <1>0, <1>5, <3>2, <3>3, <3>4, OkForMover
    <2>7. CASE RestoreSession(c)
      <3>1. pc[c] = "restore" /\ UNCHANGED <<op, resp>> /\ pc'[c] \in {"ret_ok", "ret_err"}
        BY <2>1, <2>7 DEF RestoreSession
      <3>2. op[c] \in delivered'
        BY <1>0, <3>1, DeliveredGrows DEF OkFor
      <3> QED BY <1>0, <1>5, <3>1, <3>2, OkForMover
    <2>8. CASE Return(c)
      <3>1. pc[c] \in {"ret_ok", "ret_err"} /\ resp' = resp /\ pc'[c] = "idle"
        BY <2>1, <2>8 DEF Return
      <3> QED BY <1>0, <1>5, <3>1, OkForMover
    <2> QED BY <1>5, <2>2, <2>3, <2>4, <2>5, <2>6, <2>7, <2>8 DEF RequestCall
  <1>6. ASSUME NEW c \in Clients, LifecycleCall(c) PROVE OkFor(d)'
    <2>1. c \in Procs
      BY Kinds
    <2>2. /\ resp' = resp /\ \A e \in Clients : e # c => op'[e] = op[e]
          /\ pc[c] \in CallPoints \cup {"idle"}
      BY <1>6 DEF LifecycleCall, CallLifecycle, SwapRunning, ClearError, Announce, SetSender, Spawn, StoreHandle,
         StopFlag, StopSender, StopTakeHandle, StopJoin, StatusFlag, StatusError, StopSession, CallPoints,
         StartPoints, IInv, Values, ClientTypes
    <2>3. \A e \in Clients : e # c => pc'[e] = pc[e]
      <3>1. CASE SwapRunning(c)
        BY <2>1, <3>1, Kinds DEF SwapRunning, Goto, IInv, Control, PointTypes
      <3>2. CASE Spawn(c)
        <4>1. gen[c] \in Listeners
          BY <3>2 DEF Spawn, IInv, Control, StartsOwnTask, StartPoints
        <4> QED BY <3>2, <4>1, Kinds DEF Spawn, IInv, Control, PointTypes
      <3>3. CASE ~(SwapRunning(c) \/ Spawn(c))
        <4>1. \E x : Goto(c, x)
          BY <1>6, <3>3 DEF LifecycleCall, CallLifecycle, ClearError, Announce, SetSender, StoreHandle, StopFlag,
             StopSender, StopTakeHandle, StopJoin, StatusFlag, StatusError, StopSession
        <4> QED BY <1>1, <2>1, <4>1, Kinds
      <3> QED BY <3>1, <3>2, <3>3
    <2>4. CASE d # c
      BY <2>2, <2>3, <2>4, OkForOthers
    <2>5. CASE d = c
      <3>1. op'[c] \in AllOps
        <4>1. ASSUME NEW o \in LifecycleOps, CallLifecycle(c, o) PROVE op'[c] \in AllOps
          BY <4>1, MqttAssumptions DEF CallLifecycle, IInv, Values, ClientTypes
        <4>2. CASE ~ \E o \in LifecycleOps : CallLifecycle(c, o)
          <5>1. op' = op /\ pc[c] \in CallPoints
            BY <1>6, <4>2 DEF LifecycleCall, SwapRunning, ClearError, Announce, SetSender, Spawn, StoreHandle,
               StopFlag, StopSender, StopTakeHandle, StopJoin, StatusFlag, StatusError, StopSession, CallPoints,
               StartPoints
          <5> QED BY <5>1 DEF IInv, Control, CallsFit
        <4> QED BY <4>1, <4>2
      <3>2. op'[c] \notin Requests
        BY <3>1, MqttAssumptions
      <3>3. pc'[c] # "restore"
        <4>1. IInv'
          BY NextIInv
        <4>2. "restore" \in RequestPoints
          BY DEF RequestPoints
        <4> QED BY <3>2, <4>1, <4>2 DEF IInv, Control, CallsFit
      <3>4. pc[c] # "await"
        BY <2>2 DEF CallPoints, StartPoints
      <3> QED BY <1>0, <2>2, <2>5, <3>2, <3>3, <3>4, OkForMover
    <2> QED BY <2>4, <2>5
  <1>7. ASSUME NEW g \in Listeners, ListenerTask(g) PROVE OkFor(d)'
    <2>1. g \in Procs /\ d \in Procs /\ d # g
      BY Kinds
    <2>2. (\E x : Goto(g, x)) /\ op' = op
      BY <1>7 DEF ListenerTask, ListenTop, ListenTake, ListenNextCommand, ListenExecute, ListenRead, ListenClear,
         ListenRetry, ListenWake, ListenGot, ReplayStart, ReplaySubscription, ReplayDrain, ReplayQueued,
         ReplayDone, ListenSetError, ListenAfterLoop, ListenCheckStopped, Announce, ListenLowerFlag,
         ListenDropSender, ListenFinalStatus, ListenEnd
    <2>3. pc'[d] = pc[d] /\ op'[d] = op[d]
      BY <1>1, <2>1, <2>2
    <2>4. CASE ListenExecute(g)
      <3>1. PICK ok \in BOOLEAN : Exchange(sess[g], cmd[g], ok) /\ Respond(cmd[g], IF ok THEN "ok" ELSE "err")
        BY <2>4 DEF ListenExecute
      <3>2. CASE pc[d] = "await" /\ op[d] = cmd[g] /\ ok
        <4>1. cmd[g] \in delivered'
          BY <2>1, <2>4, <3>1, <3>2, ExchangeDelivers DEF ListenExecute
        <4> QED BY <2>3, <3>2, <4>1 DEF OkFor
      <3>3. CASE ~(pc[d] = "await" /\ op[d] = cmd[g] /\ ok)
        <4>1. resp'[d] = resp[d] \/ resp'[d] = "err"
          BY <3>1, <3>3 DEF Respond
        <4> QED BY <2>3, <4>1, OkForOthers
      <3> QED BY <3>2, <3>3
    <2>5. CASE ListenEnd(g)
      <3>1. resp'[d] = resp[d] \/ resp'[d] = "closed"
        BY <2>5 DEF ListenEnd
      <3> QED BY <2>3, <3>1, OkForOthers
    <2>6. CASE ~(ListenExecute(g) \/ ListenEnd(g))
      <3>1. resp' = resp
        BY <1>7, <2>6 DEF ListenerTask, ListenTop, ListenTake, ListenNextCommand, ListenRead, ListenClear,
           ListenRetry, ListenWake, ListenGot, ReplayStart, ReplaySubscription, ReplayDrain, ReplayQueued,
           ReplayDone, ListenSetError, ListenAfterLoop, ListenCheckStopped, Announce, ListenLowerFlag,
           ListenDropSender, ListenFinalStatus
      <3> QED BY <2>3, <3>1, OkForOthers
    <2> QED BY <2>4, <2>5, <2>6
  <1>8. ASSUME NEW i \in Conns, NetDrop(i) \/ LateAnswer(i) PROVE OkFor(d)'
    BY <1>8, OkForOthers DEF NetDrop, LateAnswer
  <1>9. CASE UNCHANGED vars
    BY <1>9, OkForOthers DEF vars
  <1> QED BY <1>2, <1>4, <1>5, <1>6, <1>7, <1>8, <1>9 DEF Next

\* Every step keeps every accepted request accounted for.
LEMMA NextLosses ==
    ASSUME IInv, Sessions, Losses, QueueEnabled = TRUE, [Next]_vars
    PROVE  Losses'
  <1>1. \A r : r \in delivered \cup Waiting \cup lost => r \in delivered' \cup Waiting' \cup lost'
    BY AccountedStays DEF Accounted
  <1>2. \A r \in Requests : outcome'[r] = "ok" =>
            outcome[r] = "ok" \/ \E c \in Clients : pc[c] = "ret_ok" /\ op[c] = r
    <2> SUFFICES ASSUME NEW r \in Requests, outcome'[r] = "ok", outcome[r] # "ok"
                 PROVE  \E c \in Clients : pc[c] = "ret_ok" /\ op[c] = r
      OBVIOUS
    <2> USE DEF IInv, Values, HistoryTypes
    <2>1. \A c \in Clients, s \in Requests : ~CallRequest(c, s)
      BY DEF CallRequest
    <2>2. \A c \in Clients : Return(c) => pc[c] = "ret_ok" /\ op[c] = r
      BY DEF Return
    <2>3. ASSUME NEW c \in Clients, RequestCall(c) PROVE Return(c)
      BY <2>1, <2>3 DEF RequestCall, CheckRunning, CloneSender, SendCommand, AwaitResponse, Park, TakeSession,
         DirectExchange, RestoreSession, ClearSession, Requeue, Repark
    <2>4. ASSUME NEW c \in Clients, LifecycleCall(c) PROVE FALSE
      BY <2>4 DEF LifecycleCall, CallLifecycle, SwapRunning, ClearError, Announce, SetSender, Spawn, StoreHandle,
         StopFlag, StopSender, StopTakeHandle, StopJoin, StatusFlag, StatusError, StopSession
    <2>5. ASSUME NEW g \in Listeners, ListenerTask(g) PROVE FALSE
      BY <2>5 DEF ListenerTask, ListenTop, ListenTake, ListenNextCommand, ListenExecute, ListenRead, ListenClear,
         ListenRetry, ListenWake, ListenGot, ReplayStart, ReplaySubscription, ReplayDrain, ReplayQueued,
         ReplayDone, ListenSetError, ListenAfterLoop, ListenCheckStopped, Announce, ListenLowerFlag,
         ListenDropSender, ListenFinalStatus, ListenEnd
    <2>6. ASSUME NEW p \in Procs, EnsureConnected(p) PROVE FALSE
      BY <2>6 DEF EnsureConnected, EnsureCheck, EnsureDial, EnsureRead, EnsureEval, EnsureInstall
    <2>7. ASSUME NEW i \in Conns, NetDrop(i) \/ LateAnswer(i) PROVE FALSE
      BY <2>7 DEF NetDrop, LateAnswer
    <2>8. CASE UNCHANGED vars
      BY <2>8 DEF vars
    <2> QED BY <2>2, <2>3, <2>4, <2>5, <2>6, <2>7, <2>8 DEF Next
  <1>3. \A c \in Clients : pc[c] = "ret_ok" /\ op[c] \in Requests => op[c] \in delivered \cup Waiting \cup lost
    BY DEF Losses, OkAccounted, Accounted
  <1>4. LossAccounted'
    BY <1>1, <1>2, <1>3 DEF Losses, LossAccounted
  <1> QED BY <1>4, DrainedStays, OkStep DEF Losses

\* Initially nothing was asked.
LEMMA LossesInit == Init => Losses
  <1> SUFFICES ASSUME Init PROVE Losses
    OBVIOUS
  <1>1. DrainedInReplay /\ LossAccounted
    BY DEF Init, DrainedInReplay, LossAccounted
  <1>2. \A c \in Clients : pc[c] = "idle" /\ resp[c] = "none"
    BY Kinds DEF Init
  <1>3. OkAccounted
    BY <1>2 DEF OkAccounted
  <1> QED BY <1>1, <1>3 DEF Losses

\* With the recovery queue enabled, and a broker that answers CONNECT within the read
\* of the handshake: a publish, subscribe or unsubscribe whose caller was told Ok was
\* received by the broker, waits in the queue or in a replay, or was thrown away by
\* the full queue or by a replay that broke off.  No interleaving of any number of
\* callers and listener tasks with breaking connections loses one in another way.
THEOREM AcceptedRequestsAccounted ==
    ASSUME QueueEnabled = TRUE, SlowBroker = FALSE
    PROVE  Spec => []LossAccounted
  <1>1. Init => IInv /\ Sessions /\ Losses
    BY InitIInv, SessionsInit, LossesInit
  <1>2. IInv /\ Sessions /\ Losses /\ [Next]_vars => IInv' /\ Sessions' /\ Losses'
    BY NextIInv, NextSessions, NextLosses
  <1>3. Losses => LossAccounted
    BY DEF Losses
  <1> QED BY <1>1, <1>2, <1>3, PTL DEF Spec

-----------------------------------------------------------------------------
(* Whose the raised run flag is.                                           *)

Serves(g) == Listening(g) \/ pc[g] = "ready"

\* A process moves from one point to another: if it is a listener that served, it does
\* so where it arrives, or has lowered the flag.
LEMMA ServedMover ==
    ASSUME IInv, RunningServed, NEW p \in Procs, NEW x, Goto(p, x), running' => running,
           p \in Listeners /\ running' =>
               pc[p] \in {"done", "l_exit", "l_flag", "l_final", "l_ann"}
                 \/ x \notin {"done", "l_exit", "l_flag", "l_final", "l_ann"}
    PROVE  RunningServed'
  <1> SUFFICES ASSUME running' PROVE \E g \in Listeners : Serves(g)'
    BY DEF RunningServed, Serves, Listening
  <1>1. PICK g \in Listeners : Serves(g)
    BY DEF RunningServed, Serves
  <1>2. pc'[p] = x /\ \A q \in Procs : q # p => pc'[q] = pc[q]
    BY DEF Goto, IInv, Control, PointTypes
  <1>3. CASE p = g
    BY <1>1, <1>2, <1>3 DEF Serves, Listening
  <1>4. CASE p # g
    BY <1>1, <1>2, <1>4, Kinds DEF Serves, Listening
  <1> QED BY <1>3, <1>4

\* Steps of a caller.
LEMMA ServedClient ==
    ASSUME IInv, RunningServed, NEW c \in Clients, RequestCall(c) \/ LifecycleCall(c)
    PROVE  RunningServed'
  <1> USE DEF driverVars
  <1>1. ASSUME NEW x, Goto(c, x), running' => running PROVE RunningServed'
    BY <1>1, Kinds, ServedMover
  <1>2. CASE RequestCall(c)
    <2>1. running' = running /\ \E x : Goto(c, x)
      BY <1>2 DEF RequestCall, CallRequest, CheckRunning, CloneSender, SendCommand, AwaitResponse, Park,
         TakeSession, DirectExchange, RestoreSession, ClearSession, Requeue, Repark, Return
    <2> QED BY <1>1, <2>1
  <1>3. CASE SwapRunning(c)
    <2>1. CASE running
      BY <1>1, <1>3, <2>1 DEF SwapRunning
    <2>2. CASE ~running
      <3>1. PICK g \in Listeners : pc' = [pc EXCEPT ![c] = "s_clear", ![g] = "ready"]
        BY <1>3, <2>2 DEF SwapRunning
      <3>2. pc'[g] = "ready"
        BY <3>1, Kinds DEF IInv, Control, PointTypes
      <3> QED BY <3>2 DEF RunningServed
    <2> QED BY <2>1, <2>2
  <1>4. CASE Spawn(c)
    <2>1. gen[c] \in Listeners /\ pc' = [pc EXCEPT ![c] = "s_handle", ![gen[c]] = "l_top"]
      BY <1>4 DEF Spawn, IInv, Control, StartsOwnTask, StartPoints
    <2>2. pc'[gen[c]] = "l_top"
      BY <2>1, Kinds DEF IInv, Control, PointTypes
    <2> QED BY <2>1, <2>2 DEF RunningServed, Listening
  <1>5. CASE LifecycleCall(c) /\ ~SwapRunning(c) /\ ~Spawn(c)
    <2>1. (running' = running \/ ~running') /\ \E x : Goto(c, x)
      BY <1>5 DEF LifecycleCall, CallLifecycle, ClearError, Announce, SetSender, StoreHandle, StopFlag,
         StopSender, StopTakeHandle, StopJoin, StatusFlag, StatusError, StopSession
    <2> QED BY <1>1, <2>1
  <1> QED BY <1>2, <1>3, <1>4, <1>5

\* Steps of a listener task: it leaves its loop with the flag down.
LEMMA ServedTask ==
    ASSUME IInv, RunningServed, NEW g \in Listeners, ListenerTask(g)
    PROVE  RunningServed'
  <1> USE DEF driverVars
  <1> DEFINE Out == {"done", "l_exit", "l_flag", "l_final", "l_ann"}
  <1>1. ASSUME NEW x, Goto(g, x), running' => running, pc[g] \in Out \/ x \notin Out \/ ~running'
        PROVE  RunningServed'
    BY <1>1, Kinds, ServedMover
  <1>2. CASE \/ ListenTop(g) \/ ListenTake(g) \/ ListenNextCommand(g) \/ ListenExecute(g) \/ ListenRead(g)
             \/ ListenClear(g, "l_clear") \/ ListenClear(g, "r_fail") \/ ListenRetry(g) \/ ListenWake(g)
             \/ ListenGot(g) \/ ReplayStart(g) \/ ReplaySubscription(g) \/ ReplayDrain(g) \/ ReplayQueued(g)
             \/ ReplayDone(g) \/ ListenAfterLoop(g) \/ ListenCheckStopped(g)
    <2>1. running' = running /\ \E x : Goto(g, x) /\ (x \notin Out \/ ~running)
      BY <1>2 DEF ListenTop, ListenTake, ListenNextCommand, ListenExecute, ListenRead, ListenClear, ListenRetry,
         ListenWake, ListenGot, ReplayStart, ReplaySubscription, ReplayDrain, ReplayQueued, ReplayDone,
         ListenAfterLoop, ListenCheckStopped
    <2> QED BY <1>1, <2>1
  <1>3. CASE \/ ListenSetError(g, "l_clrerr", FALSE, "l_top") \/ ListenSetError(g, "l_giveup", TRUE, "f_ann")
             \/ Announce(g, "f_ann", "Failed", "f_flag")
             \/ ListenLowerFlag(g, "f_flag", after[g]) \/ ListenLowerFlag(g, "l_flag", "l_final")
    <2>1. \/ running' = running /\ \E x \in {"l_top", "f_ann", "f_flag"} : Goto(g, x)
          \/ ~running' /\ \E x : Goto(g, x)
      BY <1>3 DEF ListenSetError, Announce, ListenLowerFlag
    <2> QED BY <1>1, <2>1
  <1>4. CASE ListenDropSender(g) \/ ListenFinalStatus(g) \/ ListenEnd(g)
    <2>1. running' = running /\ pc[g] \in Out /\ \E x : Goto(g, x)
      BY <1>4 DEF ListenDropSender, ListenFinalStatus, ListenEnd
    <2> QED BY <1>1, <2>1
  <1> QED BY <1>2, <1>3, <1>4 DEF ListenerTask

\* Whatever the configuration, the number of callers and listener tasks, and the order
\* in which they start, stop, give up and end: while the run flag is up, some task
\* listens or is about to be spawned.
THEOREM RunningIsServed == Spec => []RunningServed
  <1>1. Init => IInv /\ RunningServed
    BY InitIInv DEF Init, RunningServed
  <1>2. ASSUME IInv, RunningServed, [Next]_vars PROVE IInv' /\ RunningServed'
    <2>1. IInv'
      BY <1>2, NextIInv
    <2>2. ASSUME NEW p \in Procs, EnsureConnected(p) PROVE RunningServed'
      <3>1. pc[p] \in EnsurePoints /\ running' = running
        BY <2>2 DEF EnsureConnected, EnsureCheck, EnsureDial, EnsureRead, EnsureEval, EnsureInstall,
           EnsurePoints, driverVars
      <3>2. PICK x \in EnsurePoints \cup {AfterConnect(p, TRUE), AfterConnect(p, FALSE)} : Goto(p, x)
        BY <1>2, <2>2, EnsureGoes
      <3>3. p \in Listeners => x \in EnsurePoints \cup {"l_got", "l_retry"}
        BY <1>2, <3>1, <3>2, AfterConnectFits
      <3> QED BY <1>2, <3>1, <3>2, <3>3, ServedMover DEF EnsurePoints
    <2>3. UNCHANGED <<running, pc>> => RunningServed'
      BY <1>2 DEF RunningServed, Listening
    <2>4. ASSUME NEW i \in Conns, NetDrop(i) \/ LateAnswer(i) PROVE UNCHANGED <<running, pc>>
      BY <2>4 DEF NetDrop, LateAnswer, driverVars
    <2>5. UNCHANGED vars => RunningServed'
      BY <2>3 DEF vars, driverVars
    <2> QED BY <1>2, <2>1, <2>2, <2>3, <2>4, <2>5, ServedClient, ServedTask DEF Next
  <1> QED BY <1>1, <1>2, PTL DEF Spec

-----------------------------------------------------------------------------
(* What the subscribers of the status were told last.                      *)

\* Where the caller is: starting a task, or stopping one and past the join.
Starting == StartPoints \cup {"s_handle"}
Joined   == {"p_status", "p_err", "p_ann", "p_take", "q_status", "q_err", "q_ann"}

\* The task that caller c, starting or joining it, or the stored handle leads to.
Led(c) == IF pc[c] \in Starting \cup {"p_join"} THEN gen[c] ELSE handle

AllDone == \A g \in Listeners : pc[g] = "done"

\* The status of a driver whose flag is down.
Told == IF error THEN "Failed" ELSE "Stopped"

\* A task that has not ended is the one that is being started, or joined, or that the
\* handle leads to, and no stop is past the join.  From the second store of the flag on
\* a task finds it down, and what it is about to broadcast is still the status; what was
\* broadcast last is, once every task has ended, and so is what a stop is about to.
Reported(c) ==
    /\ \A g \in Listeners : pc[g] # "done" => Led(c) = g /\ pc[c] \notin Joined
    /\ \A g \in Listeners : pc[g] \in {"l_final", "l_ann"} => ~running
    /\ \A g \in Listeners : pc[g] = "l_ann" => after[g] = Told
    /\ AllDone => ~running /\ announced = Told
    /\ pc[c] \in {"p_ann", "q_ann"} => stat[c] = Told
    /\ pc[c] \notin {"x_clear", "x_ann"}

\* A caller moves on without starting or joining anything.
LEMMA ReportedPasser ==
    ASSUME IInv, NEW c \in Clients, Reported(c), NEW x, Goto(c, x),
           pc[c] \notin Starting \cup {"p_join"}, x \notin Starting \cup {"p_join"},
           x \in Joined => pc[c] \in Joined,
           x \in {"p_ann", "q_ann"} => stat'[c] = Told,
           x \notin {"x_clear", "x_ann"},
           UNCHANGED <<running, handle, error, announced, after>>
    PROVE  Reported(c)'
  <1>1. pc'[c] = x /\ \A g \in Listeners : pc'[g] = pc[g]
    BY Kinds DEF Goto, IInv, Control, PointTypes
  <1>2. Led(c)' = Led(c) /\ Told' = Told /\ AllDone' = AllDone
    BY <1>1 DEF Led, Told, AllDone
  <1> QED BY <1>1, <1>2 DEF Reported

\* The task that has not ended moves on, storing and broadcasting what it likes before
\* its last two steps.
LEMMA ReportedMover ==
    ASSUME IInv, NEW c \in Clients, Reported(c), NEW g \in Listeners, pc[g] # "done", NEW x, Goto(g, x),
           x # "done",
           x \in {"l_final", "l_ann"} => ~running',
           x = "l_ann" => after'[g] = Told',
           UNCHANGED <<handle, gen>>
    PROVE  Reported(c)'
  <1>1. pc'[g] = x /\ pc'[c] = pc[c] /\ \A h \in Listeners : h # g => pc'[h] = pc[h]
    BY Kinds DEF Goto, IInv, Control, PointTypes
  <1>2. Led(c)' = Led(c)
    BY <1>1 DEF Led
  <1>3. \A h \in Listeners : h # g => pc'[h] = "done"
    BY <1>1 DEF Reported
  <1>4. ~AllDone' /\ pc[c] \notin Joined
    BY <1>1 DEF AllDone, Reported
  <1> QED BY <1>1, <1>2, <1>3, <1>4 DEF Reported, Joined

\* Initially no task exists, and nothing has been said.
LEMMA ReportedInit == ASSUME NEW c \in Clients PROVE Init => Reported(c)
  <1>1. Init => pc[c] = "idle" /\ \A g \in Listeners : pc[g] = "done"
    BY Kinds DEF Init
  <1>2. Init => ~running /\ announced = Told
    BY DEF Init, Told
  <1> QED BY <1>1, <1>2 DEF Reported, AllDone

\* ensure_connected_async, whoever runs it.
LEMMA ReportedEnsure ==
    ASSUME IInv, NEW c \in Clients, Clients = {c}, Reported(c), NEW p \in Procs, EnsureConnected(p)
    PROVE  Reported(c)'
  <1>1. pc[p] \in EnsurePoints /\ UNCHANGED <<gen, running, handle, error, announced, after>>
    BY DEF EnsureConnected, EnsureCheck, EnsureDial, EnsureRead, EnsureEval, EnsureInstall, EnsurePoints,
       clientVars, driverVars, listenerVars
  <1>2. PICK x \in EnsurePoints \cup {AfterConnect(p, TRUE), AfterConnect(p, FALSE)} : Goto(p, x)
    BY EnsureGoes
  <1>3. CASE p \in Listeners
    <2>1. x \in EnsurePoints \cup {"l_got", "l_retry"} /\ pc[p] # "done"
      BY <1>1, <1>2, <1>3, AfterConnectFits DEF EnsurePoints
    <2> QED BY <1>1, <1>2, <1>3, <2>1, ReportedMover DEF EnsurePoints
  <1>4. CASE p = c
    <2>1. x \in EnsurePoints \cup {"ret_err", "ret_ok", "swap", "take"}
      BY <1>1, <1>2, <1>4, AfterConnectFits
    <2> QED BY <1>1, <1>2, <1>4, <2>1, ReportedPasser DEF EnsurePoints, Starting, StartPoints, Joined
  <1> QED BY <1>3, <1>4, Kinds

\* A request call.
LEMMA ReportedRequest ==
    ASSUME IInv, NEW c \in Clients, Reported(c), RequestCall(c)
    PROVE  Reported(c)'
  <1>1. UNCHANGED <<running, handle, error, announced, after>>
    BY DEF RequestCall, CallRequest, CheckRunning, CloneSender, SendCommand, AwaitResponse, Park, TakeSession,
       DirectExchange, RestoreSession, ClearSession, Requeue, Repark, Return, driverVars, listenerVars
  <1>2. /\ pc[c] \in RequestPoints \cup {"idle", "ret_ok", "ret_err"}
        /\ \E x \in RequestPoints \cup {"ec_check", "ret_ok", "ret_err", "idle"} : Goto(c, x)
    BY DEF RequestCall, CallRequest, CheckRunning, CloneSender, SendCommand, AwaitResponse, Park, TakeSession,
       DirectExchange, RestoreSession, ClearSession, Requeue, Repark, Return, RequestPoints
  <1> QED BY <1>1, <1>2, ReportedPasser DEF RequestPoints, Starting, StartPoints, Joined

\* A lifecycle call: the status a stop broadcasts is read after the join.
LEMMA ReportedLifecycle ==
    ASSUME IInv, NEW c \in Clients, MaxListeners = 1, "clear_error" \notin LifecycleOps, Reported(c),
           LifecycleCall(c)
    PROVE  Reported(c)'
  <1> USE DEF driverVars, clientVars, listenerVars
  <1>1. ASSUME NEW o \in LifecycleOps, CallLifecycle(c, o) PROVE Reported(c)'
    <2>1. o \in AllOps /\ pc[c] = "idle" /\ UNCHANGED <<running, handle, error, announced, after>>
      BY <1>1, MqttAssumptions DEF CallLifecycle
    <2>2. \E x \in {"ec_check", "p_flag"} : Goto(c, x)
      BY <1>1, <2>1 DEF CallLifecycle, AllOps
    <2> QED BY <2>1, <2>2, ReportedPasser DEF Starting, StartPoints, Joined
  <1>2. CASE SwapRunning(c)
    <2>1. CASE running
      <3>1. /\ pc[c] = "swap" /\ Goto(c, "ret_err") /\ running' = TRUE
            /\ UNCHANGED <<handle, error, announced, after>>
        BY <1>2, <2>1 DEF SwapRunning
      <3>2. running' = running
        BY <2>1, <3>1 DEF IInv, Values, DriverTypes
      <3> QED BY <3>1, <3>2, ReportedPasser DEF Starting, StartPoints, Joined
    <2>2. CASE ~running
      <3>1. PICK g \in Listeners : /\ FreeListener(g) /\ gen' = [gen EXCEPT ![c] = g]
                                   /\ pc' = [pc EXCEPT ![c] = "s_clear", ![g] = "ready"]
        BY <1>2, <2>2 DEF SwapRunning
      <3>2. AllDone
        <4>1. \A h \in Listeners : h = g
          BY DEF Listeners
        <4> QED BY <3>1, <4>1 DEF AllDone, FreeListener
      <3>3. /\ pc'[c] = "s_clear" /\ pc'[g] = "ready" /\ gen'[c] = g
            /\ \A h \in Listeners : h # g => pc'[h] = "done"
        BY <3>1, <3>2, Kinds DEF IInv, Control, PointTypes, Values, ClientTypes, AllDone
      <3> QED BY <3>3 DEF Reported, Led, Starting, StartPoints, Joined, AllDone
    <2> QED BY <2>1, <2>2
  <1>3. CASE \/ ClearError(c, "s_clear", "s_stopped") \/ Announce(c, "s_stopped", "Stopped", "s_running")
             \/ Announce(c, "s_running", "Running", "s_sender") \/ SetSender(c)
    <2>1. /\ pc[c] \in StartPoints /\ UNCHANGED <<gen, handle, running, after>>
          /\ \E x \in StartPoints : Goto(c, x)
      BY <1>3 DEF ClearError, Announce, SetSender, StartPoints
    <2>2. gen[c] \in Listeners /\ pc[gen[c]] = "ready"
      BY <2>1 DEF IInv, Control, StartsOwnTask
    <2>3. pc'[c] \in StartPoints /\ \A g \in Listeners : pc'[g] = pc[g]
      BY <2>1, Kinds DEF Goto, IInv, Control, PointTypes
    <2>4. \A g \in Listeners : pc[g] # "done" => g = gen[c]
      BY <2>1 DEF Reported, Led, Starting
    <2> QED BY <2>1, <2>2, <2>3, <2>4 DEF Reported, Led, Starting, StartPoints, Joined, AllDone
  <1>4. CASE Spawn(c)
    <2>1. gen[c] \in Listeners /\ pc[gen[c]] = "ready" /\ pc[c] = "s_spawn"
      BY <1>4 DEF Spawn, IInv, Control, StartsOwnTask, StartPoints
    <2>2. /\ pc'[c] = "s_handle" /\ pc'[gen[c]] = "l_top" /\ gen' = gen
          /\ \A h \in Listeners : h # gen[c] => pc'[h] = pc[h]
      BY <1>4, <2>1, Kinds DEF Spawn, IInv, Control, PointTypes
    <2>3. \A g \in Listeners : pc[g] # "done" => g = gen[c]
      BY <2>1 DEF Reported, Led, Starting, StartPoints
    <2> QED BY <2>1, <2>2, <2>3 DEF Reported, Led, Starting, StartPoints, Joined, AllDone
  <1>5. CASE StoreHandle(c) \/ StopFlag(c) \/ StopSender(c) \/ StopTakeHandle(c) \/ StopJoin(c)
    <2>1. PICK x \in {"ret_ok", "p_sender", "p_handle", "p_status", "p_join"} : Goto(c, x)
      BY <1>5 DEF StoreHandle, StopFlag, StopSender, StopTakeHandle, StopJoin
    <2>2. pc'[c] = x /\ \A g \in Listeners : pc'[g] = pc[g]
      BY <2>1, Kinds DEF Goto, IInv, Control, PointTypes
    <2>3. UNCHANGED <<error, announced, after>> /\ (running' = running \/ ~running')
      BY <1>5 DEF StoreHandle, StopFlag, StopSender, StopTakeHandle, StopJoin
    <2>4. \A g \in Listeners : pc[g] # "done" => Led(c)' = g /\ x \notin Joined
      <3>1. CASE StoreHandle(c)
        <4>1. pc[c] = "s_handle" /\ handle' = gen[c] /\ x = "ret_ok"
          BY <2>2, <3>1 DEF StoreHandle, Goto, IInv, Control, PointTypes, Procs
        <4> QED BY <2>2, <4>1 DEF Reported, Led, Starting, StartPoints, Joined
      <3>2. CASE StopFlag(c) \/ StopSender(c)
        <4>1. pc[c] \in {"p_flag", "p_sender"} /\ handle' = handle /\ x \in {"p_sender", "p_handle"}
          BY <2>2, <3>2 DEF StopFlag, StopSender, Goto, IInv, Control, PointTypes, Procs
        <4> QED BY <2>2, <4>1 DEF Reported, Led, Starting, StartPoints, Joined
      <3>3. CASE StopTakeHandle(c)
        <4>1. /\ pc[c] = "p_handle" /\ gen'[c] = handle /\ x = IF handle = 0 THEN "p_status" ELSE "p_join"
          BY <2>2, <3>3 DEF StopTakeHandle, Goto, IInv, Values, ClientTypes, Control, PointTypes, Procs
        <4>2. \A g \in Listeners : pc[g] # "done" => handle = g /\ g # 0
          BY <4>1, Kinds DEF Reported, Led, Starting, StartPoints
        <4> QED BY <2>2, <4>1, <4>2 DEF Led, Joined
      <3>4. CASE StopJoin(c)
        BY <3>4 DEF StopJoin, Reported, Led
      <3> QED BY <1>5, <3>1, <3>2, <3>3, <3>4
    <2>5. Told' = Told /\ AllDone' = AllDone
      BY <2>2, <2>3 DEF Told, AllDone
    <2> QED BY <2>2, <2>3, <2>4, <2>5 DEF Reported
  <1>6. CASE \/ StatusFlag(c, "p_status", "p_err", "p_ann") \/ StatusFlag(c, "q_status", "q_err", "q_ann")
             \/ StatusError(c, "p_err", "p_ann") \/ StatusError(c, "q_err", "q_ann") \/ StopSession(c)
    <2>1. pc[c] \in Joined /\ UNCHANGED <<running, handle, error, announced, after>>
      BY <1>6 DEF StatusFlag, StatusError, StopSession, Joined
    <2>2. ~running
      BY <2>1 DEF Reported, AllDone
    <2>3. \E x \in Joined : Goto(c, x) /\ (x \in {"p_ann", "q_ann"} => stat'[c] = Told)
      BY <1>6, <2>2 DEF StatusFlag, StatusError, StopSession, Joined, Told, IInv, Values, ClientTypes
    <2> QED BY <2>1, <2>3, ReportedPasser DEF Starting, StartPoints, Joined
  <1>7. CASE \/ Announce(c, "p_ann", stat[c], IF op[c] = "stop" THEN "p_take" ELSE "ret_ok")
             \/ Announce(c, "q_ann", stat[c], "ret_ok")
    <2>1. /\ pc[c] \in {"p_ann", "q_ann"} /\ announced' = stat[c] /\ UNCHANGED <<running, handle, error, after>>
          /\ \E x \in {"p_take", "ret_ok"} : Goto(c, x)
      BY <1>7 DEF Announce
    <2>2. AllDone /\ announced' = announced
      BY <2>1 DEF Reported, AllDone, Joined
    <2> QED BY <2>1, <2>2, ReportedPasser DEF Starting, StartPoints, Joined
  <1>8. ~ClearError(c, "x_clear", "x_ann") /\ ~Announce(c, "x_ann", "Stopped", "ret_ok")
    BY DEF ClearError, Announce, Reported
  <1> QED BY <1>1, <1>2, <1>3, <1>4, <1>5, <1>6, <1>7, <1>8 DEF LifecycleCall

\* The listener task: the flag is down before it reads the error, and nobody touches
\* the error before it has broadcast what it read.
LEMMA ReportedListener ==
    ASSUME IInv, NEW c \in Clients, Reported(c), NEW g \in Listeners, ListenerTask(g)
    PROVE  Reported(c)'
  <1> USE DEF driverVars, clientVars, listenerVars
  <1>1. UNCHANGED <<handle, gen>>
    BY DEF ListenerTask, ListenTop, ListenTake, ListenNextCommand, ListenExecute, ListenRead, ListenClear,
       ListenRetry, ListenWake, ListenGot, ReplayStart, ReplaySubscription, ReplayDrain, ReplayQueued,
       ReplayDone, ListenSetError, ListenAfterLoop, ListenCheckStopped, Announce, ListenLowerFlag,
       ListenDropSender, ListenFinalStatus, ListenEnd
  <1>2. CASE ListenSetError(g, "l_giveup", TRUE, "f_ann")
    <2>1. pc[g] # "done" /\ Goto(g, "f_ann")
      BY <1>2 DEF ListenSetError
    <2> QED BY <1>1, <2>1, ReportedMover
  <1>3. CASE \/ ListenTop(g) \/ ListenTake(g) \/ ListenNextCommand(g) \/ ListenExecute(g) \/ ListenRead(g)
             \/ ListenClear(g, "l_clear") \/ ListenClear(g, "r_fail") \/ ListenRetry(g) \/ ListenWake(g)
             \/ ListenGot(g) \/ ReplayStart(g) \/ ReplaySubscription(g) \/ ReplayDrain(g) \/ ReplayQueued(g)
             \/ ReplayDone(g) \/ ListenAfterLoop(g) \/ ListenCheckStopped(g)
             \/ ListenSetError(g, "l_clrerr", FALSE, "l_top") \/ Announce(g, "f_ann", "Failed", "f_flag")
             \/ ListenDropSender(g)
    <2>1. pc[g] # "done" /\ \E x : Goto(g, x) /\ x \notin {"done", "l_final", "l_ann"}
      BY <1>3 DEF ListenTop, ListenTake, ListenNextCommand, ListenExecute, ListenRead, ListenClear, ListenRetry,
         ListenWake, ListenGot, ReplayStart, ReplaySubscription, ReplayDrain, ReplayQueued, ReplayDone,
         ListenSetError, ListenAfterLoop, ListenCheckStopped, Announce, ListenDropSender
    <2> QED BY <1>1, <2>1, ReportedMover
  <1>4. CASE ListenLowerFlag(g, "f_flag", after[g]) \/ ListenLowerFlag(g, "l_flag", "l_final")
    <2>1. /\ pc[g] # "done" /\ ~running'
          /\ \E x \in {"l_top", "l_exit", "l_final"} : Goto(g, x)
      BY <1>4 DEF ListenLowerFlag, IInv, Control, TasksFit
    <2> QED BY <1>1, <2>1, ReportedMover
  <1>5. CASE ListenFinalStatus(g)
    <2>1. /\ pc[g] = "l_final" /\ Goto(g, "l_ann") /\ UNCHANGED <<running, error>> /\ after'[g] = Told
      BY <1>5 DEF ListenFinalStatus, Told, IInv, Values, ListenerTypes
    <2>2. ~running' /\ Told' = Told
      BY <2>1 DEF Reported, Told
    <2> QED BY <1>1, <2>1, <2>2, ReportedMover
  <1>6. CASE ListenEnd(g)
    <2>1. /\ pc[g] = "l_ann" /\ Goto(g, "done") /\ announced' = after[g] /\ UNCHANGED <<running, error>>
      BY <1>6 DEF ListenEnd
    <2>2. pc'[g] = "done" /\ pc'[c] = pc[c] /\ \A h \in Listeners : h # g => pc'[h] = pc[h]
      BY <2>1, Kinds DEF Goto, IInv, Control, PointTypes
    <2>3. \A h \in Listeners : pc'[h] = "done"
      BY <2>1, <2>2 DEF Reported
    <2>4. ~running' /\ announced' = Told' /\ pc'[c] \notin {"p_ann", "q_ann"}
      BY <2>1, <2>2 DEF Reported, Told, Joined
    <2> QED BY <2>2, <2>3, <2>4 DEF Reported
  <1> QED BY <1>2, <1>3, <1>4, <1>5, <1>6 DEF ListenerTask

\* Every step keeps what was reported.
LEMMA NextReported ==
    ASSUME IInv, NEW c \in Clients, Clients = {c}, MaxListeners = 1, "clear_error" \notin LifecycleOps,
           Reported(c), [Next]_vars
    PROVE  Reported(c)'
  <1>1. ASSUME UNCHANGED <<pc, gen, handle, running, error, announced, after, stat>> PROVE Reported(c)'
    BY <1>1 DEF Reported, Led, Told, AllDone
  <1>2. ASSUME NEW i \in Conns, NetDrop(i) \/ LateAnswer(i) PROVE Reported(c)'
    BY <1>1, <1>2 DEF NetDrop, LateAnswer, driverVars, clientVars, listenerVars
  <1>3. CASE UNCHANGED vars
    BY <1>1, <1>3 DEF vars, driverVars, clientVars, listenerVars
  <1> QED BY <1>2, <1>3, ReportedEnsure, ReportedRequest, ReportedLifecycle, ReportedListener DEF Next

\* With nothing in progress the status is what was reported.
LEMMA ReportedStatus == ASSUME NEW c \in Clients, Reported(c) PROVE AnnouncedStatus
  BY DEF Reported, AnnouncedStatus, Status, Told, AllDone

\* With one caller that never clears an error, and one listener task at a time (a start
\* waits until the previous task has been joined), the last status broadcast is the one
\* listener_status_async reports once everything has come to rest: whatever the sink, the
\* reconnect policy, the broker and the network did to the listener.
THEOREM FailuresAreAnnounced ==
    ASSUME NEW c \in Clients, Clients = {c}, MaxListeners = 1, "clear_error" \notin LifecycleOps
    PROVE  Spec => []AnnouncedStatus
  <1>1. Init => IInv /\ Reported(c)
    BY InitIInv, ReportedInit
  <1>2. IInv /\ Reported(c) /\ [Next]_vars => IInv' /\ Reported(c)'
    BY NextIInv, NextReported
  <1>3. Reported(c) => AnnouncedStatus
    BY ReportedStatus
  <1> QED BY <1>1, <1>2, <1>3, PTL DEF Spec

=============================================================================
