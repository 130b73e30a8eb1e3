----------------------------- MODULE ZenohDriver -----------------------------
(***************************************************************************)
(* The std Zenoh driver of crates/ferredge-proto-zenoh/src/runtime.rs: one *)
(* session behind a mutex, the subscriptions and queryables declared on    *)
(* it, and a background listener that a status mutex and a stop channel    *)
(* control.                                                                *)
(*                                                                         *)
(* The mutexes are modelled as such where a caller keeps one across an     *)
(* await: the session while it talks to Zenoh, the status while start      *)
(* waits for the stop channel, the stop channel while stop waits for the   *)
(* status.  Everything else is one lock section per step.  Task ids are    *)
(* recycled once nothing refers to them.                                   *)
(***************************************************************************)
EXTENDS Naturals, FiniteSets

CONSTANTS
    Clients,       \* tasks that call the driver
    Keys,          \* key expressions
    CallOps,       \* the operations each client calls
    MaxTasks,      \* bound: listener tasks alive or referenced at once
    MaxStarts,     \* bound: start_listening calls in one behaviour
    None           \* nobody, nothing

Tasks      == 1..MaxTasks
SessionOps == {"start", "publish", "subscribe", "unsubscribe",
               "declare_queryable", "undeclare_queryable", "query"}
AllOps     == SessionOps \cup {"stop", "start_listening", "stop_listening"}
Statuses   == {"Stopped", "Running", "Failed"}
ClientPoints == {"idle", "lock", "locked", "l_status", "l_stoptx", "l_running", "l_spawn",
                 "s_stoptx", "s_status", "s_session"}
TaskPoints   == {"done", "ready", "poll", "session", "sinkfail", "end_err", "end_ok"}

ASSUME ZenohAssumptions ==
    /\ MaxTasks \in Nat /\ MaxStarts \in Nat
    /\ Clients \cap Tasks = {} /\ None \notin Clients \cup Nat
    /\ CallOps \in [Clients -> SUBSET AllOps]

VARIABLES
    session,        \* session.is_some()
    subscriptions,  \* key expressions with a subscriber
    queryables,     \* key expressions with a queryable
    sessionLock,    \* the caller that holds the session mutex across an await
    status,         \* *listener_status
    statusLock,     \* the caller that holds the listener_status mutex
    stopTx,         \* *listener_stop_tx: the task it stops, or 0
    stopTxLock,     \* the caller that holds the listener_stop_tx mutex
    pc,             \* program point of each client and task
    op, key,        \* a client's call and its key expression
    gen,            \* the task a start_listening call is about to spawn
    signal,         \* the stop message waits in a task's channel
    starts          \* start_listening calls so far

sessionVars  == <<session, subscriptions, queryables, sessionLock>>
listenerVars == <<status, statusLock, stopTx, stopTxLock, signal>>
callVars     == <<op, key, gen, starts>>
vars == <<sessionVars, listenerVars, pc, callVars>>

Procs == Clients \cup Tasks
Goto(p, point) == pc' = [pc EXCEPT ![p] = point]
FreeTask(t) == pc[t] = "done" /\ stopTx # t /\ \A c \in Clients : gen[c] # t

Init ==
    /\ session = FALSE /\ subscriptions = {} /\ queryables = {}
    /\ sessionLock = None /\ status = "Stopped" /\ statusLock = None
    /\ stopTx = 0 /\ stopTxLock = None
    /\ pc = [p \in Procs |-> IF p \in Clients THEN "idle" ELSE "done"]
    /\ op = [c \in Clients |-> None] /\ key = [c \in Clients |-> None]
    /\ gen = [c \in Clients |-> 0] /\ signal = [t \in Tasks |-> FALSE] /\ starts = 0

-----------------------------------------------------------------------------
(* Calls that work on the session under its mutex.                         *)

Call(c, o, k) ==
    /\ pc[c] = "idle"
    /\ o = "start_listening" => starts < MaxStarts
    /\ op' = [op EXCEPT ![c] = o] /\ key' = [key EXCEPT ![c] = k]
    /\ starts' = IF o = "start_listening" THEN starts + 1 ELSE starts
    /\ Goto(c, CASE o \in SessionOps                -> "lock"
                 [] o = "start_listening"           -> "l_status"
                 [] o \in {"stop", "stop_listening"} -> "s_stoptx")
    /\ UNCHANGED <<sessionVars, listenerVars, gen>>

Done(c) == Goto(c, "idle") /\ op' = [op EXCEPT ![c] = None] /\ key' = [key EXCEPT ![c] = None]

\* The session mutex is taken and kept while Zenoh works.
LockSession(c) ==
    /\ pc[c] = "lock" /\ sessionLock = None
    /\ sessionLock' = c
    /\ Goto(c, "locked")
    /\ UNCHANGED <<session, subscriptions, queryables, listenerVars, callVars>>

\* What each call does to the session, by the time it succeeds: nothing but
\* start works without a session, repeated declarations are accepted as they
\* are, and withdrawing what was not declared is an error that changes nothing.
Effect(o, k) ==
    /\ session' = (session \/ o = "start")
    /\ subscriptions' = CASE session /\ o = "subscribe"   -> subscriptions \cup {k}
                          [] session /\ o = "unsubscribe" -> subscriptions \ {k}
                          [] OTHER                        -> subscriptions
    /\ queryables' = CASE session /\ o = "declare_queryable"   -> queryables \cup {k}
                       [] session /\ o = "undeclare_queryable" -> queryables \ {k}
                       [] OTHER                                -> queryables

\* Zenoh answers, or fails (open, put, declare_subscriber and get may).
FinishSessionCall(c) ==
    /\ pc[c] = "locked"
    /\ \/ Effect(op[c], key[c])
       \/ /\ op[c] \in {"start", "publish", "subscribe", "query"}
          /\ UNCHANGED <<session, subscriptions, queryables>>
    /\ sessionLock' = None
    /\ Done(c)
    /\ UNCHANGED <<listenerVars, gen, starts>>

-----------------------------------------------------------------------------
(* start_listener.                                                         *)

\* Take the status mutex; a listener that is Running is refused.
StartCheck(c) ==
    /\ pc[c] = "l_status" /\ statusLock = None
    /\ IF status = "Running"
         THEN Done(c) /\ UNCHANGED <<statusLock, gen>>
         ELSE /\ \E t \in Tasks :
                   /\ FreeTask(t) /\ \A u \in Tasks : FreeTask(u) => t <= u
                   /\ gen' = [gen EXCEPT ![c] = t]
                   /\ pc' = [pc EXCEPT ![c] = "l_stoptx", ![t] = "ready"]
              /\ statusLock' = c
              /\ UNCHANGED <<op, key>>
    /\ UNCHANGED <<sessionVars, status, stopTx, stopTxLock, signal, starts>>

\* Faulty variant: the stop channel of the wrong task.
StartSetNextStopTx(c) ==
    /\ pc[c] = "l_stoptx" /\ stopTxLock = None
    /\ stopTx' = gen[c] + 1
    /\ Goto(c, "l_running")
    /\ UNCHANGED <<sessionVars, status, statusLock, stopTxLock, signal, callVars>>

\* Still holding it, replace the stop channel.
StartSetStopTx(c) ==
    /\ pc[c] = "l_stoptx" /\ stopTxLock = None
    /\ stopTx' = gen[c]
    /\ Goto(c, "l_running")
    /\ UNCHANGED <<sessionVars, status, statusLock, stopTxLock, signal, callVars>>

StartSetRunning(c) ==
    /\ pc[c] = "l_running"
    /\ status' = "Running" /\ statusLock' = None
    /\ Goto(c, "l_spawn")
    /\ UNCHANGED <<sessionVars, stopTx, stopTxLock, signal, callVars>>

StartSpawn(c) ==
    /\ pc[c] = "l_spawn"
    /\ pc' = [pc EXCEPT ![c] = "idle", ![gen[c]] = "poll"]
    /\ op' = [op EXCEPT ![c] = None] /\ key' = [key EXCEPT ![c] = None]
    /\ gen' = [gen EXCEPT ![c] = 0]
    /\ UNCHANGED <<sessionVars, listenerVars, starts>>

-----------------------------------------------------------------------------
(* stop_listener, and stop_session, which calls it first.                   *)

\* Take the stop channel and send on it (its one slot is free, so the send does
\* not wait); the mutex is kept to the end of the function.
StopSignal(c) ==
    /\ pc[c] = "s_stoptx" /\ stopTxLock = None
    /\ stopTxLock' = c /\ stopTx' = 0
    /\ signal' = IF stopTx # 0 /\ pc[stopTx] # "done" THEN [signal EXCEPT ![stopTx] = TRUE] ELSE signal
    /\ Goto(c, "s_status")
    /\ UNCHANGED <<sessionVars, status, statusLock, callVars>>

\* Faulty variant: wait until the listener reports Stopped itself.
StopStatusPolls(c) ==
    /\ pc[c] = "s_status" /\ statusLock = None
    /\ IF status # "Stopped"
         THEN UNCHANGED <<pc, op, key, stopTxLock>>
         ELSE /\ stopTxLock' = None
              /\ IF op[c] = "stop"
                   THEN Goto(c, "s_session") /\ UNCHANGED <<op, key>>
                   ELSE Done(c)
    /\ UNCHANGED <<sessionVars, status, statusLock, stopTx, signal, gen, starts>>

\* Report Stopped without waiting for the task.
StopStatus(c) ==
    /\ pc[c] = "s_status" /\ statusLock = None
    /\ status' = "Stopped" /\ stopTxLock' = None
    /\ IF op[c] = "stop"
         THEN Goto(c, "s_session") /\ UNCHANGED <<op, key>>
         ELSE Done(c)
    /\ UNCHANGED <<sessionVars, statusLock, stopTx, signal, gen, starts>>

\* stop_session drops the session with everything declared on it.
StopSession(c) ==
    /\ pc[c] = "s_session" /\ sessionLock = None
    /\ session' = FALSE /\ subscriptions' = {} /\ queryables' = {}
    /\ Done(c)
    /\ UNCHANGED <<sessionLock, listenerVars, gen, starts>>

-----------------------------------------------------------------------------
(* listener_task and the spawned block around it.                           *)

\* Faulty variant: the stop message only skips one poll.
TaskPollGoesOn(t) ==
    /\ pc[t] = "poll"
    /\ Goto(t, IF signal[t] THEN "poll" ELSE "session")
    /\ signal' = [signal EXCEPT ![t] = FALSE]
    /\ UNCHANGED <<sessionVars, status, statusLock, stopTx, stopTxLock, callVars>>

\* Only a message on the stop channel ends the loop.
TaskPoll(t) ==
    /\ pc[t] = "poll"
    /\ Goto(t, IF signal[t] THEN "end_ok" ELSE "session")
    /\ signal' = [signal EXCEPT ![t] = FALSE]
    /\ UNCHANGED <<sessionVars, status, statusLock, stopTx, stopTxLock, callVars>>

\* Drain the subscribers under the session mutex; the sink may refuse a sample.
TaskDrain(t) ==
    /\ pc[t] = "session" /\ sessionLock = None
    /\ \/ Goto(t, "poll")
       \/ session /\ subscriptions # {} /\ Goto(t, "sinkfail")
    /\ UNCHANGED <<sessionVars, listenerVars, callVars>>

\* Faulty variant: the task ends without recording how.
TaskEndSilently(t, from, value, to) ==
    /\ pc[t] = from /\ statusLock = None
    /\ Goto(t, to)
    /\ signal' = IF to = "done" THEN [signal EXCEPT ![t] = FALSE] ELSE signal
    /\ UNCHANGED <<sessionVars, status, statusLock, stopTx, stopTxLock, callVars>>

TaskSetStatus(t, from, value, to) ==
    /\ pc[t] = from /\ statusLock = None
    /\ status' = value
    /\ Goto(t, to)
    /\ signal' = IF to = "done" THEN [signal EXCEPT ![t] = FALSE] ELSE signal
    /\ UNCHANGED <<sessionVars, statusLock, stopTx, stopTxLock, callVars>>

\* Sink failure: the task records it, and the block around it does so again.
\* A task that was told to stop records Stopped.
Task(t) ==
    \/ TaskPoll(t) \/ TaskDrain(t)
    \/ TaskSetStatus(t, "sinkfail", "Failed", "end_err")
    \/ TaskSetStatus(t, "end_err", "Failed", "done")
    \/ TaskSetStatus(t, "end_ok", "Stopped", "done")

Client(c) ==
    \/ LockSession(c) \/ FinishSessionCall(c)
    \/ StartCheck(c) \/ StartSetStopTx(c) \/ StartSetRunning(c) \/ StartSpawn(c)
    \/ StopSignal(c) \/ StopStatus(c) \/ StopSession(c)

Next ==
    \/ \E c \in Clients : Client(c) \/ \E o \in CallOps[c], k \in Keys : Call(c, o, k)
    \/ \E t \in Tasks : Task(t)

Spec == Init /\ [][Next]_vars

\* Every caller and task is polled, Zenoh answers every request, and the async
\* mutexes let in everyone who keeps waiting: strong fairness of each process.
FairSpec ==
    /\ Spec
    /\ \A c \in Clients : SF_vars(Client(c))
    /\ \A t \in Tasks : SF_vars(Task(t))

-----------------------------------------------------------------------------
(* Properties.                                                             *)

\* Every field, lock and local of the driver has the type of its Rust
\* declaration, within the bounds of the instance.
TypeOK ==
    /\ session \in BOOLEAN /\ subscriptions \subseteq Keys /\ queryables \subseteq Keys
    /\ sessionLock \in Clients \cup {None}
    /\ statusLock \in Clients \cup {None} /\ stopTxLock \in Clients \cup {None}
    /\ status \in Statuses /\ stopTx \in 0..MaxTasks
    /\ pc \in [Procs -> ClientPoints \cup TaskPoints]
    /\ op \in [Clients -> AllOps \cup {None}] /\ key \in [Clients -> Keys \cup {None}]
    /\ gen \in [Clients -> 0..MaxTasks] /\ signal \in [Tasks -> BOOLEAN]
    /\ starts \in 0..MaxStarts

\* "Listener is actively polling the Zenoh session" (ZenohListenerStatus), and
\* stop_listening can end it: while the status is Running, listener_stop_tx
\* belongs to a task that has not ended, or a stop that has already taken it is
\* about to report Stopped.  A listener of an earlier start that ends late, a
\* sink failure or a stop in the middle of a start never leaves Running behind
\* with nothing to stop.
RunningStoppable ==
    status = "Running" => \/ stopTx # 0 /\ pc[stopTx] # "done"
                          \/ \E c \in Clients : pc[c] = "s_status"

\* A task inside its polling loop.
Live(t) == pc[t] \in {"poll", "session"}

\* "Stop the background listener" (stop_listener): every polling task can be
\* stopped, because listener_stop_tx is its channel or its stop was sent.
LiveTaskReachable == \A t \in Tasks : Live(t) => stopTx = t \/ signal[t]

\* stop_listening and stop return, whatever the listener does meanwhile.
StopReturns == \A c \in Clients : pc[c] = "s_stoptx" ~> pc[c] = "idle"

\* A listener that was sent the stop message ends, even when it fails on its
\* own at that moment or the session is gone.
SignalledTaskEnds == \A t \in Tasks : signal[t] ~> pc[t] = "done"
=============================================================================
