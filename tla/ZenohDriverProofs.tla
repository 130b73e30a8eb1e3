-------------------------- MODULE ZenohDriverProofs --------------------------
(***************************************************************************)
(* Theorems about ZenohDriver, for every set of callers and key            *)
(* expressions and every bound.                                            *)
(***************************************************************************)
EXTENDS ZenohDriver, TLAPS

-----------------------------------------------------------------------------
(* The inductive invariant.                                                 *)

Starting == {"l_stoptx", "l_running", "l_spawn"}

\* A call in progress has a key expression.
KeyGiven == \A c \in Clients : pc[c] # "idle" => key[c] \in Keys

\* The two listener mutexes are held exactly at the points that keep them.
LocksHeld ==
    \A c \in Clients : /\ statusLock = c <=> pc[c] \in {"l_stoptx", "l_running"}
                       /\ stopTxLock = c <=> pc[c] = "s_status"

\* A start in progress owns a task that nobody has spawned yet.
StartOwnsTask ==
    \A c \in Clients :
        /\ pc[c] \in Starting => gen[c] \in Tasks /\ pc[gen[c]] = "ready"
        /\ pc[c] \notin Starting => gen[c] = 0
        /\ \A d \in Clients : gen[c] = gen[d] /\ gen[c] # 0 => c = d

\* Before a start reports Running, its stop channel is in place or a stop that
\* took it waits for the status mutex.
StopTxInstalled ==
    \A c \in Clients : pc[c] = "l_running" =>
        stopTx = gen[c] \/ \E d \in Clients : pc[d] = "s_status"

IInv == TypeOK /\ KeyGiven /\ LocksHeld /\ StartOwnsTask /\ StopTxInstalled /\ RunningStoppable

-----------------------------------------------------------------------------
\* The initial state satisfies the inductive invariant.
LEMMA InitIInv == Init => IInv
  <1> SUFFICES ASSUME Init PROVE IInv
      OBVIOUS
  <1>1. TypeOK
    <2>1. pc \in [Procs -> ClientPoints \cup TaskPoints]
      BY DEF Init, ClientPoints, TaskPoints
    <2>2. /\ session \in BOOLEAN /\ subscriptions \subseteq Keys /\ queryables \subseteq Keys
          /\ signal \in [Tasks -> BOOLEAN]
      BY Zenon DEF Init
    <2> QED BY <2>1, <2>2, ZenohAssumptions DEF Init, TypeOK, Statuses
  <1>2. \A c \in Clients : pc[c] = "idle" /\ gen[c] = 0
    BY DEF Init, Procs
  <1>3. KeyGiven /\ LocksHeld /\ StartOwnsTask /\ StopTxInstalled /\ RunningStoppable
    BY <1>2, ZenohAssumptions DEF Init, KeyGiven, LocksHeld, StartOwnsTask, Starting, StopTxInstalled,
       RunningStoppable
  <1> QED BY <1>1, <1>3 DEF IInv

\* Points at which the listener protocol keeps something.
Marked == Starting \cup {"s_status", "ready", "done"}

\* A step of one process between unmarked points that leaves the channel, the
\* mutexes and the owned tasks alone, and does not report Running, preserves
\* the protocol part of the invariant.
LEMMA UnmarkedStep ==
    ASSUME IInv, NEW p \in Procs,
           pc[p] \notin Marked, pc'[p] \notin Marked,
           \A q \in Procs : q # p => pc'[q] = pc[q],
           UNCHANGED <<gen, stopTx, statusLock, stopTxLock>>,
           status' = status \/ status' # "Running"
    PROVE  LocksHeld' /\ StartOwnsTask' /\ StopTxInstalled' /\ RunningStoppable'
  <1>1. \A c \in Clients : c \in Procs
    BY DEF Procs
  <1>2. \A t \in Tasks : t \in Procs
    BY DEF Procs
  <1>3. stopTx # 0 => stopTx \in Procs
    BY ZenohAssumptions DEF ZenohAssumptions, IInv, TypeOK, Procs, Tasks
  <1>4. \A q \in Procs : pc[q] \in Marked \/ pc'[q] \in Marked => pc'[q] = pc[q]
    OBVIOUS
  <1>5. LocksHeld'
    BY <1>1, <1>4 DEF IInv, LocksHeld, Marked, Starting
  <1>6. StartOwnsTask'
    BY <1>1, <1>2, <1>4 DEF IInv, StartOwnsTask, Marked, Starting
  <1>7. StopTxInstalled'
    BY <1>1, <1>4 DEF IInv, StopTxInstalled, Marked, Starting
  <1>8. RunningStoppable'
    BY <1>1, <1>3, <1>4 DEF IInv, RunningStoppable, Marked, Starting
  <1> QED BY <1>5, <1>6, <1>7, <1>8

\* Every step preserves the inductive invariant.
LEMMA NextIInv == IInv /\ [Next]_vars => IInv'
  <1> SUFFICES ASSUME IInv, [Next]_vars PROVE IInv'
      OBVIOUS
  <1> USE ZenohAssumptions DEF ZenohAssumptions
  <1>1. ASSUME NEW c \in Clients, NEW o \in CallOps[c], NEW k \in Keys, Call(c, o, k) PROVE IInv'
    <2>1. TypeOK' /\ KeyGiven'
      BY <1>1 DEF Call, IInv, TypeOK, KeyGiven, Goto, Procs, sessionVars, listenerVars, AllOps,
         SessionOps, ClientPoints
    <2>2. /\ pc[c] \notin Marked /\ pc'[c] \notin Marked
          /\ \A p \in Procs : p # c => pc'[p] = pc[p]
          /\ UNCHANGED <<gen, status, stopTx, statusLock, stopTxLock>>
      BY <1>1 DEF Call, IInv, TypeOK, Goto, Procs, sessionVars, listenerVars, AllOps,
         SessionOps, Marked, Starting
    <2> QED BY <2>1, <2>2, UnmarkedStep DEF IInv, Procs
  <1>2. ASSUME NEW c \in Clients, LockSession(c) PROVE IInv'
    <2>1. TypeOK' /\ KeyGiven'
      BY <1>2 DEF LockSession, IInv, TypeOK, KeyGiven, Goto, Done, Procs, sessionVars, listenerVars, callVars,
         ClientPoints
    <2>2. /\ pc[c] \notin Marked /\ pc'[c] \notin Marked
          /\ \A p \in Procs : p # c => pc'[p] = pc[p]
          /\ UNCHANGED <<gen, status, stopTx, statusLock, stopTxLock>>
      BY <1>2 DEF LockSession, IInv, TypeOK, Goto, Done, Procs, sessionVars, listenerVars, callVars, Marked, Starting
    <2> QED BY <2>1, <2>2, UnmarkedStep DEF IInv, Procs
  <1>3. ASSUME NEW c \in Clients, FinishSessionCall(c) PROVE IInv'
    <2>1. TypeOK' /\ KeyGiven'
      <3>1. session' \in BOOLEAN
        BY <1>3, Zenon DEF FinishSessionCall, Effect, IInv, TypeOK
      <3>2. subscriptions' \subseteq Keys /\ queryables' \subseteq Keys
        BY <1>3 DEF FinishSessionCall, Effect, IInv, TypeOK, KeyGiven
      <3> QED
        BY <1>3, <3>1, <3>2 DEF FinishSessionCall, IInv, TypeOK, KeyGiven, Goto, Done, Procs,
           listenerVars, ClientPoints
    <2>2. /\ pc[c] \notin Marked /\ pc'[c] \notin Marked
          /\ \A p \in Procs : p # c => pc'[p] = pc[p]
          /\ UNCHANGED <<gen, status, stopTx, statusLock, stopTxLock>>
      BY <1>3 DEF FinishSessionCall, IInv, TypeOK, Goto, Done, Procs, sessionVars, listenerVars, callVars, Marked, Starting
    <2> QED BY <2>1, <2>2, UnmarkedStep DEF IInv, Procs
  <1>4. ASSUME NEW c \in Clients, StartCheck(c) PROVE IInv'
    <2>1. CASE status = "Running"
      <3>1. TypeOK' /\ KeyGiven'
        BY <1>4, <2>1 DEF StartCheck, IInv, TypeOK, KeyGiven, Goto, Done, Procs, sessionVars,
           ClientPoints
      <3>2. /\ pc[c] \notin Marked /\ pc'[c] \notin Marked
            /\ \A p \in Procs : p # c => pc'[p] = pc[p]
            /\ UNCHANGED <<gen, status, stopTx, statusLock, stopTxLock>>
        BY <1>4, <2>1 DEF StartCheck, IInv, TypeOK, Goto, Done, Procs, Marked, Starting
      <3> QED BY <3>1, <3>2, UnmarkedStep DEF IInv, Procs
    <2>2. CASE status # "Running"
      <3>1. PICK t \in Tasks :
               /\ FreeTask(t)
               /\ gen' = [gen EXCEPT ![c] = t]
               /\ pc' = [pc EXCEPT ![c] = "l_stoptx", ![t] = "ready"]
        BY <1>4, <2>2 DEF StartCheck
      <3>2. /\ pc[c] = "l_status" /\ statusLock = None /\ statusLock' = c
            /\ UNCHANGED <<session, subscriptions, queryables, sessionLock, status, stopTx,
                           stopTxLock, signal, starts, op, key>>
        BY <1>4, <2>2 DEF StartCheck, sessionVars
      <3>3. /\ c # t /\ c \in Procs /\ t \in Procs /\ t \in 1..MaxTasks
            /\ pc'[c] = "l_stoptx" /\ pc'[t] = "ready" /\ pc[t] = "done"
            /\ \A p \in Procs : p # c /\ p # t => pc'[p] = pc[p]
            /\ \A d \in Clients : d # t /\ d \in Procs
        BY <3>1 DEF IInv, TypeOK, Procs, Tasks, FreeTask
      <3>4. gen'[c] = t /\ \A d \in Clients : gen[d] # t /\ (d # c => gen'[d] = gen[d])
        BY <3>1 DEF IInv, TypeOK, FreeTask
      <3>5. TypeOK'
        BY <3>1, <3>2, <3>3 DEF IInv, TypeOK, ClientPoints, TaskPoints, Procs
      <3>6. KeyGiven' /\ LocksHeld'
        BY <3>2, <3>3 DEF IInv, KeyGiven, LocksHeld
      <3>7. StartOwnsTask'
        <4>1. \A u \in Tasks : u # c /\ u \in Procs
          BY DEF Procs
        <4>2. \A d \in Clients : pc[d] \in Starting => gen[d] \in Tasks /\ gen[d] # t
                                                      /\ pc'[gen[d]] = "ready"
          BY <3>3, <3>4, <4>1 DEF IInv, StartOwnsTask
        <4> QED BY <3>2, <3>3, <3>4, <4>2 DEF IInv, StartOwnsTask, Starting
      <3>8. StopTxInstalled'
        BY <3>2, <3>3, <3>4 DEF IInv, StopTxInstalled
      <3>9. RunningStoppable'
        BY <2>2, <3>2 DEF RunningStoppable
      <3> QED BY <3>5, <3>6, <3>7, <3>8, <3>9 DEF IInv
    <2> QED BY <2>1, <2>2
  <1>5. ASSUME NEW c \in Clients, StartSetStopTx(c) PROVE IInv'
    <2>1. /\ pc[c] = "l_stoptx" /\ pc'[c] = "l_running" /\ stopTxLock = None
          /\ stopTx' = gen[c] /\ gen[c] \in Tasks /\ pc[gen[c]] = "ready" /\ gen[c] # c
          /\ \A p \in Procs : p # c => pc'[p] = pc[p]
          /\ \A d \in Clients : d \in Procs
          /\ \A u \in Tasks : u # c /\ u \in Procs
          /\ UNCHANGED <<gen, status, statusLock, stopTxLock>>
      BY <1>5 DEF StartSetStopTx, IInv, TypeOK, StartOwnsTask, Starting, Goto, Procs, callVars
    <2>2. TypeOK' /\ KeyGiven'
      BY <1>5, <2>1 DEF StartSetStopTx, IInv, TypeOK, KeyGiven, Goto, Procs, Tasks, sessionVars,
         callVars, ClientPoints
    <2>3. LocksHeld' /\ StartOwnsTask'
      BY <2>1 DEF IInv, LocksHeld, StartOwnsTask, Starting
    <2>4. StopTxInstalled'
      BY <2>1 DEF IInv, LocksHeld, StopTxInstalled
    <2>5. RunningStoppable'
      <3>1. pc'[gen[c]] = "ready" /\ gen[c] # 0
        BY <2>1 DEF Tasks
      <3> QED BY <2>1, <3>1 DEF RunningStoppable
    <2> QED BY <2>2, <2>3, <2>4, <2>5 DEF IInv
  <1>6. ASSUME NEW c \in Clients, StartSetRunning(c) PROVE IInv'
    <2>1. /\ pc[c] = "l_running" /\ pc'[c] = "l_spawn" /\ statusLock = c /\ statusLock' = None
          /\ gen[c] \in Tasks /\ pc[gen[c]] = "ready" /\ gen[c] # c
          /\ \A p \in Procs : p # c => pc'[p] = pc[p]
          /\ \A d \in Clients : d \in Procs
          /\ \A u \in Tasks : u # c /\ u \in Procs
          /\ UNCHANGED <<gen, stopTx, stopTxLock>>
      BY <1>6 DEF StartSetRunning, IInv, TypeOK, LocksHeld, StartOwnsTask, Starting, Goto, Procs,
         callVars
    <2>2. TypeOK' /\ KeyGiven'
      BY <1>6, <2>1 DEF StartSetRunning, IInv, TypeOK, KeyGiven, Goto, Procs, sessionVars,
         callVars, ClientPoints, Statuses
    <2>3. LocksHeld' /\ StartOwnsTask'
      BY <2>1 DEF IInv, LocksHeld, StartOwnsTask, Starting
    <2>4. StopTxInstalled'
      BY <2>1 DEF IInv, StopTxInstalled
    <2>5. RunningStoppable'
      <3>1. pc'[gen[c]] = "ready" /\ gen[c] # 0
        BY <2>1 DEF Tasks
      <3>2. stopTx = gen[c] \/ \E d \in Clients : pc[d] = "s_status"
        BY <2>1 DEF IInv, StopTxInstalled
      <3> QED BY <2>1, <3>1, <3>2 DEF RunningStoppable
    <2> QED BY <2>2, <2>3, <2>4, <2>5 DEF IInv
  <1>7. ASSUME NEW c \in Clients, StartSpawn(c) PROVE IInv'
    <2> DEFINE t == gen[c]
    <2>1. /\ pc[c] = "l_spawn" /\ t \in Tasks /\ pc[t] = "ready" /\ t # c
          /\ c \in Procs /\ t \in Procs
          /\ pc' = [pc EXCEPT ![c] = "idle", ![t] = "poll"] /\ gen' = [gen EXCEPT ![c] = 0]
          /\ UNCHANGED <<status, stopTx, statusLock, stopTxLock>>
      BY <1>7 DEF StartSpawn, IInv, StartOwnsTask, Starting, Procs, listenerVars
    <2> HIDE DEF t
    <2>2. /\ pc'[c] = "idle" /\ pc'[t] = "poll"
          /\ \A p \in Procs : p # c /\ p # t => pc'[p] = pc[p]
          /\ \A d \in Clients : d \in Procs /\ d # t
          /\ \A u \in Tasks : u \in Procs /\ u # c
          /\ gen'[c] = 0 /\ \A d \in Clients : d # c => gen'[d] = gen[d] /\ gen[d] # t
      <3>1. \A d \in Clients : d # c => gen[d] # t
        BY <2>1 DEF IInv, StartOwnsTask, Tasks, t
      <3> QED BY <2>1, <3>1 DEF IInv, TypeOK, Procs
    <2>3. TypeOK' /\ KeyGiven'
      <3>1. TypeOK'
        BY <1>7, <2>1 DEF StartSpawn, IInv, TypeOK, Procs, sessionVars, listenerVars,
           ClientPoints, TaskPoints
      <3>2. \A d \in Clients : d # c => key'[d] = key[d]
        BY <1>7 DEF StartSpawn, IInv, TypeOK
      <3> QED BY <2>2, <3>1, <3>2 DEF IInv, KeyGiven
    <2>4. LocksHeld'
      BY <2>1, <2>2 DEF IInv, LocksHeld
    <2>5. StartOwnsTask'
      <3>1. \A d \in Clients : d # c /\ pc[d] \in Starting =>
               gen[d] \in Tasks /\ pc'[gen[d]] = "ready"
        BY <2>2 DEF IInv, StartOwnsTask
      <3>2. c \in Clients /\ pc'[c] \notin Starting
        BY <2>2 DEF Starting
      <3>3. \A d \in Clients : d # c => pc'[d] = pc[d] /\ gen'[d] = gen[d]
        BY <2>2
      <3> QED BY <2>2, <3>1, <3>2, <3>3 DEF IInv, StartOwnsTask
    <2>6. StopTxInstalled'
      BY <2>1, <2>2 DEF IInv, StopTxInstalled
    <2>7. RunningStoppable'
      <3>1. stopTx # 0 => stopTx \in Tasks
        BY DEF IInv, TypeOK, Tasks
      <3> QED BY <2>1, <2>2, <3>1 DEF IInv, RunningStoppable
    <2> QED BY <2>3, <2>4, <2>5, <2>6, <2>7 DEF IInv
  <1>8. ASSUME NEW c \in Clients, StopSignal(c) PROVE IInv'
    <2>1. /\ pc[c] = "s_stoptx" /\ pc'[c] = "s_status" /\ stopTxLock = None /\ stopTxLock' = c
          /\ \A p \in Procs : p # c => pc'[p] = pc[p]
          /\ \A d \in Clients : d \in Procs
          /\ \A u \in Tasks : u # c /\ u \in Procs
          /\ UNCHANGED <<gen, status, statusLock>>
      BY <1>8 DEF StopSignal, IInv, TypeOK, Goto, Procs, callVars
    <2>2. TypeOK' /\ KeyGiven'
      <3>1. stopTx' \in 0..MaxTasks /\ signal' \in [Tasks -> BOOLEAN]
        BY <1>8 DEF StopSignal, IInv, TypeOK, Tasks
      <3> QED
        BY <1>8, <2>1, <3>1 DEF StopSignal, IInv, TypeOK, KeyGiven, Goto, Procs, sessionVars,
           callVars, ClientPoints
    <2>3. LocksHeld' /\ StartOwnsTask'
      BY <2>1 DEF IInv, LocksHeld, StartOwnsTask, Starting
    <2>4. StopTxInstalled' /\ RunningStoppable'
      BY <2>1 DEF StopTxInstalled, RunningStoppable
    <2> QED BY <2>2, <2>3, <2>4 DEF IInv
  <1>9. ASSUME NEW c \in Clients, StopStatus(c) PROVE IInv'
    <2>1. /\ pc[c] = "s_status" /\ pc'[c] \in {"s_session", "idle"}
          /\ stopTxLock = c /\ stopTxLock' = None /\ statusLock = None /\ status' = "Stopped"
          /\ \A p \in Procs : p # c => pc'[p] = pc[p]
          /\ \A d \in Clients : d \in Procs
          /\ \A u \in Tasks : u # c /\ u \in Procs
          /\ UNCHANGED <<gen, stopTx, statusLock>>
      BY <1>9 DEF StopStatus, IInv, TypeOK, LocksHeld, Goto, Done, Procs
    <2>2. TypeOK' /\ KeyGiven'
      BY <1>9 DEF StopStatus, IInv, TypeOK, KeyGiven, Goto, Done, Procs, sessionVars,
         ClientPoints, Statuses
    <2>3. LocksHeld' /\ StartOwnsTask'
      BY <2>1 DEF IInv, LocksHeld, StartOwnsTask, Starting
    <2>4. StopTxInstalled'
      BY <2>1 DEF IInv, LocksHeld, StopTxInstalled
    <2>5. RunningStoppable'
      BY <2>1 DEF RunningStoppable
    <2> QED BY <2>2, <2>3, <2>4, <2>5 DEF IInv
  <1>10. ASSUME NEW c \in Clients, StopSession(c) PROVE IInv'
    <2>1. TypeOK' /\ KeyGiven'
      BY <1>10 DEF StopSession, IInv, TypeOK, KeyGiven, Goto, Done, Procs, sessionVars, listenerVars, callVars,
         ClientPoints
    <2>2. /\ pc[c] \notin Marked /\ pc'[c] \notin Marked
          /\ \A p \in Procs : p # c => pc'[p] = pc[p]
          /\ UNCHANGED <<gen, status, stopTx, statusLock, stopTxLock>>
      BY <1>10 DEF StopSession, IInv, TypeOK, Goto, Done, Procs, sessionVars, listenerVars, callVars, Marked, Starting
    <2> QED BY <2>1, <2>2, UnmarkedStep DEF IInv, Procs
  <1>11. ASSUME NEW t \in Tasks, TaskPoll(t) \/ TaskDrain(t) PROVE IInv'
    <2>1. TypeOK' /\ KeyGiven'
      BY <1>11 DEF TaskPoll, TaskDrain, IInv, TypeOK, KeyGiven, Goto, Procs, sessionVars,
         listenerVars, callVars, TaskPoints
    <2>2. /\ pc[t] \notin Marked /\ pc'[t] \notin Marked
          /\ \A p \in Procs : p # t => pc'[p] = pc[p]
          /\ UNCHANGED <<gen, status, stopTx, statusLock, stopTxLock>>
      BY <1>11 DEF TaskPoll, TaskDrain, IInv, TypeOK, Goto, Procs, listenerVars, callVars,
         Marked, Starting
    <2> QED BY <2>1, <2>2, UnmarkedStep DEF IInv, Procs
  <1>12. ASSUME NEW t \in Tasks, TaskSetStatus(t, "sinkfail", "Failed", "end_err") PROVE IInv'
    <2>1. TypeOK' /\ KeyGiven'
      BY <1>12 DEF TaskSetStatus, IInv, TypeOK, KeyGiven, Goto, Procs, sessionVars, callVars,
         TaskPoints, Statuses
    <2>2. /\ pc[t] \notin Marked /\ pc'[t] \notin Marked /\ status' # "Running"
          /\ \A p \in Procs : p # t => pc'[p] = pc[p]
          /\ UNCHANGED <<gen, stopTx, statusLock, stopTxLock>>
      BY <1>12 DEF TaskSetStatus, IInv, TypeOK, Goto, Procs, callVars, Marked, Starting
    <2> QED BY <2>1, <2>2, UnmarkedStep DEF IInv, Procs
  <1>13. ASSUME NEW t \in Tasks, NEW from \in {"end_err", "end_ok"},
                NEW value \in {"Failed", "Stopped"}, TaskSetStatus(t, from, value, "done")
         PROVE  IInv'
    <2>1. /\ pc[t] = from /\ pc'[t] = "done" /\ statusLock = None /\ status' = value
          /\ \A p \in Procs : p # t => pc'[p] = pc[p]
          /\ \A d \in Clients : d \in Procs /\ d # t
          /\ \A u \in Tasks : u \in Procs
          /\ UNCHANGED <<gen, stopTx, statusLock, stopTxLock>>
      BY <1>13 DEF TaskSetStatus, IInv, TypeOK, Goto, Procs, callVars
    <2>2. TypeOK' /\ KeyGiven'
      <3>1. signal' \in [Tasks -> BOOLEAN]
        BY <1>13 DEF TaskSetStatus, IInv, TypeOK
      <3> QED
        BY <1>13, <3>1 DEF TaskSetStatus, IInv, TypeOK, KeyGiven, Goto, Procs, sessionVars, callVars,
           TaskPoints, Statuses
    <2>3. LocksHeld'
      BY <2>1 DEF IInv, LocksHeld
    <2>4. StartOwnsTask'
      <3>1. \A d \in Clients : pc[d] \in Starting => gen[d] # t
        BY <2>1 DEF IInv, StartOwnsTask
      <3> QED BY <2>1, <3>1 DEF IInv, StartOwnsTask
    <2>5. StopTxInstalled'
      BY <2>1 DEF IInv, StopTxInstalled
    <2>6. RunningStoppable'
      BY <2>1 DEF RunningStoppable
    <2> QED BY <2>2, <2>3, <2>4, <2>5, <2>6 DEF IInv
  <1>14. CASE UNCHANGED vars
    BY <1>14 DEF vars, sessionVars, listenerVars, callVars, IInv, TypeOK, KeyGiven, LocksHeld,
       StartOwnsTask, StopTxInstalled, RunningStoppable, FreeTask
  <1> QED
    BY <1>1, <1>2, <1>3, <1>4, <1>5, <1>6, <1>7, <1>8, <1>9, <1>10, <1>11, <1>12, <1>13, <1>14
       DEF Next, Client, Task

\* TypeOK holds in every reachable state: the fields, locks and locals of the
\* Zenoh driver keep their types under any interleaving of callers and tasks.
THEOREM TypeCorrect == Spec => []TypeOK
  <1>1. IInv => TypeOK
    BY DEF IInv
  <1> QED BY <1>1, InitIInv, NextIInv, PTL DEF Spec

\* RunningStoppable holds in every reachable state: for any number of callers,
\* tasks and starts, a listener_status of Running always comes with a stop
\* channel that reaches a task, or with a stop about to report Stopped.
THEOREM RunningIsStoppable == Spec => []RunningStoppable
  <1>1. IInv => RunningStoppable
    BY DEF IInv
  <1> QED BY <1>1, InitIInv, NextIInv, PTL DEF Spec
=============================================================================
