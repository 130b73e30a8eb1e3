------------------------------- MODULE Runtime -------------------------------
(***************************************************************************)
(* The runtime interface of the drivers (crates/ferredge-core/src:         *)
(* runtime.rs, serial.rs) as its three adapters implement it               *)
(* (crates/ferredge-runtime-tokio, -async-std, -embassy): spawned tasks    *)
(* with their handles, the storage slots embassy keeps them in, a bounded  *)
(* channel, and the registry of serial ports.  A task sends its items over *)
(* the channel with the port it opened, as a listener task of a driver     *)
(* does; its owner may abort and join it; the receiver may be dropped.     *)
(*                                                                         *)
(* Executors, channels and ports of the three stacks are external.  An     *)
(* embassy executor is one thread; a poll up to its next wait is a step.   *)
(***************************************************************************)
EXTENDS Naturals, Sequences, FiniteSets, SequencesExt

CONSTANTS
    Stacks,   \* the adapters under consideration
    Spawns,   \* bound: calls of spawn
    TypeOf,   \* the type of the future each spawns
    Items,    \* bound: items a task sends
    Capacity, \* of the channel
    Owner,    \* the holder of the first sender
    None

ASSUME RuntimeAssumptions ==
    /\ Stacks \subseteq {"tokio", "async_std", "embassy"}
    /\ Spawns \in Nat /\ TypeOf \in [1..Spawns -> Range(TypeOf)]
    /\ Items \in Nat /\ Capacity \in Nat \ {0} /\ Owner \notin Nat /\ None \notin Nat

VARIABLES
    stack,    \* the adapter of this behaviour
    future,   \* "unspawned", "running", "returned" or "dropped"
    sent,     \* items each task has sent
    abort,    \* the abort signal of each task
    finished, \* what is_finished returns
    result,   \* the join result not yet taken: None, "Ok" or "Cancelled"
    handle,   \* "idle", "joining", or what join returned
    slots,    \* storage_pool: for each type, the task in each leaked slot
    queue,    \* how many items the channel holds
    senders,  \* holders of a sender
    receiver, \* "open", "dropped", or "closed" after it was told so
    port,     \* holder of the serial port, None when it can be opened
    peak      \* history: the most tasks of a type that ran at once

vars == <<stack, future, sent, abort, finished, result, handle, slots, queue, senders, receiver, port, peak>>
task == <<future, abort, finished, result, slots>>

\* A task is the number of its spawn.
Tasks   == 1..Spawns
Types   == Range(TypeOf)
Running == {t \in Tasks : future[t] = "running"}
RunningOf(type) == {t \in Running : TypeOf[t] = type}

Init ==
    /\ stack \in Stacks
    /\ future = [t \in Tasks |-> "unspawned"] /\ sent = [t \in Tasks |-> 0]
    /\ abort = [t \in Tasks |-> FALSE] /\ finished = [t \in Tasks |-> FALSE]
    /\ result = [t \in Tasks |-> None] /\ handle = [t \in Tasks |-> "idle"]
    /\ slots = [y \in Types |-> <<>>] /\ peak = [y \in Types |-> 0]
    /\ queue = 0 /\ senders = {Owner} /\ receiver = "open" /\ port = None

-----------------------------------------------------------------------------
(* Tasks.                                                                  *)

\* Faulty variant: only the last leaked slot is tried.
SpawnWrappedLast(t) ==
    LET pool == slots[TypeOf[t]] IN
    slots' = [slots EXCEPT ![TypeOf[t]] =
                IF pool # <<>> /\ Last(pool) = None THEN [pool EXCEPT ![Len(pool)] = t] ELSE Append(pool, t)]

\* spawn_wrapped: the first slot of the type that is not busy, or a new one.
SpawnWrapped(t) ==
    LET pool == slots[TypeOf[t]]
        free == {i \in DOMAIN pool : pool[i] = None}
        slot == CHOOSE i \in free : \A j \in free : i <= j
    IN  slots' = [slots EXCEPT ![TypeOf[t]] = IF free = {} THEN Append(pool, t) ELSE [pool EXCEPT ![slot] = t]]

\* spawn
Spawn(t) ==
    /\ future[t] = "unspawned" /\ Owner \in senders
    /\ t > 1 => future[t - 1] # "unspawned"
    /\ future' = [future EXCEPT ![t] = "running"]
    /\ senders' = senders \cup {t}
    /\ IF stack = "embassy" THEN SpawnWrapped(t) ELSE UNCHANGED slots
    /\ peak' = [peak EXCEPT ![TypeOf[t]] =
                  IF @ > Cardinality(RunningOf(TypeOf[t])) THEN @ ELSE 1 + Cardinality(RunningOf(TypeOf[t]))]
    /\ UNCHANGED <<stack, sent, abort, finished, result, handle, queue, receiver, port>>

\* The end of the wrapping future (tokio: of the task): flag, result, slot, and what
\* the future owned is dropped; an abort signal has nothing to stop any more.
Ends(t, how, outcome) ==
    /\ future' = [future EXCEPT ![t] = how]
    /\ finished' = [finished EXCEPT ![t] = stack # "async_std"]
    /\ result' = [result EXCEPT ![t] = outcome]
    /\ abort' = [abort EXCEPT ![t] = FALSE]
    /\ slots' = [slots EXCEPT ![TypeOf[t]] = [i \in DOMAIN @ |-> IF @[i] = t THEN None ELSE @[i]]]
    /\ senders' = senders \ {t}
    /\ port' = IF port = t /\ stack # "embassy" THEN None ELSE port

\* The future returns: it has sent its items, or the channel is closed.
Return(t) ==
    /\ future[t] = "running"
    /\ sent[t] = Items \/ (receiver # "open" /\ stack # "embassy")
    /\ Ends(t, "returned", "Ok")
    /\ UNCHANGED <<stack, sent, handle, queue, receiver, peak>>

\* Faulty variant: a task that waits for room in the channel is not cancelled.
CancelNotWaiting(t) ==
    /\ future[t] = "running" /\ abort[t] /\ queue < Capacity
    /\ Ends(t, "dropped", "Cancelled")
    /\ UNCHANGED <<stack, sent, handle, queue, receiver, peak>>

\* The other arm of select, or tokio's cancellation: the future is dropped where it
\* waits.
Cancel(t) ==
    /\ future[t] = "running" /\ abort[t]
    /\ Ends(t, "dropped", "Cancelled")
    /\ UNCHANGED <<stack, sent, handle, queue, receiver, peak>>

\* TaskHandle::abort, without effect on a task that has ended; async-std has none.
Abort(t) ==
    /\ future[t] = "running" /\ ~abort[t] /\ stack # "async_std"
    /\ abort' = [abort EXCEPT ![t] = TRUE]
    /\ UNCHANGED <<stack, future, sent, finished, result, handle, slots, queue, senders, receiver, port, peak>>

\* TaskHandle::join up to its wait.
Join(t) ==
    /\ future[t] # "unspawned" /\ handle[t] = "idle"
    /\ handle' = [handle EXCEPT ![t] = "joining"]
    /\ UNCHANGED <<stack, task, sent, queue, senders, receiver, port, peak>>

\* ... and its return; a second join of embassy is answered Cancelled (`taken`).
JoinReturns(t) ==
    /\ handle[t] = "joining" /\ result[t] # None
    /\ handle' = [handle EXCEPT ![t] = result[t]]
    /\ result' = [result EXCEPT ![t] = None]
    /\ UNCHANGED <<stack, future, sent, abort, finished, slots, queue, senders, receiver, port, peak>>

-----------------------------------------------------------------------------
(* The channel.                                                            *)

\* ChannelSender::send, try_send: a task without the port opens it first.  An embassy
\* channel does not know that its receiver is gone.
Send(t) ==
    /\ future[t] = "running" /\ sent[t] < Items /\ port = t
    /\ queue < Capacity
    /\ receiver = "open" \/ stack = "embassy"
    /\ queue' = queue + 1
    /\ sent' = [sent EXCEPT ![t] = @ + 1]
    /\ UNCHANGED <<stack, task, handle, senders, receiver, port, peak>>

\* Faulty variant: the senders are looked at before the queue.
RecvClosedEarly ==
    /\ receiver = "open" /\ senders = {} /\ stack # "embassy"
    /\ receiver' = "closed"
    /\ UNCHANGED <<stack, task, sent, handle, queue, senders, port, peak>>

\* ChannelReceiver::recv, try_recv: an item ...
Recv ==
    /\ receiver = "open" /\ queue > 0
    /\ queue' = queue - 1
    /\ UNCHANGED <<stack, task, sent, handle, senders, receiver, port, peak>>

\* ... or, once the senders are gone and the items received, Closed; never on embassy.
RecvClosed ==
    /\ receiver = "open" /\ queue = 0 /\ senders = {} /\ stack # "embassy"
    /\ receiver' = "closed"
    /\ UNCHANGED <<stack, task, sent, handle, queue, senders, port, peak>>

DropReceiver ==
    /\ receiver = "open" /\ receiver' = "dropped"
    /\ UNCHANGED <<stack, task, sent, handle, queue, senders, port, peak>>

DropOwner ==
    /\ senders' = senders \ {Owner} /\ senders' # senders
    /\ UNCHANGED <<stack, task, sent, handle, queue, receiver, port, peak>>

-----------------------------------------------------------------------------
(* The serial port.                                                        *)

\* AsyncSerial::open: the operating system opens a path again once it is closed;
\* EmbassySerial takes the port out of its registry.
Open(t) ==
    /\ future[t] = "running" /\ port = None
    /\ port' = t
    /\ UNCHANGED <<stack, task, sent, handle, queue, senders, receiver, peak>>

\* The error of open: the task gives up.
OpenFails(t) ==
    /\ future[t] = "running" /\ port \notin {None, t}
    /\ Ends(t, "returned", "Ok")
    /\ UNCHANGED <<stack, sent, handle, queue, receiver, peak>>

Next ==
    \/ \E t \in Tasks : \/ Spawn(t) \/ Return(t) \/ Cancel(t) \/ Abort(t) \/ Join(t) \/ JoinReturns(t)
                        \/ Send(t) \/ Open(t) \/ OpenFails(t)
    \/ Recv \/ RecvClosed \/ DropReceiver \/ DropOwner

\* The executors poll every task that can end and every join whose result is there.
\* Nothing is assumed of the receiver.
Fairness ==
    \A t \in Tasks : WF_vars(Return(t)) /\ WF_vars(Cancel(t)) /\ WF_vars(JoinReturns(t))

Spec == Init /\ [][Next]_vars /\ Fairness

-----------------------------------------------------------------------------
(* Properties.                                                             *)

\* "bounding memory by the peak number of concurrent tasks per future type"
\* (StoragePool): no sequence of spawns and ends leaks more slots of a type than its
\* tasks that ever ran at once, every running task has a slot and none shares one.
PoolBounded ==
    stack = "embassy" =>
        \A y \in Types :
            /\ Len(slots[y]) <= peak[y]
            /\ \A t \in RunningOf(y) : Cardinality({i \in DOMAIN slots[y] : slots[y][i] = t}) = 1

\* What the owner is told is true: join answers Ok only for a future that returned,
\* Cancelled only for one that was dropped where it waited, a task that is reported
\* finished runs no more, and Closed means that no task can still have something to
\* send and nothing that was sent is left.
HandlesTruthful ==
    /\ \A t \in Tasks :
         /\ handle[t] = "Ok" => future[t] = "returned"
         /\ handle[t] = "Cancelled" => future[t] = "dropped"
         /\ finished[t] => future[t] \in {"returned", "dropped"}
    /\ receiver = "closed" => queue = 0 /\ \A t \in Running : FALSE

\* A task that is aborted ends and its join returns, wherever it waits: for its port,
\* or for room in the channel of a receiver that is gone.
AbortEnds ==
    \A t \in Tasks : (abort[t] /\ handle[t] = "joining") ~> handle[t] \in {"Ok", "Cancelled"}
=============================================================================
