--------------------------- MODULE ModbusTransport ---------------------------
(***************************************************************************)
(* The request path of the Modbus driver                                   *)
(* (crates/ferredge-proto-modbus/src/transport.rs): execute_on_endpoint    *)
(* retries one exchange while it holds the session mutex, and the          *)
(* transports take, reuse, replace and park the persistent session.        *)
(*                                                                         *)
(* Driver clones share the session but carry their own device definition,  *)
(* so every caller has an endpoint configuration of its own.  A caller's   *)
(* future may be dropped at any await.  The line of a socket holds the     *)
(* requests whose answers are under way or unread; all serial ports share  *)
(* one line, because a late answer reaches whichever port is open then.    *)
(***************************************************************************)
EXTENDS Naturals, Sequences, FiniteSets

CONSTANTS
    Callers,        \* tasks that use a clone of the driver
    Requests,       \* distinct requests
    Writes,         \* the write requests among them
    Config,         \* each caller's endpoint: family, persistent_session, request_timeout set
    Enabled,        \* reconnect.enabled
    MaxAttempts,    \* reconnect.max_attempts
    RetryWrites,    \* reconnect.retry_writes
    MaxSockets,     \* bound: sockets open at once
    MaxBreaks,      \* bound: connections the peer closes
    MaxStops,       \* bound: stop calls
    None, Truncated \* no value; a frame cut short by the peer closing

Families == {"tcp", "udp", "rtu", "ascii"}
Sockets  == 1..MaxSockets
Points   == {"idle", "lock", "take", "open", "write", "read", "park", "fail", "s_lock"}

ASSUME ModbusAssumptions ==
    /\ Writes \subseteq Requests
    /\ Config \in [Callers -> [family : Families, persistent : BOOLEAN, timeout : BOOLEAN]]
    /\ Enabled \in BOOLEAN /\ RetryWrites \in BOOLEAN /\ MaxAttempts \in Nat
    /\ MaxSockets \in Nat /\ MaxBreaks \in Nat /\ MaxStops \in Nat
    /\ None \notin Callers \cup Requests \cup {Truncated}
    /\ Truncated \notin Requests

VARIABLES
    lock,        \* holder of the persistent_session mutex
    session,     \* the parked socket, 0 for None
    conn,        \* each socket: closed, open, or broken by the peer
    kind,        \* each socket: stream, datagram or serial
    timed,       \* whether it was given a read timeout when it was opened
    fresh,       \* no request has been answered on this socket yet
    line,        \* unanswered requests per socket; line[0] is the serial line
    pc, req,     \* a caller's program point and request
    sock,        \* the socket it holds, 0 for none
    attempt,     \* its attempt, from 0
    retryable,   \* whether the error it met is retryable
    answer,      \* the frame it is about to return
    sends,       \* times a request went out to the device
    breaks, stops

wireVars == <<conn, kind, timed, fresh, line, breaks>>
callVars == <<req, sock, attempt, retryable, answer, sends, stops>>
vars == <<lock, session, wireVars, pc, callVars>>

-----------------------------------------------------------------------------
Goto(c, point) == pc' = [pc EXCEPT ![c] = point]

\* Dropping the sockets S (0 stands for none) discards what is unread on them.
Close(S) ==
    /\ conn' = [s \in Sockets |-> IF s \in S THEN "closed" ELSE conn[s]]
    /\ line' = [i \in 0..MaxSockets |-> IF i # 0 /\ i \in S THEN <<>> ELSE line[i]]

\* The call is over: its locals and its guard go out of scope.
Return(c) ==
    /\ lock' = IF lock = c THEN None ELSE lock
    /\ req' = [req EXCEPT ![c] = None] /\ attempt' = [attempt EXCEPT ![c] = 0]
    /\ retryable' = [retryable EXCEPT ![c] = FALSE]
    /\ answer' = [answer EXCEPT ![c] = None]
    /\ Goto(c, "idle")

FreeSocket(s) == conn[s] = "closed" /\ s # session /\ \A c \in Callers : sock[c] # s
LineOf(s) == IF kind[s] = "serial" THEN 0 ELSE s

\* The session variant that an endpoint family uses; UDP keeps none.
KindOf(family) == CASE family = "tcp" -> "stream"
                    [] family = "udp" -> "datagram"
                    [] OTHER          -> "serial"

\* Faulty variant: the write flag is not looked at.
BudgetOfRead(r) == IF ~Enabled THEN 1 ELSE MaxAttempts + 1

\* request_attempt_budget.
Budget(r) == IF ~Enabled \/ (r \in Writes /\ ~RetryWrites) THEN 1 ELSE MaxAttempts + 1

Init ==
    /\ lock = None /\ session = 0
    /\ conn = [s \in Sockets |-> "closed"] /\ kind = [s \in Sockets |-> "stream"]
    /\ timed = [s \in Sockets |-> FALSE]
    /\ fresh = [s \in Sockets |-> TRUE] /\ line = [i \in 0..MaxSockets |-> <<>>]
    /\ pc = [c \in Callers |-> "idle"] /\ req = [c \in Callers |-> None]
    /\ sock = [c \in Callers |-> 0] /\ attempt = [c \in Callers |-> 0]
    /\ retryable = [c \in Callers |-> FALSE] /\ answer = [c \in Callers |-> None]
    /\ sends = [r \in Requests |-> 0]
    /\ breaks = 0 /\ stops = 0

-----------------------------------------------------------------------------
(* execute_on_endpoint and the transports' execute.                         *)

\* A request is executed once; its call waits for the session mutex.
Execute(c, r) ==
    /\ pc[c] = "idle" /\ sends[r] = 0 /\ \A d \in Callers : req[d] # r
    /\ req' = [req EXCEPT ![c] = r]
    /\ Goto(c, "lock")
    /\ UNCHANGED <<lock, session, wireVars, sock, attempt, retryable, answer, sends, stops>>

Lock(c) ==
    /\ pc[c] = "lock" /\ lock = None
    /\ lock' = c
    /\ Goto(c, "take")
    /\ UNCHANGED <<session, wireVars, callVars>>

\* Faulty variant: whatever is parked is reused.
TakeAnything(c) ==
    /\ pc[c] = "take"
    /\ session' = 0 /\ sock' = [sock EXCEPT ![c] = session]
    /\ Goto(c, IF session # 0 THEN "write" ELSE "open")
    /\ UNCHANGED <<lock, wireVars, req, attempt, retryable, answer, sends, stops>>

\* StackTransport takes the session and closes one of the other kind; the
\* lean transport reuses it if the endpoint is persistent, and closes it
\* otherwise.  UDP leaves the session alone.
Take(c) ==
    LET family == Config[c].family
        usable == session # 0 /\ Config[c].persistent /\ kind[session] = KindOf(family)
    IN
    /\ pc[c] = "take"
    /\ IF family = "udp"
         THEN Goto(c, "open") /\ UNCHANGED <<session, conn, line, sock>>
         ELSE /\ session' = 0
              /\ IF usable THEN sock' = [sock EXCEPT ![c] = session] /\ UNCHANGED <<conn, line>>
                           ELSE Close({session}) /\ UNCHANGED sock
              /\ Goto(c, IF usable THEN "write" ELSE "open")
    /\ UNCHANGED <<lock, kind, timed, fresh, breaks, req, attempt, retryable, answer,
                   sends, stops>>

\* request_timeout is optional and set on a socket when it is opened, which then keeps
\* it for whoever uses it next; serial ports take none.
HasDeadline(c) == Config[c].family \in {"tcp", "udp"} /\ Config[c].timeout

\* Connect, bind or open; the errors are retryable.  Failing to set a timeout on
\* the new socket is not, and there is none to set on a serial port.  Answers
\* that arrive while no serial port is open may be kept for the next one.
Open(c) ==
    LET k == KindOf(Config[c].family) IN
    /\ pc[c] = "open"
    /\ \/ \E s \in Sockets :
            /\ FreeSocket(s) /\ \A t \in Sockets : FreeSocket(t) => s <= t
            /\ conn' = [conn EXCEPT ![s] = "open"]
            /\ kind' = [kind EXCEPT ![s] = k] /\ fresh' = [fresh EXCEPT ![s] = TRUE]
            /\ timed' = [timed EXCEPT ![s] = HasDeadline(c)]
            /\ \/ UNCHANGED line
               \/ k = "serial" /\ line' = [line EXCEPT ![0] = <<>>]
            /\ sock' = [sock EXCEPT ![c] = s]
            /\ Goto(c, "write")
            /\ UNCHANGED retryable
       \/ \E again \in {TRUE, k = "serial"} :
            /\ retryable' = [retryable EXCEPT ![c] = again]
            /\ Goto(c, "fail")
            /\ UNCHANGED <<conn, kind, timed, fresh, line, sock>>
    /\ UNCHANGED <<lock, session, breaks, req, attempt, answer, sends, stops>>

\* Write and flush: the device gets the request and will answer, gets it and
\* stays silent, or never gets it; writing to a broken connection may seem to
\* work.  An error leaves open whether the request went out.
Write(c) ==
    LET s == sock[c]
        r == req[c]
        i == LineOf(s)
    IN
    /\ pc[c] = "write"
    /\ sends' = [sends EXCEPT ![r] = IF conn[s] = "open" THEN @ + 1 ELSE @]
    /\ \/ conn[s] = "open" /\ line' = [line EXCEPT ![i] = Append(@, r)]
       \/ UNCHANGED line
    /\ \/ Goto(c, "read") /\ UNCHANGED retryable
       \/ Goto(c, "fail") /\ retryable' = [retryable EXCEPT ![c] = TRUE]
    /\ UNCHANGED <<lock, session, conn, kind, timed, fresh, breaks, req, sock, attempt, answer, stops>>

\* Read until a frame is complete.  What arrived before the peer closed is
\* returned as a frame, even when it is cut short, except that a truncated
\* ASCII frame does not decode.
ReadAnswer(c) ==
    LET s == sock[c]
        i == LineOf(s)
    IN
    /\ pc[c] = "read" /\ line[i] # <<>>
    /\ line' = [line EXCEPT ![i] = Tail(@)]
    /\ \/ /\ answer' = [answer EXCEPT ![c] = Head(line[i])]
          /\ Goto(c, "park") /\ UNCHANGED retryable
       \/ /\ conn[s] = "broken" /\ Config[c].family # "ascii"
          /\ answer' = [answer EXCEPT ![c] = Truncated]
          /\ Goto(c, "park") /\ UNCHANGED retryable
       \/ /\ Config[c].family = "ascii"
          /\ retryable' = [retryable EXCEPT ![c] = FALSE]
          /\ Goto(c, "fail") /\ UNCHANGED answer
    /\ UNCHANGED <<lock, session, conn, kind, timed, fresh, breaks, req, sock, attempt, sends, stops>>

\* A read that fails: the peer closed, the port is gone, or the timeout expired.  Only
\* the UDP message ("failed to receive") is not a retryable one.
ReadFails(c) ==
    /\ pc[c] = "read"
    /\ retryable' = [retryable EXCEPT ![c] = Config[c].family # "udp"]
    /\ Goto(c, "fail")
    /\ UNCHANGED <<lock, session, wireVars, req, sock, attempt, answer, sends, stops>>

\* Ok: a persistent endpoint parks its socket, any other closes it; the guard
\* goes out of scope.
Park(c) ==
    LET keep == Config[c].persistent /\ Config[c].family # "udp" IN
    /\ pc[c] = "park"
    /\ IF keep THEN session' = sock[c] /\ UNCHANGED <<conn, line>>
               ELSE Close({sock[c]}) /\ UNCHANGED session
    /\ fresh' = [fresh EXCEPT ![sock[c]] = FALSE]
    /\ sock' = [sock EXCEPT ![c] = 0]
    /\ Return(c)
    /\ UNCHANGED <<kind, timed, breaks, sends, stops>>

\* Faulty variant: one attempt more than the budget.
FailOffByOne(c) ==
    /\ pc[c] = "fail"
    /\ Close({sock[c]}) /\ sock' = [sock EXCEPT ![c] = 0]
    /\ IF retryable[c] /\ attempt[c] < Budget(req[c])
         THEN /\ attempt' = [attempt EXCEPT ![c] = @ + 1]
              /\ retryable' = [retryable EXCEPT ![c] = FALSE]
              /\ Goto(c, "take") /\ UNCHANGED <<lock, req, answer>>
         ELSE Return(c)
    /\ UNCHANGED <<session, kind, timed, fresh, breaks, sends, stops>>

\* Faulty variant: a persistent endpoint keeps its socket when a request failed.
FailParks(c) ==
    LET keep == sock[c] # 0 /\ Config[c].persistent /\ Config[c].family # "udp" IN
    /\ pc[c] = "fail"
    /\ IF keep THEN session' = sock[c] /\ UNCHANGED <<conn, line>>
               ELSE Close({sock[c]}) /\ UNCHANGED session
    /\ sock' = [sock EXCEPT ![c] = 0]
    /\ Return(c)
    /\ UNCHANGED <<kind, timed, fresh, breaks, sends, stops>>

\* Faulty variant: a request that fails leaves the mutex unusable (poisoned).
FailPoisons(c) ==
    /\ pc[c] = "fail"
    /\ Close({sock[c]}) /\ sock' = [sock EXCEPT ![c] = 0]
    /\ req' = [req EXCEPT ![c] = None] /\ attempt' = [attempt EXCEPT ![c] = 0]
    /\ retryable' = [retryable EXCEPT ![c] = FALSE]
    /\ Goto(c, "idle")
    /\ UNCHANGED <<lock, session, kind, timed, fresh, breaks, answer, sends, stops>>

\* Err: the socket is closed.  A retryable error with attempts left sleeps and
\* tries again under the same guard, any other is returned.
Fail(c) ==
    LET again == retryable[c] /\ attempt[c] + 1 < Budget(req[c]) IN
    /\ pc[c] = "fail"
    /\ Close({sock[c]}) /\ sock' = [sock EXCEPT ![c] = 0]
    /\ IF again
         THEN /\ attempt' = [attempt EXCEPT ![c] = @ + 1]
              /\ retryable' = [retryable EXCEPT ![c] = FALSE]
              /\ Goto(c, "take") /\ UNCHANGED <<lock, req, answer>>
         ELSE Return(c)
    /\ UNCHANGED <<session, kind, timed, fresh, breaks, sends, stops>>

\* The caller's future is dropped at an await, with the guard and the socket.
Cancel(c) ==
    /\ pc[c] # "idle"
    /\ Close({sock[c]}) /\ sock' = [sock EXCEPT ![c] = 0]
    /\ Return(c)
    /\ UNCHANGED <<session, kind, timed, fresh, breaks, sends, stops>>

-----------------------------------------------------------------------------
(* Lifecycle::stop, and the peer.                                           *)

CallStop(c) ==
    /\ pc[c] = "idle" /\ stops < MaxStops
    /\ stops' = stops + 1
    /\ Goto(c, "s_lock")
    /\ UNCHANGED <<lock, session, wireVars, req, sock, attempt, retryable, answer, sends>>

\* close_persistent_session waits for the mutex, takes and closes the session.
Stop(c) ==
    /\ pc[c] = "s_lock" /\ lock = None
    /\ Close({session}) /\ session' = 0
    /\ Goto(c, "idle")
    /\ UNCHANGED <<lock, kind, timed, fresh, breaks, callVars>>

\* The peer closes a connection, in use or parked.
Break(s) ==
    /\ breaks < MaxBreaks /\ conn[s] = "open"
    /\ breaks' = breaks + 1
    /\ conn' = [conn EXCEPT ![s] = "broken"]
    /\ UNCHANGED <<lock, session, kind, timed, fresh, line, pc, callVars>>

Step(c) ==
    \/ Take(c) \/ Open(c) \/ Write(c) \/ ReadAnswer(c) \/ ReadFails(c)
    \/ Park(c) \/ Fail(c)

Next ==
    \/ \E c \in Callers, r \in Requests : Execute(c, r)
    \/ \E c \in Callers : CallStop(c) \/ Lock(c) \/ Stop(c) \/ Step(c) \/ Cancel(c)
    \/ \E s \in Sockets : Break(s)

Spec == Init /\ [][Next]_vars

\* A caller reads, nothing is on its line, and nothing but its being dropped need end
\* it: the socket was opened without a timeout.
Unanswered(c) ==
    /\ pc[c] = "read" /\ ~timed[sock[c]]
    /\ line[LineOf(sock[c])] = <<>> /\ conn[sock[c]] = "open"

\* Futures that are not dropped are polled, reads end when there is something to read,
\* the peer has closed or the deadline is over, and the mutex lets in whoever keeps
\* waiting for it.
FairSpec ==
    /\ Spec
    /\ \A c \in Callers : WF_vars(~Unanswered(c) /\ Step(c)) /\ SF_vars(Lock(c) \/ Stop(c))

-----------------------------------------------------------------------------
(* Properties.                                                             *)

\* Every field and local of the request path has the type of its Rust
\* declaration, within the bounds of the instance.
TypeOK ==
    /\ lock \in Callers \cup {None} /\ session \in 0..MaxSockets
    /\ conn \in [Sockets -> {"closed", "open", "broken"}]
    /\ kind \in [Sockets -> {"stream", "datagram", "serial"}] /\ timed \in [Sockets -> BOOLEAN]
    /\ fresh \in [Sockets -> BOOLEAN] /\ line \in [0..MaxSockets -> Seq(Requests)]
    /\ pc \in [Callers -> Points] /\ req \in [Callers -> Requests \cup {None}]
    /\ sock \in [Callers -> 0..MaxSockets] /\ attempt \in [Callers -> 0..MaxAttempts]
    /\ retryable \in [Callers -> BOOLEAN]
    /\ answer \in [Callers -> Requests \cup {None, Truncated}]
    /\ sends \in [Requests -> Nat]
    /\ breaks \in 0..MaxBreaks /\ stops \in 0..MaxStops

\* "Executes one raw request/response exchange against the endpoint"
\* (ModbusTransport::execute): the frame execute is about to return is the
\* device's answer to this call's request (or what arrived of it), never to an
\* earlier one that timed out, failed or was cancelled on the shared session.
AnswerMatches == \A c \in Callers : pc[c] = "park" => answer[c] \in {req[c], Truncated}

\* The same of the calls over TCP and UDP, also when clones of the driver with
\* serial endpoints share the session with them.
NetworkAnswersMatch ==
    \A c \in Callers : Config[c].family \in {"tcp", "udp"} /\ pc[c] = "park"
        => answer[c] \in {req[c], Truncated}

\* A request goes out at most as often as its retry policy allows; a write that
\* must not be retried at most once, whatever fails after it was sent.
SendsWithinBudget ==
    \A r \in Requests : sends[r] <= IF r \in Writes /\ ~RetryWrites THEN 1 ELSE MaxAttempts + 1

\* "A stale session from a previously-persistent config is closed, not reused":
\* a caller sends only over a socket of its endpoint's kind, and one whose
\* endpoint is not persistent only over a socket that nobody has used before.
SocketFits ==
    \A c \in Callers : pc[c] \in {"write", "read", "park"} =>
        /\ kind[sock[c]] = KindOf(Config[c].family)
        /\ ~Config[c].persistent => fresh[sock[c]]

\* Every execute and every stop returns, although each holds the mutex through all its
\* attempts and the delays between them: unless somebody waits for a device that never
\* answers, without a deadline, and everybody else for the mutex.
CallsReturn ==
    \/ \E c \in Callers : <>[]Unanswered(c)
    \/ \A c \in Callers : pc[c] \in {"lock", "s_lock"} ~> pc[c] = "idle"
=============================================================================
