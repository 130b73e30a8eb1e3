------------------------ MODULE ModbusTransportProofs ------------------------
(***************************************************************************)
(* Theorems about ModbusTransport, for every set of callers, endpoint      *)
(* configurations, retry policies and bounds.                              *)
(***************************************************************************)
EXTENDS ModbusTransport, TLAPS

-----------------------------------------------------------------------------
(* The inductive invariant.                                                 *)

Working == {"take", "open", "write", "read", "park", "fail"}
Sending == {"write", "read", "park"}

\* The mutex is held exactly while a call works; only its holder has a socket.
MutexHeld ==
    \A c \in Callers :
        /\ lock = c <=> pc[c] \in Working
        /\ pc[c] \in Sending => sock[c] # 0
        /\ pc[c] \notin Sending \cup {"fail"} => sock[c] = 0

\* A held socket is alive and is not the parked one, which is alive too.
SocketsAlive ==
    /\ session # 0 => conn[session] # "closed"
    /\ \A c \in Callers : sock[c] # 0 => sock[c] # session /\ conn[sock[c]] # "closed"

\* Every call in progress has a request of its own and stays within its budget.
RequestsOwned ==
    \A c \in Callers :
        /\ req[c] # None <=> pc[c] \in Working \cup {"lock"}
        /\ \A d \in Callers : req[c] = req[d] /\ req[c] # None => c = d
        /\ IF pc[c] \in Working THEN attempt[c] + 1 <= Budget(req[c]) ELSE attempt[c] = 0

CallInv == TypeOK /\ MutexHeld /\ SocketsAlive /\ RequestsOwned

-----------------------------------------------------------------------------
\* request_attempt_budget allows at least one attempt and at most one more than
\* max_attempts.
LEMMA BudgetBounds == \A r \in Requests : Budget(r) \in 1..(MaxAttempts + 1)
  BY ModbusAssumptions DEF ModbusAssumptions, Budget

\* A driver that was just built satisfies the inductive invariant.
LEMMA InitCallInv == Init => CallInv
  <1> SUFFICES ASSUME Init PROVE CallInv
      OBVIOUS
  <1> USE ModbusAssumptions DEF ModbusAssumptions
  <1>1. fresh \in [Sockets -> BOOLEAN] /\ retryable \in [Callers -> BOOLEAN]
    BY Zenon DEF Init
  <1>2. line \in [0..MaxSockets -> Seq(Requests)]
    BY DEF Init
  <1>3. TypeOK
    BY <1>1, <1>2 DEF Init, TypeOK, Points
  <1>4. MutexHeld /\ SocketsAlive /\ RequestsOwned
    BY DEF Init, MutexHeld, SocketsAlive, RequestsOwned, Working, Sending
  <1> QED BY <1>3, <1>4 DEF CallInv

\* Closing sockets keeps the types of the wire.
LEMMA CloseType ==
    ASSUME TypeOK, NEW S, Close(S)
    PROVE  /\ conn' \in [Sockets -> {"closed", "open", "broken"}]
           /\ line' \in [0..MaxSockets -> Seq(Requests)]
           /\ \A s \in Sockets : conn'[s] = IF s \in S THEN "closed" ELSE conn[s]
  BY DEF TypeOK, Close

\* A call that returns and gives up its socket, closed or not, leaves the
\* invariant in place.
LEMMA ReturnCallInv ==
    ASSUME CallInv, NEW c \in Callers, Return(c),
           sock' = [sock EXCEPT ![c] = 0],
           conn' \in [Sockets -> {"closed", "open", "broken"}],
           \A s \in Sockets : s # sock[c] => conn'[s] = conn[s],
           line' \in [0..MaxSockets -> Seq(Requests)],
           fresh' \in [Sockets -> BOOLEAN],
           session' = session \/ (session' = sock[c] /\ pc[c] = "park" /\ conn' = conn),
           UNCHANGED <<kind, timed, breaks, sends, stops>>
    PROVE  CallInv'
  <1> USE ModbusAssumptions DEF ModbusAssumptions
  <1>1. TypeOK'
    <2>1. retryable' \in [Callers -> BOOLEAN]
      BY DEF Return, CallInv, TypeOK
    <2>2. session' \in 0..MaxSockets
      BY DEF CallInv, TypeOK
    <2>3. lock' \in Callers \cup {None} /\ req' \in [Callers -> Requests \cup {None}]
      BY DEF Return, CallInv, TypeOK
    <2>4. /\ attempt' \in [Callers -> 0..MaxAttempts]
          /\ answer' \in [Callers -> Requests \cup {None, Truncated}]
      BY DEF Return, CallInv, TypeOK
    <2>5. pc' \in [Callers -> Points] /\ sock' \in [Callers -> 0..MaxSockets]
      BY DEF Return, Goto, CallInv, TypeOK, Points
    <2> QED BY <2>1, <2>2, <2>3, <2>4, <2>5 DEF CallInv, TypeOK
  <1>2. MutexHeld'
    BY DEF Return, Goto, CallInv, TypeOK, MutexHeld, Working, Sending
  <1>3. SocketsAlive'
    <2>1. \A d \in Callers : d # c /\ sock[d] # 0 => sock[d] # sock[c]
      BY DEF CallInv, MutexHeld, Working, Sending, TypeOK, Points
    <2>2. \A d \in Callers : sock[d] # 0 => sock[d] \in Sockets
      BY DEF CallInv, TypeOK, Sockets
    <2>3. session # 0 => session \in Sockets /\ session # sock[c]
      BY DEF CallInv, TypeOK, Sockets, SocketsAlive
    <2>4. sock'[c] = 0 /\ \A d \in Callers : d # c => sock'[d] = sock[d]
      BY DEF CallInv, TypeOK
    <2>5. CASE session' = session
      BY <2>1, <2>2, <2>3, <2>4, <2>5 DEF CallInv, SocketsAlive
    <2>6. CASE session' = sock[c] /\ pc[c] = "park" /\ conn' = conn
      BY <2>1, <2>2, <2>4, <2>6 DEF CallInv, SocketsAlive, MutexHeld, Sending
    <2> QED BY <2>5, <2>6
  <1>4. RequestsOwned'
    BY DEF Return, Goto, CallInv, TypeOK, RequestsOwned, Working, Budget
  <1> QED BY <1>1, <1>2, <1>3, <1>4 DEF CallInv

\* Every step preserves the invariant of the calls.
LEMMA NextCallInv == CallInv /\ [Next]_vars => CallInv'
  <1> SUFFICES ASSUME CallInv, [Next]_vars PROVE CallInv'
      OBVIOUS
  <1> USE ModbusAssumptions DEF ModbusAssumptions
  <1>1. ASSUME NEW c \in Callers, NEW r \in Requests, Execute(c, r) PROVE CallInv'
    <2>1. TypeOK'
      BY <1>1 DEF Execute, CallInv, TypeOK, Goto, wireVars, Points
    <2>2. MutexHeld' /\ SocketsAlive'
      BY <1>1 DEF Execute, CallInv, TypeOK, MutexHeld, SocketsAlive, Goto, wireVars, Working, Sending
    <2>3. RequestsOwned'
      BY <1>1 DEF Execute, CallInv, TypeOK, RequestsOwned, Goto, Working, Budget
    <2> QED BY <2>1, <2>2, <2>3 DEF CallInv
  <1>2. ASSUME NEW c \in Callers, Lock(c) PROVE CallInv'
    <2>1. TypeOK'
      BY <1>2 DEF Lock, CallInv, TypeOK, Goto, wireVars, callVars, Points
    <2>2. MutexHeld' /\ SocketsAlive'
      BY <1>2 DEF Lock, CallInv, TypeOK, MutexHeld, SocketsAlive, Goto, wireVars, callVars, Working, Sending
    <2>3. RequestsOwned'
      BY <1>2, BudgetBounds DEF Lock, CallInv, TypeOK, RequestsOwned, Goto, callVars, Working
    <2> QED BY <2>1, <2>2, <2>3 DEF CallInv
  <1>3. ASSUME NEW c \in Callers, Take(c) PROVE CallInv'
    <2>1. /\ pc[c] = "take" /\ sock[c] = 0
          /\ UNCHANGED <<lock, kind, timed, fresh, breaks, req, attempt, retryable, answer, sends, stops>>
      BY <1>3 DEF Take, CallInv, MutexHeld, Sending
    <2>2. \/ Goto(c, "open") /\ UNCHANGED <<session, conn, line, sock>>
          \/ /\ Goto(c, "write") /\ session # 0 /\ session' = 0
             /\ sock' = [sock EXCEPT ![c] = session] /\ UNCHANGED <<conn, line>>
          \/ Goto(c, "open") /\ session' = 0 /\ Close({session}) /\ UNCHANGED sock
      BY <1>3 DEF Take
    <2>3. CASE Goto(c, "open") /\ UNCHANGED <<session, conn, line, sock>>
      BY <2>1, <2>3 DEF CallInv, TypeOK, MutexHeld, SocketsAlive, RequestsOwned, Goto, Working, Sending, Points, Budget
    <2>4. CASE /\ Goto(c, "write") /\ session # 0 /\ session' = 0
               /\ sock' = [sock EXCEPT ![c] = session] /\ UNCHANGED <<conn, line>>
      <3>1. TypeOK'
        BY <2>1, <2>4 DEF CallInv, TypeOK, Goto, Points
      <3>2. MutexHeld' /\ SocketsAlive'
        BY <2>1, <2>4 DEF CallInv, TypeOK, MutexHeld, SocketsAlive, Goto, Working, Sending
      <3>3. RequestsOwned'
        BY <2>1, <2>4 DEF CallInv, TypeOK, RequestsOwned, Goto, Working, Budget
      <3> QED BY <3>1, <3>2, <3>3 DEF CallInv
    <2>5. CASE Goto(c, "open") /\ session' = 0 /\ Close({session}) /\ UNCHANGED sock
      <3>1. TypeOK'
        BY <2>1, <2>5, CloseType DEF CallInv, TypeOK, Goto, Points
      <3>2. MutexHeld'
        BY <2>1, <2>5 DEF CallInv, TypeOK, MutexHeld, Goto, Working, Sending
      <3>4. SocketsAlive'
        <4>1. \A d \in Callers : sock[d] # 0 => sock[d] \in Sockets
          BY DEF CallInv, TypeOK, Sockets
        <4>2. \A s \in Sockets : s # session => conn'[s] = conn[s]
          BY <2>5, CloseType DEF CallInv
        <4> QED BY <2>5, <4>1, <4>2 DEF CallInv, SocketsAlive
      <3>3. RequestsOwned'
        BY <2>1, <2>5 DEF CallInv, TypeOK, RequestsOwned, Goto, Working, Budget
      <3> QED BY <3>1, <3>2, <3>3, <3>4 DEF CallInv
    <2> QED BY <2>2, <2>3, <2>4, <2>5
  <1>4. ASSUME NEW c \in Callers, Open(c) PROVE CallInv'
    <2>1. /\ pc[c] = "open" /\ sock[c] = 0
          /\ UNCHANGED <<lock, session, breaks, req, attempt, answer, sends, stops>>
      BY <1>4 DEF Open, CallInv, MutexHeld, Sending
    <2>2. CASE \E s \in Sockets :
                 /\ FreeSocket(s)
                 /\ conn' = [conn EXCEPT ![s] = "open"]
                 /\ kind' = [kind EXCEPT ![s] = KindOf(Config[c].family)]
                 /\ fresh' = [fresh EXCEPT ![s] = TRUE]
                 /\ timed' = [timed EXCEPT ![s] = HasDeadline(c)]
                 /\ line' = line \/ line' = [line EXCEPT ![0] = <<>>]
                 /\ sock' = [sock EXCEPT ![c] = s]
                 /\ Goto(c, "write") /\ UNCHANGED retryable
      <3>1. PICK s \in Sockets :
                 /\ FreeSocket(s)
                 /\ conn' = [conn EXCEPT ![s] = "open"]
                 /\ kind' = [kind EXCEPT ![s] = KindOf(Config[c].family)]
                 /\ fresh' = [fresh EXCEPT ![s] = TRUE]
                 /\ timed' = [timed EXCEPT ![s] = HasDeadline(c)]
                 /\ line' = line \/ line' = [line EXCEPT ![0] = <<>>]
                 /\ sock' = [sock EXCEPT ![c] = s]
                 /\ Goto(c, "write") /\ UNCHANGED retryable
        BY <2>2
      <3>2. TypeOK'
        <4>1. line' \in [0..MaxSockets -> Seq(Requests)]
          <5>1. <<>> \in Seq(Requests)
            OBVIOUS
          <5>2. CASE line' = [line EXCEPT ![0] = <<>>]
            BY <5>1, <5>2 DEF CallInv, TypeOK
          <5> QED BY <3>1, <5>2 DEF CallInv, TypeOK
        <4>2. fresh' \in [Sockets -> BOOLEAN]
          BY <3>1 DEF CallInv, TypeOK
        <4>3. kind' \in [Sockets -> {"stream", "datagram", "serial"}]
          BY <3>1 DEF CallInv, TypeOK, KindOf
        <4>6. timed' \in [Sockets -> BOOLEAN]
          <5>1. HasDeadline(c) \in BOOLEAN
            BY DEF HasDeadline
          <5> QED BY <3>1, <5>1 DEF CallInv, TypeOK
        <4>4. sock' \in [Callers -> 0..MaxSockets]
          BY <3>1 DEF CallInv, TypeOK, Sockets
        <4>5. conn' \in [Sockets -> {"closed", "open", "broken"}] /\ pc' \in [Callers -> Points]
          BY <3>1 DEF CallInv, TypeOK, Goto, Points
        <4> QED BY <2>1, <3>1, <4>1, <4>2, <4>3, <4>4, <4>5, <4>6 DEF CallInv, TypeOK
      <3>3. MutexHeld'
        BY <2>1, <3>1 DEF CallInv, TypeOK, MutexHeld, Goto, Working, Sending, Sockets
      <3>4. SocketsAlive'
        <4>1. \A d \in Callers : sock[d] # 0 => sock[d] \in Sockets /\ sock[d] # s
          BY <3>1 DEF CallInv, TypeOK, Sockets, FreeSocket
        <4>2. session # s /\ (session # 0 => session \in Sockets)
          BY <3>1 DEF CallInv, TypeOK, Sockets, FreeSocket
        <4>3. conn'[s] = "open" /\ \A t \in Sockets : t # s => conn'[t] = conn[t]
          BY <3>1 DEF CallInv, TypeOK
        <4>4. sock'[c] = s /\ \A d \in Callers : d # c => sock'[d] = sock[d]
          BY <3>1 DEF CallInv, TypeOK
        <4> QED BY <2>1, <4>1, <4>2, <4>3, <4>4 DEF CallInv, SocketsAlive
      <3>5. RequestsOwned'
        BY <2>1, <3>1 DEF CallInv, TypeOK, RequestsOwned, Goto, Working, Budget
      <3> QED BY <3>2, <3>3, <3>4, <3>5 DEF CallInv
    <2>3. CASE /\ \E b \in BOOLEAN : retryable' = [retryable EXCEPT ![c] = b]
               /\ Goto(c, "fail") /\ UNCHANGED <<conn, kind, timed, fresh, line, sock>>
      <3>1. TypeOK'
        BY <2>1, <2>3 DEF CallInv, TypeOK, Goto, Points
      <3>2. MutexHeld' /\ SocketsAlive'
        BY <2>1, <2>3 DEF CallInv, TypeOK, MutexHeld, SocketsAlive, Goto, Working, Sending
      <3>3. RequestsOwned'
        BY <2>1, <2>3 DEF CallInv, TypeOK, RequestsOwned, Goto, Working, Budget
      <3> QED BY <3>1, <3>2, <3>3 DEF CallInv
    <2> QED BY <1>4, <2>2, <2>3 DEF Open
  <1>5. ASSUME NEW c \in Callers, Write(c) PROVE CallInv'
    <2>1. /\ pc[c] = "write" /\ pc' \in {[pc EXCEPT ![c] = "read"], [pc EXCEPT ![c] = "fail"]}
          /\ UNCHANGED <<lock, session, conn, kind, timed, fresh, breaks, req, sock, attempt, answer, stops>>
      BY <1>5 DEF Write, Goto
    <2>2. TypeOK'
      <3>1. req[c] \in Requests
        BY <2>1 DEF CallInv, TypeOK, RequestsOwned, Working
      <3>2. sends' \in [Requests -> Nat]
        BY <1>5, <3>1 DEF Write, CallInv, TypeOK
      <3>3. line' \in [0..MaxSockets -> Seq(Requests)]
        <4>1. LineOf(sock[c]) \in 0..MaxSockets
          BY DEF CallInv, TypeOK, LineOf
        <4>2. CASE line' = [line EXCEPT ![LineOf(sock[c])] = Append(@, req[c])]
          BY <3>1, <4>1, <4>2 DEF CallInv, TypeOK
        <4> QED BY <1>5, <4>2 DEF Write, CallInv, TypeOK
      <3>4. retryable' \in [Callers -> BOOLEAN]
        BY <1>5 DEF Write, CallInv, TypeOK
      <3> QED BY <2>1, <3>2, <3>3, <3>4 DEF CallInv, TypeOK, Points
    <2>3. \A d \in Callers :
            /\ pc'[d] \in Working <=> pc[d] \in Working
            /\ pc'[d] \in Working \cup {"lock"} <=> pc[d] \in Working \cup {"lock"}
            /\ pc'[d] \in Sending => pc[d] \in Sending
            /\ pc[d] \in Sending \cup {"fail"} => pc'[d] \in Sending \cup {"fail"}
      BY <2>1 DEF CallInv, TypeOK, Working, Sending
    <2>4. MutexHeld'
      <3> SUFFICES ASSUME NEW d \in Callers
                   PROVE  /\ lock = d <=> pc'[d] \in Working
                          /\ pc'[d] \in Sending => sock[d] # 0
                          /\ pc'[d] \notin Sending \cup {"fail"} => sock[d] = 0
        BY <2>1 DEF MutexHeld, Working, Sending
      <3>1. /\ lock = d <=> pc[d] \in Working
            /\ pc[d] \in Sending => sock[d] # 0
            /\ pc[d] \notin Sending \cup {"fail"} => sock[d] = 0
        BY DEF CallInv, MutexHeld
      <3> QED BY <2>3, <3>1
    <2>5. SocketsAlive'
      BY <2>1 DEF CallInv, SocketsAlive
    <2>6. RequestsOwned'
      <3> SUFFICES ASSUME NEW d \in Callers
                   PROVE  /\ req[d] # None <=> pc'[d] \in Working \cup {"lock"}
                          /\ \A e \in Callers : req[d] = req[e] /\ req[d] # None => d = e
                          /\ IF pc'[d] \in Working THEN attempt[d] + 1 <= Budget(req[d])
                             ELSE attempt[d] = 0
        BY <2>1 DEF RequestsOwned, Budget, Working
      <3>1. /\ req[d] # None <=> pc[d] \in Working \cup {"lock"}
            /\ \A e \in Callers : req[d] = req[e] /\ req[d] # None => d = e
            /\ IF pc[d] \in Working THEN attempt[d] + 1 <= Budget(req[d]) ELSE attempt[d] = 0
        BY DEF CallInv, RequestsOwned
      <3> QED BY <2>3, <3>1
    <2> QED BY <2>2, <2>4, <2>5, <2>6 DEF CallInv
  <1>6. ASSUME NEW c \in Callers, ReadAnswer(c) PROVE CallInv'
    <2>1. /\ pc[c] = "read" /\ pc' \in {[pc EXCEPT ![c] = "park"], [pc EXCEPT ![c] = "fail"]}
          /\ UNCHANGED <<lock, session, conn, kind, timed, fresh, breaks, req, sock, attempt, sends, stops>>
      BY <1>6 DEF ReadAnswer, Goto
    <2>2. TypeOK'
      <3>1. LineOf(sock[c]) \in 0..MaxSockets
        BY DEF CallInv, TypeOK, LineOf
      <3>2. /\ line[LineOf(sock[c])] \in Seq(Requests) /\ line[LineOf(sock[c])] # <<>>
            /\ line' = [line EXCEPT ![LineOf(sock[c])] = Tail(@)]
        BY <1>6, <3>1 DEF ReadAnswer, CallInv, TypeOK
      <3>3. line' \in [0..MaxSockets -> Seq(Requests)]
        BY <3>1, <3>2 DEF CallInv, TypeOK
      <3>4. answer' \in [Callers -> Requests \cup {None, Truncated}]
        <4>1. Head(line[LineOf(sock[c])]) \in Requests
          BY <3>2
        <4> QED BY <1>6, <4>1 DEF ReadAnswer, CallInv, TypeOK
      <3>5. retryable' \in [Callers -> BOOLEAN]
        BY <1>6 DEF ReadAnswer, CallInv, TypeOK
      <3> QED BY <2>1, <3>3, <3>4, <3>5 DEF CallInv, TypeOK, Points
    <2>3. \A d \in Callers :
            /\ pc'[d] \in Working <=> pc[d] \in Working
            /\ pc'[d] \in Working \cup {"lock"} <=> pc[d] \in Working \cup {"lock"}
            /\ pc'[d] \in Sending => pc[d] \in Sending
            /\ pc[d] \in Sending \cup {"fail"} => pc'[d] \in Sending \cup {"fail"}
      BY <2>1 DEF CallInv, TypeOK, Working, Sending
    <2>4. MutexHeld'
      <3> SUFFICES ASSUME NEW d \in Callers
                   PROVE  /\ lock = d <=> pc'[d] \in Working
                          /\ pc'[d] \in Sending => sock[d] # 0
                          /\ pc'[d] \notin Sending \cup {"fail"} => sock[d] = 0
        BY <2>1 DEF MutexHeld, Working, Sending
      <3>1. /\ lock = d <=> pc[d] \in Working
            /\ pc[d] \in Sending => sock[d] # 0
            /\ pc[d] \notin Sending \cup {"fail"} => sock[d] = 0
        BY DEF CallInv, MutexHeld
      <3> QED BY <2>3, <3>1
    <2>5. SocketsAlive'
      BY <2>1 DEF CallInv, SocketsAlive
    <2>6. RequestsOwned'
      <3> SUFFICES ASSUME NEW d \in Callers
                   PROVE  /\ req[d] # None <=> pc'[d] \in Working \cup {"lock"}
                          /\ \A e \in Callers : req[d] = req[e] /\ req[d] # None => d = e
                          /\ IF pc'[d] \in Working THEN attempt[d] + 1 <= Budget(req[d])
                             ELSE attempt[d] = 0
        BY <2>1 DEF RequestsOwned, Budget, Working
      <3>1. /\ req[d] # None <=> pc[d] \in Working \cup {"lock"}
            /\ \A e \in Callers : req[d] = req[e] /\ req[d] # None => d = e
            /\ IF pc[d] \in Working THEN attempt[d] + 1 <= Budget(req[d]) ELSE attempt[d] = 0
        BY DEF CallInv, RequestsOwned
      <3> QED BY <2>3, <3>1
    <2> QED BY <2>2, <2>4, <2>5, <2>6 DEF CallInv
  <1>7. ASSUME NEW c \in Callers, ReadFails(c) PROVE CallInv'
    <2>1. TypeOK'
      <3>1. retryable' \in [Callers -> BOOLEAN]
        BY <1>7 DEF ReadFails, CallInv, TypeOK
      <3>2. pc' \in [Callers -> Points]
        BY <1>7 DEF ReadFails, CallInv, TypeOK, Goto, Points
      <3> QED BY <1>7, <3>1, <3>2 DEF ReadFails, CallInv, TypeOK, wireVars
    <2>2. MutexHeld' /\ SocketsAlive' /\ RequestsOwned'
      BY <1>7 DEF ReadFails, CallInv, TypeOK, MutexHeld, SocketsAlive, RequestsOwned, Goto, wireVars, Working,
         Sending, Budget
    <2> QED BY <2>1, <2>2 DEF CallInv
  <1>8. ASSUME NEW c \in Callers, Park(c) PROVE CallInv'
    <2>1. /\ pc[c] = "park" /\ Return(c) /\ sock' = [sock EXCEPT ![c] = 0]
          /\ UNCHANGED <<kind, timed, breaks, sends, stops>>
          /\ fresh' \in [Sockets -> BOOLEAN]
      BY <1>8 DEF Park, CallInv, TypeOK
    <2>2. \/ session' = sock[c] /\ UNCHANGED <<conn, line>>
          \/ Close({sock[c]}) /\ UNCHANGED session
      BY <1>8 DEF Park
    <2>3. CASE session' = sock[c] /\ UNCHANGED <<conn, line>>
      BY <2>1, <2>3, ReturnCallInv DEF CallInv, TypeOK
    <2>4. CASE Close({sock[c]}) /\ UNCHANGED session
      <3>1. TypeOK
        BY DEF CallInv
      <3>2. /\ conn' \in [Sockets -> {"closed", "open", "broken"}]
            /\ line' \in [0..MaxSockets -> Seq(Requests)]
            /\ \A s \in Sockets : s # sock[c] => conn'[s] = conn[s]
        BY <2>4, <3>1, CloseType
      <3> QED BY <2>1, <2>4, <3>2, ReturnCallInv
    <2> QED BY <2>2, <2>3, <2>4
  <1>9. ASSUME NEW c \in Callers, Fail(c) PROVE CallInv'
    <2>1. /\ pc[c] = "fail" /\ Close({sock[c]}) /\ sock' = [sock EXCEPT ![c] = 0]
          /\ UNCHANGED <<session, kind, timed, fresh, breaks, sends, stops>>
      BY <1>9 DEF Fail
    <2>4. TypeOK
      BY DEF CallInv
    <2>5. /\ conn' \in [Sockets -> {"closed", "open", "broken"}]
          /\ line' \in [0..MaxSockets -> Seq(Requests)]
          /\ \A s \in Sockets : s # sock[c] => conn'[s] = conn[s]
      BY <2>1, <2>4, CloseType
    <2>6. fresh' \in [Sockets -> BOOLEAN]
      BY <2>1, <2>4 DEF TypeOK
    <2>2. CASE Return(c)
      BY <2>1, <2>2, <2>5, <2>6, ReturnCallInv
    <2>3. CASE /\ attempt[c] + 1 < Budget(req[c]) /\ attempt' = [attempt EXCEPT ![c] = @ + 1]
               /\ retryable' = [retryable EXCEPT ![c] = FALSE]
               /\ Goto(c, "take") /\ UNCHANGED <<lock, req, answer>>
      <3>1. req[c] \in Requests /\ Budget(req[c]) \in 1..(MaxAttempts + 1)
        BY <2>1, BudgetBounds DEF CallInv, TypeOK, RequestsOwned, Working
      <3>2. TypeOK'
        <4>1. attempt' \in [Callers -> 0..MaxAttempts]
          BY <2>3, <3>1 DEF CallInv, TypeOK
        <4>2. retryable' \in [Callers -> BOOLEAN]
          BY <2>3, <2>4 DEF TypeOK
        <4>3. pc' \in [Callers -> Points] /\ sock' \in [Callers -> 0..MaxSockets]
          BY <2>1, <2>3, <2>4 DEF TypeOK, Goto, Points
        <4> QED BY <2>1, <2>3, <2>4, <2>5, <4>1, <4>2, <4>3 DEF TypeOK
      <3>3. MutexHeld'
        BY <2>1, <2>3 DEF CallInv, TypeOK, MutexHeld, Goto, Working, Sending
      <3>4. SocketsAlive'
        <4>1. \A d \in Callers : d # c /\ sock[d] # 0 => sock[d] # sock[c]
          BY <2>1 DEF CallInv, MutexHeld, Working, Sending, TypeOK, Points
        <4>2. \A d \in Callers : sock[d] # 0 => sock[d] \in Sockets
          BY DEF CallInv, TypeOK, Sockets
        <4>3. session # 0 => session \in Sockets /\ session # sock[c]
          BY DEF CallInv, TypeOK, Sockets, SocketsAlive
        <4>4. sock'[c] = 0 /\ \A d \in Callers : d # c => sock'[d] = sock[d]
          BY <2>1 DEF CallInv, TypeOK
        <4> QED BY <2>1, <2>5, <4>1, <4>2, <4>3, <4>4 DEF CallInv, SocketsAlive
      <3>5. RequestsOwned'
        <4>1. /\ pc'[c] = "take" /\ attempt'[c] = attempt[c] + 1 /\ attempt[c] \in Nat
              /\ \A d \in Callers : d # c => pc'[d] = pc[d] /\ attempt'[d] = attempt[d]
          BY <2>3, <2>4 DEF TypeOK, Goto
        <4>2. attempt[c] + 1 + 1 <= Budget(req[c])
          BY <2>3, <3>1, <4>1
        <4> QED BY <2>1, <2>3, <4>1, <4>2 DEF CallInv, RequestsOwned, Working
      <3> QED BY <3>2, <3>3, <3>4, <3>5 DEF CallInv
    <2> QED BY <1>9, <2>2, <2>3 DEF Fail
  <1>10. ASSUME NEW c \in Callers, Cancel(c) PROVE CallInv'
    <2>1. TypeOK
      BY DEF CallInv
    <2>2. /\ conn' \in [Sockets -> {"closed", "open", "broken"}]
          /\ line' \in [0..MaxSockets -> Seq(Requests)]
          /\ \A s \in Sockets : s # sock[c] => conn'[s] = conn[s]
      BY <1>10, <2>1, CloseType DEF Cancel
    <2>3. fresh' \in [Sockets -> BOOLEAN]
      BY <1>10, <2>1 DEF Cancel, TypeOK
    <2> QED BY <1>10, <2>2, <2>3, ReturnCallInv DEF Cancel
  <1>11. ASSUME NEW c \in Callers, CallStop(c) PROVE CallInv'
    <2>1. TypeOK'
      BY <1>11 DEF CallStop, CallInv, TypeOK, Goto, wireVars, Points
    <2>2. MutexHeld' /\ SocketsAlive' /\ RequestsOwned'
      BY <1>11 DEF CallStop, CallInv, TypeOK, MutexHeld, SocketsAlive, RequestsOwned, Goto, wireVars, Working,
         Sending, Budget
    <2> QED BY <2>1, <2>2 DEF CallInv
  <1>12. ASSUME NEW c \in Callers, Stop(c) PROVE CallInv'
    <2>1. /\ pc[c] = "s_lock" /\ Close({session}) /\ session' = 0 /\ Goto(c, "idle")
          /\ UNCHANGED <<lock, kind, timed, fresh, breaks, req, sock, attempt, retryable, answer, sends, stops>>
      BY <1>12 DEF Stop, callVars
    <2>2. TypeOK'
      <3>1. TypeOK
        BY DEF CallInv
      <3>2. /\ conn' \in [Sockets -> {"closed", "open", "broken"}]
            /\ line' \in [0..MaxSockets -> Seq(Requests)]
        BY <2>1, <3>1, CloseType
      <3>3. pc' \in [Callers -> Points]
        BY <2>1, <3>1 DEF TypeOK, Goto, Points
      <3>4. session' \in 0..MaxSockets
        BY <2>1
      <3> QED BY <2>1, <3>1, <3>2, <3>3, <3>4 DEF TypeOK
    <2>3. MutexHeld' /\ RequestsOwned'
      BY <2>1 DEF CallInv, TypeOK, MutexHeld, RequestsOwned, Goto, Working, Sending, Budget
    <2>4. SocketsAlive'
      <3>1. \A d \in Callers : sock[d] # 0 => sock[d] \in Sockets
        BY DEF CallInv, TypeOK, Sockets
      <3>2. \A s \in Sockets : s # session => conn'[s] = conn[s]
        BY <2>1, CloseType DEF CallInv
      <3> QED BY <2>1, <3>1, <3>2 DEF CallInv, SocketsAlive
    <2> QED BY <2>2, <2>3, <2>4 DEF CallInv
  <1>13. ASSUME NEW s \in Sockets, Break(s) PROVE CallInv'
    <2>1. /\ conn' = [conn EXCEPT ![s] = "broken"] /\ breaks < MaxBreaks /\ breaks' = breaks + 1
          /\ UNCHANGED <<lock, session, kind, timed, fresh, line, pc, req, sock, attempt, retryable, answer, sends, stops>>
      BY <1>13 DEF Break, callVars
    <2>2. TypeOK'
      BY <2>1 DEF CallInv, TypeOK
    <2>3. MutexHeld' /\ RequestsOwned'
      BY <2>1 DEF CallInv, MutexHeld, RequestsOwned, Budget
    <2>4. SocketsAlive'
      <3>1. \A t \in 0..MaxSockets : t # 0 /\ conn[t] # "closed" => conn'[t] # "closed"
        BY <2>1 DEF CallInv, TypeOK, Sockets
      <3> QED BY <2>1, <3>1 DEF CallInv, SocketsAlive, TypeOK
    <2> QED BY <2>2, <2>3, <2>4 DEF CallInv
  <1>14. CASE UNCHANGED vars
    BY <1>14 DEF vars, wireVars, callVars, CallInv, TypeOK, MutexHeld, SocketsAlive, RequestsOwned, Budget
  <1> QED
    BY <1>1, <1>2, <1>3, <1>4, <1>5, <1>6, <1>7, <1>8, <1>9, <1>10, <1>11, <1>12, <1>13, <1>14
       DEF Next, Step

\* TypeOK holds in every reachable state: the request path keeps its types, and
\* the attempt counter its bound, under any interleaving and cancellation.
THEOREM TypeCorrect == Spec => []TypeOK
  <1>1. CallInv => TypeOK
    BY DEF CallInv
  <1> QED BY <1>1, InitCallInv, NextCallInv, PTL DEF Spec

\* The invariant of the calls holds in every reachable state.
LEMMA CallInvAlways == Spec => []CallInv
  BY InitCallInv, NextCallInv, PTL DEF Spec

-----------------------------------------------------------------------------
(* Retries.                                                                 *)

\* A call that has not sent in this attempt has sent at most once in each
\* earlier one; a request nobody executes is within its budget.
SendsCounted ==
    \A r \in Requests :
        /\ sends[r] <= Budget(r)
        /\ \A c \in Callers : req[c] = r =>
             /\ pc[c] = "lock" => sends[r] = 0
             /\ pc[c] \in {"take", "open", "write"} => sends[r] <= attempt[c]
             /\ pc[c] \in {"read", "park", "fail"} => sends[r] <= attempt[c] + 1

\* The counts survive every step; only Write adds to them.
LEMMA NextSendsCounted == CallInv /\ CallInv' /\ SendsCounted /\ [Next]_vars => SendsCounted'
  <1> SUFFICES ASSUME CallInv, CallInv', SendsCounted, [Next]_vars PROVE SendsCounted'
      OBVIOUS
  <1> USE ModbusAssumptions DEF ModbusAssumptions
  <1>0. /\ sends \in [Requests -> Nat] /\ attempt \in [Callers -> 0..MaxAttempts]
        /\ pc \in [Callers -> Points] /\ req \in [Callers -> Requests \cup {None}]
        /\ sends' \in [Requests -> Nat] /\ attempt' \in [Callers -> 0..MaxAttempts]
    BY DEF CallInv, TypeOK
  <1>1. ASSUME NEW c \in Callers, NEW r \in Requests, Execute(c, r) PROVE SendsCounted'
    BY <1>0, <1>1 DEF Execute, Goto, SendsCounted, Budget
  <1>2. ASSUME NEW c \in Callers, Lock(c) PROVE SendsCounted'
    BY <1>0, <1>2 DEF Lock, Goto, callVars, SendsCounted, Budget
  <1>3. ASSUME NEW c \in Callers, Take(c) PROVE SendsCounted'
    <2>1. /\ pc[c] = "take" /\ pc'[c] \in {"open", "write"}
          /\ \A d \in Callers : d # c => pc'[d] = pc[d]
          /\ UNCHANGED <<req, attempt, sends>>
      BY <1>0, <1>3 DEF Take, Goto
    <2> QED BY <1>0, <2>1 DEF SendsCounted, Budget
  <1>4. ASSUME NEW c \in Callers, Open(c) PROVE SendsCounted'
    <2>1. /\ pc[c] = "open" /\ pc'[c] \in {"write", "fail"}
          /\ \A d \in Callers : d # c => pc'[d] = pc[d]
          /\ UNCHANGED <<req, attempt, sends>>
      BY <1>0, <1>4 DEF Open, Goto
    <2> QED BY <1>0, <2>1 DEF SendsCounted, Budget
  <1>5. ASSUME NEW c \in Callers, Write(c) PROVE SendsCounted'
    <2>1. /\ pc[c] = "write" /\ pc'[c] \in {"read", "fail"}
          /\ \A d \in Callers : d # c => pc'[d] = pc[d]
          /\ UNCHANGED <<req, attempt>>
      BY <1>0, <1>5 DEF Write, Goto
    <2>2. /\ req[c] \in Requests /\ attempt[c] + 1 <= Budget(req[c])
          /\ \A d \in Callers : d # c => req[d] # req[c]
      BY <1>0, <2>1 DEF CallInv, RequestsOwned, Working
    <2>3. /\ sends'[req[c]] <= sends[req[c]] + 1
          /\ \A r \in Requests : r # req[c] => sends'[r] = sends[r]
      BY <1>0, <1>5, <2>2 DEF Write
    <2>4. sends[req[c]] <= attempt[c]
      BY <2>1, <2>2 DEF SendsCounted
    <2>5. ASSUME NEW r \in Requests PROVE sends'[r] <= Budget(r)
      BY <1>0, <2>2, <2>3, <2>4, BudgetBounds DEF SendsCounted
    <2> QED BY <1>0, <2>1, <2>2, <2>3, <2>4, <2>5 DEF SendsCounted, Budget
  <1>6. ASSUME NEW c \in Callers, ReadAnswer(c) \/ ReadFails(c) PROVE SendsCounted'
    <2>1. /\ pc[c] = "read" /\ pc'[c] \in {"park", "fail"}
          /\ \A d \in Callers : d # c => pc'[d] = pc[d]
          /\ UNCHANGED <<req, attempt, sends>>
      BY <1>0, <1>6 DEF ReadAnswer, ReadFails, Goto
    <2> QED BY <1>0, <2>1 DEF SendsCounted, Budget
  <1>7. ASSUME NEW c \in Callers, Return(c), UNCHANGED sends PROVE SendsCounted'
    <2>1. /\ req'[c] = None
          /\ \A d \in Callers : d # c => pc'[d] = pc[d] /\ req'[d] = req[d] /\ attempt'[d] = attempt[d]
      BY <1>0, <1>7 DEF Return, Goto
    <2> QED BY <1>0, <1>7, <2>1 DEF SendsCounted, Budget
  <1>8. ASSUME NEW c \in Callers, Fail(c) PROVE SendsCounted'
    <2>1. CASE /\ attempt' = [attempt EXCEPT ![c] = @ + 1]
               /\ Goto(c, "take") /\ UNCHANGED <<req, sends>>
      <3>1. /\ pc[c] = "fail" /\ pc'[c] = "take" /\ attempt'[c] = attempt[c] + 1
            /\ \A d \in Callers : d # c => pc'[d] = pc[d] /\ attempt'[d] = attempt[d]
        BY <1>0, <1>8, <2>1 DEF Fail, Goto
      <3> QED BY <1>0, <2>1, <3>1 DEF SendsCounted, Budget
    <2> QED BY <1>7, <1>8, <2>1 DEF Fail
  <1>9. ASSUME NEW c \in Callers, CallStop(c) \/ Stop(c) PROVE SendsCounted'
    <2>1. /\ pc'[c] \in {"s_lock", "idle"}
          /\ \A d \in Callers : d # c => pc'[d] = pc[d]
          /\ UNCHANGED <<req, attempt, sends>>
      BY <1>0, <1>9 DEF CallStop, Stop, Goto, callVars
    <2> QED BY <1>0, <2>1 DEF SendsCounted, Budget
  <1>10. ASSUME NEW s \in Sockets, Break(s) PROVE SendsCounted'
    BY <1>10 DEF Break, callVars, SendsCounted, Budget
  <1>11. CASE UNCHANGED vars
    BY <1>11 DEF vars, callVars, SendsCounted, Budget
  <1>12. ASSUME NEW c \in Callers, Park(c) \/ Cancel(c) PROVE SendsCounted'
    BY <1>7, <1>12 DEF Park, Cancel
  <1> QED
    BY <1>1, <1>2, <1>3, <1>4, <1>5, <1>6, <1>8, <1>9, <1>10, <1>11, <1>12 DEF Next, Step

\* SendsWithinBudget holds in every reachable state, for every retry policy: a
\* write that must not be retried reaches the wire at most once, also when its
\* call is cancelled or the connection breaks after it was sent.
THEOREM SendsBounded == Spec => []SendsWithinBudget
  <1>1. Init => SendsCounted
    BY ModbusAssumptions, BudgetBounds DEF ModbusAssumptions, Init, SendsCounted
  <1>2. CallInv /\ SendsCounted => SendsWithinBudget
    <2> SUFFICES ASSUME CallInv, SendsCounted, NEW r \in Requests
                 PROVE  sends[r] <= IF r \in Writes /\ ~RetryWrites THEN 1 ELSE MaxAttempts + 1
      BY DEF SendsWithinBudget
    <2>1. sends[r] \in Nat /\ MaxAttempts \in Nat
      BY ModbusAssumptions DEF ModbusAssumptions, CallInv, TypeOK
    <2>2. sends[r] <= Budget(r) /\ Budget(r) \in 1..(MaxAttempts + 1)
      BY BudgetBounds DEF SendsCounted
    <2>3. r \in Writes /\ ~RetryWrites => Budget(r) = 1
      BY DEF Budget
    <2> QED BY <2>1, <2>2, <2>3
  <1> QED BY <1>1, <1>2, CallInvAlways, NextSendsCounted, PTL DEF Spec

-----------------------------------------------------------------------------
(* Which socket a caller may use.                                           *)

\* Every step keeps each caller on a socket that fits its endpoint: Take checks
\* the parked one, Open makes a new one that nobody holds, and only the holder
\* of the mutex marks a socket as used.
LEMMA NextSocketFits == CallInv /\ SocketFits /\ [Next]_vars => SocketFits'
  <1> SUFFICES ASSUME CallInv, SocketFits, [Next]_vars PROVE SocketFits'
      OBVIOUS
  <1> USE ModbusAssumptions DEF ModbusAssumptions
  <1>0. /\ pc \in [Callers -> Points] /\ sock \in [Callers -> 0..MaxSockets]
        /\ kind \in [Sockets -> {"stream", "datagram", "serial"}]
        /\ fresh \in [Sockets -> BOOLEAN] /\ session \in 0..MaxSockets
    BY DEF CallInv, TypeOK
  <1>1. ASSUME UNCHANGED <<kind, fresh>>, NEW c \in Callers,
               pc'[c] \in Sending => pc[c] \in Sending /\ sock'[c] = sock[c],
               \A d \in Callers : d # c => pc'[d] = pc[d] /\ sock'[d] = sock[d]
        PROVE  SocketFits'
    BY <1>1 DEF SocketFits, Sending
  <1>2. ASSUME NEW c \in Callers, NEW r \in Requests, Execute(c, r) PROVE SocketFits'
    <2>1. pc'[c] \notin Sending /\ \A d \in Callers : d # c => pc'[d] = pc[d] /\ sock'[d] = sock[d]
      BY <1>0, <1>2 DEF Execute, Goto, Sending
    <2> QED BY <1>1, <1>2, <2>1 DEF Execute, wireVars
  <1>3. ASSUME NEW c \in Callers, Lock(c) \/ CallStop(c) \/ Stop(c) PROVE SocketFits'
    <2>1. pc'[c] \notin Sending /\ \A d \in Callers : d # c => pc'[d] = pc[d] /\ sock'[d] = sock[d]
      BY <1>0, <1>3 DEF Lock, CallStop, Stop, Goto, Sending, callVars
    <2> QED BY <1>1, <1>3, <2>1 DEF Lock, CallStop, Stop, wireVars
  <1>4. ASSUME NEW c \in Callers, Take(c) PROVE SocketFits'
    <2>1. \A d \in Callers : d # c => pc'[d] = pc[d] /\ sock'[d] = sock[d]
      BY <1>0, <1>4 DEF Take, Goto
    <2>2. \/ pc'[c] = "open"
          \/ /\ pc'[c] = "write" /\ sock'[c] = session
             /\ Config[c].persistent /\ kind[session] = KindOf(Config[c].family)
      BY <1>0, <1>4 DEF Take, Goto
    <2>3. UNCHANGED <<kind, fresh>>
      BY <1>4 DEF Take
    <2> QED BY <2>1, <2>2, <2>3 DEF SocketFits
  <1>5. ASSUME NEW c \in Callers, Open(c) PROVE SocketFits'
    <2>1. \A d \in Callers : d # c => pc'[d] = pc[d] /\ sock'[d] = sock[d]
      BY <1>0, <1>5 DEF Open, Goto
    <2>2. CASE pc'[c] = "fail" /\ UNCHANGED <<kind, fresh>>
      BY <2>1, <2>2 DEF SocketFits
    <2>3. ASSUME NEW s \in Sockets, FreeSocket(s), pc'[c] = "write", sock'[c] = s,
                 kind' = [kind EXCEPT ![s] = KindOf(Config[c].family)],
                 fresh' = [fresh EXCEPT ![s] = TRUE]
          PROVE  SocketFits'
      <3>1. kind'[s] = KindOf(Config[c].family) /\ fresh'[s] = TRUE
        BY <1>0, <2>3
      <3>2. \A d \in Callers : sock[d] # s
        BY <2>3 DEF FreeSocket
      <3>3. \A t \in Sockets : t # s => kind'[t] = kind[t] /\ fresh'[t] = fresh[t]
        BY <1>0, <2>3
      <3>4. \A d \in Callers : pc[d] \in Sending => sock[d] \in Sockets
        BY <1>0 DEF CallInv, MutexHeld, Sockets
      <3> QED BY <2>1, <2>3, <3>1, <3>2, <3>3, <3>4 DEF SocketFits, Sending
    <2>4. \/ pc'[c] = "fail" /\ UNCHANGED <<kind, fresh>>
          \/ \E s \in Sockets : /\ FreeSocket(s) /\ pc'[c] = "write" /\ sock'[c] = s
                                /\ kind' = [kind EXCEPT ![s] = KindOf(Config[c].family)]
                                /\ fresh' = [fresh EXCEPT ![s] = TRUE]
      BY <1>0, <1>5 DEF Open, Goto
    <2> QED BY <2>2, <2>3, <2>4
  <1>6. ASSUME NEW c \in Callers, Write(c) \/ ReadAnswer(c) \/ ReadFails(c) PROVE SocketFits'
    <2>1. /\ pc[c] \in Sending /\ \A d \in Callers : d # c => pc'[d] = pc[d]
          /\ UNCHANGED <<kind, fresh, sock>>
      BY <1>0, <1>6 DEF Write, ReadAnswer, ReadFails, Goto, Sending, wireVars
    <2> QED BY <1>1, <2>1
  <1>7. ASSUME NEW c \in Callers, Park(c) PROVE SocketFits'
    <2>1. /\ pc'[c] = "idle" /\ \A d \in Callers : d # c => pc'[d] = pc[d]
          /\ pc[c] = "park"
      BY <1>0, <1>7 DEF Park, Return, Goto
    <2>2. \A d \in Callers : d # c => pc[d] \notin Sending
      BY <2>1 DEF CallInv, MutexHeld, Working, Sending
    <2> QED BY <2>1, <2>2 DEF SocketFits, Sending
  <1>8. ASSUME NEW c \in Callers, Fail(c) \/ Cancel(c) PROVE SocketFits'
    <2>1. /\ pc'[c] \in {"take", "idle"}
          /\ \A d \in Callers : d # c => pc'[d] = pc[d] /\ sock'[d] = sock[d]
          /\ UNCHANGED <<kind, fresh>>
      BY <1>0, <1>8 DEF Fail, Cancel, Return, Goto
    <2> QED BY <1>1, <2>1 DEF Sending
  <1>9. ASSUME NEW s \in Sockets, Break(s) PROVE SocketFits'
    BY <1>9 DEF Break, callVars, SocketFits
  <1>10. CASE UNCHANGED vars
    BY <1>10 DEF vars, callVars, wireVars, SocketFits
  <1> QED
    BY <1>2, <1>3, <1>4, <1>5, <1>6, <1>7, <1>8, <1>9, <1>10 DEF Next, Step

\* SocketFits holds in every reachable state, whatever mix of endpoint families
\* and persistence settings the clones that share the session carry.
THEOREM SocketsFit == Spec => []SocketFits
  <1>1. Init => SocketFits
    BY DEF Init, SocketFits
  <1> QED BY <1>1, CallInvAlways, NextSocketFits, PTL DEF Spec

-----------------------------------------------------------------------------
(* Whose answer a call returns.                                             *)

\* A caller that talks over the network, not over the serial line.
Networked(c) == Config[c].family \in {"tcp", "udp"}

\* No answer is left on a socket that is closed, parked or about to be written
\* to; one that is being read from holds at most the answer of its own request.
\* Answers of serial devices are on the serial line only.
LinesClean ==
    /\ \A s \in Sockets : conn[s] = "closed" \/ kind[s] = "serial" => line[s] = <<>>
    /\ session # 0 => line[session] = <<>>
    /\ \A c \in Callers :
         /\ pc[c] \in {"write", "park"} => line[sock[c]] = <<>>
         /\ pc[c] = "read" => line[sock[c]] \in {<<>>, <<req[c]>>}
         /\ pc[c] = "park" /\ Networked(c) => answer[c] \in {req[c], Truncated}

\* A step that at most closes sockets, and changes only callers that then hold
\* no socket, keeps the lines clean.
LEMMA ClosingKeepsClean ==
    ASSUME CallInv, LinesClean, NEW S, Close(S), UNCHANGED kind, session' \in {0, session},
           NEW c \in Callers, pc'[c] \notin Sending,
           \A d \in Callers : d # c =>
               /\ pc'[d] = pc[d] /\ sock'[d] = sock[d] /\ req'[d] = req[d]
               /\ answer'[d] = answer[d]
    PROVE  LinesClean'
  <1>1. /\ sock \in [Callers -> 0..MaxSockets] /\ session \in 0..MaxSockets
        /\ MaxSockets \in Nat
    BY ModbusAssumptions DEF ModbusAssumptions, CallInv, TypeOK
  <1>2. \A i \in Sockets : line'[i] = IF i \in S THEN <<>> ELSE line[i]
    BY <1>1 DEF Close, Sockets
  <1>3. \A i \in Sockets : conn'[i] = IF i \in S THEN "closed" ELSE conn[i]
    BY DEF Close
  <1>4. \A d \in Callers : pc[d] \in Sending => sock[d] \in Sockets
    BY <1>1 DEF CallInv, MutexHeld, Sockets
  <1>5. session # 0 => session \in Sockets
    BY <1>1 DEF Sockets
  <1>6. \A s \in Sockets : conn'[s] = "closed" \/ kind'[s] = "serial" => line'[s] = <<>>
    BY <1>2, <1>3 DEF LinesClean
  <1>7. session' # 0 => line'[session'] = <<>>
    BY <1>2, <1>5 DEF LinesClean
  <1>8. ASSUME NEW d \in Callers
        PROVE  /\ pc'[d] \in {"write", "park"} => line'[sock'[d]] = <<>>
               /\ pc'[d] = "read" => line'[sock'[d]] \in {<<>>, <<req'[d]>>}
               /\ pc'[d] = "park" /\ Networked(d) => answer'[d] \in {req'[d], Truncated}
    BY <1>2, <1>4 DEF LinesClean, Sending
  <1> QED BY <1>6, <1>7, <1>8 DEF LinesClean

\* Every step keeps the lines clean: Fail and Cancel close the socket an answer
\* may still arrive on, Open makes a new one, and SocketFits keeps networked
\* callers off the serial line.
LEMMA NextLinesClean ==
    ASSUME CallInv, SocketFits, LinesClean, [Next]_vars PROVE LinesClean'
  <1> USE ModbusAssumptions DEF ModbusAssumptions
  <1>0. /\ pc \in [Callers -> Points] /\ sock \in [Callers -> 0..MaxSockets]
        /\ conn \in [Sockets -> {"closed", "open", "broken"}]
        /\ kind \in [Sockets -> {"stream", "datagram", "serial"}]
        /\ line \in [0..MaxSockets -> Seq(Requests)] /\ session \in 0..MaxSockets
        /\ req \in [Callers -> Requests \cup {None}]
        /\ answer \in [Callers -> Requests \cup {None, Truncated}]
    BY DEF CallInv, TypeOK
  <1>a. \A c \in Callers : pc[c] \in Sending => sock[c] \in Sockets
    BY <1>0 DEF CallInv, MutexHeld, Sockets
  <1>b. Sockets \subseteq 0..MaxSockets
    BY DEF Sockets
  <1>c. \A c \in Callers : pc[c] \in Working => \A d \in Callers : d # c => pc[d] \notin Sending
    BY DEF CallInv, MutexHeld, Working, Sending
  <1>1. ASSUME UNCHANGED <<conn, kind, line, session>>, NEW c \in Callers,
               pc'[c] \notin Sending,
               \A d \in Callers : d # c =>
                   /\ pc'[d] = pc[d] /\ sock'[d] = sock[d] /\ req'[d] = req[d]
                   /\ answer'[d] = answer[d]
        PROVE  LinesClean'
    BY <1>1 DEF LinesClean, Sending
  <1>2. ASSUME NEW c \in Callers, NEW r \in Requests, Execute(c, r) PROVE LinesClean'
    <2>1. /\ pc'[c] \notin Sending
          /\ \A d \in Callers : d # c => pc'[d] = pc[d] /\ req'[d] = req[d]
      BY <1>0, <1>2 DEF Execute, Goto, Sending
    <2> QED BY <1>1, <1>2, <2>1 DEF Execute, wireVars
  <1>3. ASSUME NEW c \in Callers, Lock(c) \/ CallStop(c) PROVE LinesClean'
    <2>1. /\ pc'[c] \notin Sending /\ \A d \in Callers : d # c => pc'[d] = pc[d]
          /\ UNCHANGED <<sock, req, answer>>
      BY <1>0, <1>3 DEF Lock, CallStop, Goto, Sending, callVars
    <2> QED BY <1>1, <1>3, <2>1 DEF Lock, CallStop, wireVars
  <1>4. ASSUME NEW c \in Callers, Stop(c) PROVE LinesClean'
    <2>1. /\ pc'[c] \notin Sending /\ \A d \in Callers : d # c => pc'[d] = pc[d]
          /\ UNCHANGED <<sock, req, answer, kind>> /\ session' = 0 /\ Close({session})
      BY <1>0, <1>4 DEF Stop, Goto, Sending, callVars
    <2> QED BY <2>1, ClosingKeepsClean
  <1>5. ASSUME NEW c \in Callers, Take(c) PROVE LinesClean'
    <2>1. /\ \A d \in Callers : d # c => pc'[d] = pc[d] /\ sock'[d] = sock[d]
          /\ UNCHANGED <<req, answer, kind>>
      BY <1>0, <1>5 DEF Take, Goto
    <2>2. CASE pc'[c] = "open" /\ UNCHANGED <<session, conn, line>>
      BY <1>1, <2>1, <2>2 DEF Sending
    <2>3. CASE pc'[c] = "open" /\ session' = 0 /\ Close({session})
      BY <2>1, <2>3, ClosingKeepsClean DEF Sending
    <2>4. CASE /\ pc'[c] = "write" /\ sock'[c] = session /\ session # 0 /\ session' = 0
               /\ UNCHANGED <<conn, line>>
      BY <2>1, <2>4 DEF LinesClean
    <2> QED BY <1>0, <1>5, <2>2, <2>3, <2>4 DEF Take, Goto
  <1>6. ASSUME NEW c \in Callers, Open(c) PROVE LinesClean'
    <2>1. /\ \A d \in Callers : d # c => pc'[d] = pc[d] /\ sock'[d] = sock[d]
          /\ UNCHANGED <<req, answer, session>>
      BY <1>0, <1>6 DEF Open, Goto
    <2>2. CASE pc'[c] = "fail" /\ UNCHANGED <<conn, kind, line>>
      BY <1>1, <2>1, <2>2 DEF Sending
    <2>3. ASSUME NEW s \in Sockets, FreeSocket(s), pc'[c] = "write", sock'[c] = s,
                 conn' = [conn EXCEPT ![s] = "open"],
                 kind' = [kind EXCEPT ![s] = KindOf(Config[c].family)],
                 line' = line \/ line' = [line EXCEPT ![0] = <<>>]
          PROVE  LinesClean'
      <3>1. line[s] = <<>>
        BY <2>3 DEF FreeSocket, LinesClean
      <3>2. \A t \in Sockets : line'[t] = line[t]
        BY <1>0, <2>3 DEF Sockets
      <3>3. \A t \in Sockets : conn'[t] = "closed" \/ kind'[t] = "serial" => line'[t] = <<>>
        BY <1>0, <2>3, <3>1, <3>2 DEF LinesClean
      <3>4. session # 0 => session \in Sockets
        BY <1>0 DEF Sockets
      <3>5. session' # 0 => line'[session'] = <<>>
        BY <2>1, <3>2, <3>4 DEF LinesClean
      <3>6. pc'[c] = "write" /\ line'[sock'[c]] = <<>>
        BY <2>3, <3>1, <3>2
      <3>7. \A d \in Callers : d # c => pc'[d] \notin Sending
        BY <1>6, <1>c, <2>1 DEF Open, Working
      <3> QED BY <3>3, <3>5, <3>6, <3>7 DEF LinesClean, Sending
    <2>4. \/ pc'[c] = "fail" /\ UNCHANGED <<conn, kind, line>>
          \/ \E s \in Sockets : /\ FreeSocket(s) /\ pc'[c] = "write" /\ sock'[c] = s
                                /\ conn' = [conn EXCEPT ![s] = "open"]
                                /\ kind' = [kind EXCEPT ![s] = KindOf(Config[c].family)]
                                /\ line' = line \/ line' = [line EXCEPT ![0] = <<>>]
      BY <1>0, <1>6 DEF Open, Goto
    <2> QED BY <2>2, <2>3, <2>4
  <1>7. ASSUME NEW c \in Callers, Write(c) PROVE LinesClean'
    <2>1. /\ pc[c] = "write" /\ pc'[c] \in {"read", "fail"}
          /\ \A d \in Callers : d # c => pc'[d] = pc[d]
          /\ UNCHANGED <<req, answer, session, sock, conn, kind>>
      BY <1>0, <1>7 DEF Write, Goto
    <2>2. sock[c] \in Sockets /\ line[sock[c]] = <<>>
      BY <1>a, <2>1 DEF Sending, LinesClean
    <2>3. sock[c] # session /\ conn[sock[c]] # "closed" /\ req[c] \in Requests
      BY <1>0, <2>1, <2>2 DEF CallInv, SocketsAlive, RequestsOwned, Sockets, Working
    <2>4. /\ line'[sock[c]] \in {<<>>, <<req[c]>>}
          /\ kind[sock[c]] = "serial" => line'[sock[c]] = <<>>
          /\ \A i \in Sockets : i # sock[c] => line'[i] = line[i]
      <3>1. CASE kind[sock[c]] = "serial"
        <4>1. line' = line \/ line' = [line EXCEPT ![0] = Append(@, req[c])]
          BY <1>7, <3>1 DEF Write, LineOf
        <4>2. \A i \in Sockets : line'[i] = line[i]
          BY <1>0, <4>1 DEF Sockets
        <4> QED BY <2>2, <4>2
      <3>2. CASE kind[sock[c]] # "serial"
        <4>1. line' = line \/ line' = [line EXCEPT ![sock[c]] = Append(<<>>, req[c])]
          BY <1>7, <2>2, <3>2 DEF Write, LineOf
        <4>2. Append(<<>>, req[c]) = <<req[c]>>
          BY <2>3
        <4>3. Sockets \subseteq DOMAIN line
          BY <1>0, <1>b
        <4>4. CASE line' = line
          BY <2>2, <3>2, <4>4
        <4>5. CASE line' = [line EXCEPT ![sock[c]] = Append(<<>>, req[c])]
          BY <2>2, <3>2, <4>2, <4>3, <4>5
        <4> QED BY <4>1, <4>4, <4>5
      <3> QED BY <3>1, <3>2
    <2>5. \A d \in Callers : d # c => pc[d] \notin Sending
      BY <1>c, <2>1 DEF Working
    <2>6. \A s \in Sockets : conn'[s] = "closed" \/ kind'[s] = "serial" => line'[s] = <<>>
      BY <2>1, <2>3, <2>4 DEF LinesClean
    <2>7. session' # 0 => line'[session'] = <<>>
      <3>1. session # 0 => session \in Sockets
        BY <1>0 DEF Sockets
      <3> QED BY <2>1, <2>3, <2>4, <3>1 DEF LinesClean
    <2>8. ASSUME NEW d \in Callers
          PROVE  /\ pc'[d] \notin {"write", "park"}
                 /\ pc'[d] = "read" => line'[sock'[d]] \in {<<>>, <<req'[d]>>}
      BY <2>1, <2>4, <2>5 DEF Sending
    <2> QED BY <2>6, <2>7, <2>8 DEF LinesClean
  <1>8. ASSUME NEW c \in Callers, ReadAnswer(c) PROVE LinesClean'
    <2>1. /\ pc[c] = "read" /\ pc'[c] \in {"park", "fail"}
          /\ \A d \in Callers : d # c => pc'[d] = pc[d]
          /\ UNCHANGED <<req, session, sock, conn, kind>>
      BY <1>0, <1>8 DEF ReadAnswer, Goto
    <2>2. sock[c] \in Sockets
      BY <1>a, <2>1 DEF Sending
    <2>3. /\ line'[sock[c]] = <<>>
          /\ \A i \in Sockets : i # sock[c] => line'[i] = line[i]
          /\ Networked(c) /\ pc'[c] = "park" => answer'[c] \in {req[c], Truncated}
      <3>1. CASE kind[sock[c]] = "serial"
        <4>1. line' = [line EXCEPT ![0] = Tail(@)]
          BY <1>8, <3>1 DEF ReadAnswer, LineOf
        <4>2. \A i \in Sockets : line'[i] = line[i]
          BY <1>0, <4>1 DEF Sockets
        <4>3. ~Networked(c)
          BY <2>1, <3>1 DEF SocketFits, Networked, KindOf
        <4>4. line[sock[c]] = <<>>
          BY <2>2, <3>1 DEF LinesClean
        <4> QED BY <2>2, <4>2, <4>3, <4>4
      <3>2. CASE kind[sock[c]] # "serial"
        <4>1. line[sock[c]] = <<req[c]>> /\ line' = [line EXCEPT ![sock[c]] = Tail(@)]
          BY <1>8, <2>1, <3>2 DEF ReadAnswer, LinesClean, LineOf
        <4>2. Head(<<req[c]>>) = req[c] /\ Tail(<<req[c]>>) = <<>>
          OBVIOUS
        <4>3. /\ line'[sock[c]] = <<>>
              /\ \A i \in Sockets : i # sock[c] => line'[i] = line[i]
          BY <1>0, <1>b, <2>2, <4>1, <4>2
        <4>4. pc'[c] = "park" => answer'[c] \in {req[c], Truncated}
          BY <1>0, <1>8, <3>2, <4>1, <4>2 DEF ReadAnswer, Goto, LineOf
        <4> QED BY <4>3, <4>4
      <3> QED BY <3>1, <3>2
    <2>4. \A d \in Callers : d # c => pc[d] \notin Sending
      BY <1>c, <2>1 DEF Working
    <2>5. \A s \in Sockets : conn'[s] = "closed" \/ kind'[s] = "serial" => line'[s] = <<>>
      BY <2>1, <2>3 DEF LinesClean
    <2>6. session' # 0 => line'[session'] = <<>>
      <3>1. session # 0 => session \in Sockets
        BY <1>0 DEF Sockets
      <3> QED BY <2>1, <2>3, <3>1 DEF LinesClean
    <2>7. ASSUME NEW d \in Callers
          PROVE  /\ pc'[d] \notin {"write", "read"}
                 /\ pc'[d] = "park" => line'[sock'[d]] = <<>>
                 /\ pc'[d] = "park" /\ Networked(d) => answer'[d] \in {req'[d], Truncated}
      BY <2>1, <2>3, <2>4 DEF Sending
    <2> QED BY <2>5, <2>6, <2>7 DEF LinesClean
  <1>9. ASSUME NEW c \in Callers, ReadFails(c) PROVE LinesClean'
    <2>1. /\ pc'[c] \notin Sending /\ \A d \in Callers : d # c => pc'[d] = pc[d]
          /\ UNCHANGED <<sock, req, answer, session, conn, kind, line>>
      BY <1>0, <1>9 DEF ReadFails, Goto, Sending, wireVars
    <2> QED BY <1>1, <2>1
  <1>10. ASSUME NEW c \in Callers, Park(c) PROVE LinesClean'
    <2>1. /\ pc[c] = "park" /\ pc'[c] \notin Sending /\ UNCHANGED kind
          /\ \A d \in Callers : d # c => /\ pc'[d] = pc[d] /\ sock'[d] = sock[d]
                                         /\ req'[d] = req[d] /\ answer'[d] = answer[d]
      BY <1>0, <1>10 DEF Park, Return, Goto, Sending
    <2>2. CASE session' = sock[c] /\ UNCHANGED <<conn, line>>
      BY <2>1, <2>2 DEF LinesClean, Sending
    <2>3. CASE Close({sock[c]}) /\ UNCHANGED session
      BY <2>1, <2>3, ClosingKeepsClean
    <2> QED BY <1>10, <2>2, <2>3 DEF Park
  <1>11. ASSUME NEW c \in Callers, Fail(c) \/ Cancel(c) PROVE LinesClean'
    <2>1. /\ pc'[c] \notin Sending /\ UNCHANGED <<kind, session>> /\ Close({sock[c]})
          /\ \A d \in Callers : d # c => /\ pc'[d] = pc[d] /\ sock'[d] = sock[d]
                                         /\ req'[d] = req[d] /\ answer'[d] = answer[d]
      BY <1>0, <1>11 DEF Fail, Cancel, Return, Goto, Sending
    <2> QED BY <2>1, ClosingKeepsClean
  <1>12. ASSUME NEW s \in Sockets, Break(s) PROVE LinesClean'
    <2>1. \A t \in Sockets : conn'[t] = "closed" => conn[t] = "closed"
      BY <1>0, <1>12 DEF Break
    <2> QED BY <1>12, <2>1 DEF Break, callVars, LinesClean
  <1>13. CASE UNCHANGED vars
    BY <1>13 DEF vars, callVars, wireVars, LinesClean
  <1> QED
    BY <1>2, <1>3, <1>4, <1>5, <1>6, <1>7, <1>8, <1>9, <1>10, <1>11, <1>12, <1>13
    DEF Next, Step

\* NetworkAnswersMatch holds in every reachable state: over TCP and UDP a call
\* never returns the answer to another request, whatever timed out, failed or was
\* cancelled on the shared session before, and whoever else uses it.
THEOREM NetworkCallsMatch == Spec => []NetworkAnswersMatch
  <1>1. Init => LinesClean
    BY ModbusAssumptions DEF ModbusAssumptions, Init, LinesClean, Sockets
  <1>2. CallInv /\ SocketFits /\ LinesClean /\ [Next]_vars => LinesClean'
    BY NextLinesClean
  <1>3. LinesClean => NetworkAnswersMatch
    BY DEF LinesClean, Networked, NetworkAnswersMatch
  <1> QED BY <1>1, <1>2, <1>3, CallInvAlways, SocketsFit, PTL DEF Spec
=============================================================================
