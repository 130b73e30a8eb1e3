-------------------------- MODULE MCModbusTransport --------------------------
(* Instances of ModbusTransport for TLC: which caller has which endpoint.   *)
EXTENDS ModbusTransport, TLC

CONSTANTS c1, c2, c3, c4

Endpoint(f, p, t) == [family |-> f, persistent |-> p, timeout |-> t]

\* Clones of one driver: a persistent TCP endpoint, the same after persistence and
\* request_timeout were switched off, a UDP and an ASCII endpoint.
MCShared == c1 :> Endpoint("tcp", TRUE, TRUE) @@ c2 :> Endpoint("tcp", FALSE, FALSE)
              @@ c3 :> Endpoint("udp", TRUE, TRUE) @@ c4 :> Endpoint("ascii", TRUE, TRUE)

MCSerial == c1 :> Endpoint("rtu", TRUE, TRUE)
=============================================================================
