---------------------------- MODULE MCZenohDriver ----------------------------
(* Instances of ZenohDriver for TLC.                                        *)
EXTENDS ZenohDriver, TLC

CONSTANTS c1, c2

\* One caller does everything; the other works on the session beside it.
MCLifecycleAndCalls == c1 :> AllOps @@ c2 :> {"publish", "subscribe", "unsubscribe", "query"}

\* Both callers start and stop listeners.
MCLifecycleTwice == [c \in Clients |-> {"start", "subscribe", "start_listening", "stop_listening"}]
=============================================================================
