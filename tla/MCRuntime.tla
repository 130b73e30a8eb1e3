------------------------------ MODULE MCRuntime ------------------------------
(* Instances of Runtime for TLC: three tasks of one future type.            *)
EXTENDS Runtime

MCTypeOf == [t \in Tasks |-> "listener"]
=============================================================================
