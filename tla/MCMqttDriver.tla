---------------------------- MODULE MCMqttDriver ----------------------------
(* Instances of MqttDriver for TLC: every (un)subscribe request is about the *)
(* same topic filter, and callers and publishes are interchangeable.         *)
EXTENDS MqttDriver, TLC

MCTopicOf == [r \in Subscribes \cup Unsubscribes |-> CHOOSE t \in Topics : TRUE]

Symmetry == Permutations(Clients) \cup Permutations(Publishes)
=============================================================================
