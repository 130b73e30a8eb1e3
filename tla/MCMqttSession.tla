--------------------------- MODULE MCMqttSession ---------------------------
(* Instance of MqttSession for TLC: a QoS 2 publish that asks for a reply    *)
(* and a subscription.                                                       *)
EXTENDS MqttSession

CONSTANTS ask, sub, k1

MCKind == ask :> "qos2" @@ sub :> "subscribe"
MCCorrelationOf == ask :> k1
=============================================================================
