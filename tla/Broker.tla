------------------------------- MODULE Broker -------------------------------
(* The logs of the topics, the one variable the services share through Kafka. *)
EXTENDS Events

VARIABLE log  \* what has been sent to each topic, in its order
=============================================================================
