------------------------------ MODULE MCPhoto -------------------------------
(* Instances of PhotoFlow for TLC. *)
EXTENDS PhotoFlow

\* All keys are the driver's.
MCOwner == [k \in Keys |-> CHOOSE d \in Drivers : TRUE]
=============================================================================
