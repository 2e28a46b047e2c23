------------------------------ MODULE MCProfile ------------------------------
(* Instances of ProfileService for TLC. *)
EXTENDS ProfileService

CONSTANTS kd1, kd2, kr  \* model values for keys

\* Two keys are the driver's, the third is the rider's.
MCOwner == [k \in Keys |-> IF k = kr THEN CHOOSE r \in Riders : TRUE ELSE CHOOSE d \in Drivers : TRUE]
=============================================================================
