--------------------------- MODULE MCNotification ---------------------------
(* Instances of NotificationService for TLC. *)
EXTENDS NotificationService

CONSTANTS rider, driver,  \* ids
          cr, cd, cx      \* clients: the rider's, the driver's, and one without an id

MCIdOf == [c \in Clients |-> IF c = cr THEN rider ELSE IF c = cd THEN driver ELSE NoId]

\* An event of a matched ride, one without recipients, and one that is no JSON.
MCEventSet == {[rider |-> rider, driver |-> driver, junk |-> FALSE],
               [rider |-> NoId, driver |-> NoId, junk |-> FALSE],
               [rider |-> NoId, driver |-> NoId, junk |-> TRUE]}
=============================================================================
