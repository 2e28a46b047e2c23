------------------------------ MODULE Receipts ------------------------------
(***************************************************************************)
(* What email-service promises, without rows, workers and calls: every     *)
(* completed ride has its receipt, once, unless its rider is unknown.      *)
(* Failures may cost a second mail and have events handled again; a group  *)
(* that Kafka has no offset of may jump to the end of the topic.           *)
(***************************************************************************)
EXTENDS Kafka

CONSTANTS Rides, Registered, Junk

VARIABLES
    log, pos,   \* the topic, and how much of it is done
    fresh,      \* Kafka has no offset of the group
    mails,      \* of each ride
    notFound,   \* rides on record as having no rider
    faults

vars == <<log, pos, fresh, mails, notFound, faults>>

Init ==
    /\ log = << >> /\ pos = 0
    /\ fresh \in BOOLEAN
    /\ mails = [r \in Rides |-> 0] /\ notFound = {}
    /\ faults = 0

Complete ==
    /\ \E m \in Rides \cup Junk : log' = Append(log, m)
    /\ UNCHANGED <<pos, fresh, mails, notFound, faults>>

\* A mail too many has to be paid for by a failure.
MailTo(r) ==
    /\ r \in Messages(log) /\ r \in Registered
    /\ mails[r] <= faults
    /\ mails' = [mails EXCEPT ![r] = @ + 1]

Mail ==
    /\ \E r \in Rides : MailTo(r)
    /\ UNCHANGED <<log, pos, fresh, notFound, faults>>

Record ==
    /\ \E r \in Rides \ Registered : r \in Messages(log) /\ notFound' = notFound \cup {r}
    /\ UNCHANGED mails

\* An event is done when it needs nothing more.
Advance ==
    /\ HasNext(log, pos)
    /\ Record \/ UNCHANGED <<mails, notFound>>
    /\ LET m == NextMessage(log, pos) IN m \in Junk \/ m \in notFound' \/ (m \in Rides /\ mails[m] > 0)
    /\ pos' = pos + 1
    /\ UNCHANGED <<log, fresh, faults>>

\* A ride may also be put on record by somebody who has lost the partition.
LateRecord == Record /\ UNCHANGED <<log, pos, fresh, faults>>

\* A failure: events may come again, a mail may have gone out unnoticed, or the
\* topic is skipped.
Fail ==
    /\ faults' = faults + 1
    /\ \/ pos' \in 0 .. pos /\ fresh' \in {fresh, FALSE} /\ UNCHANGED mails
       \/ (\E r \in Rides : MailTo(r)) /\ UNCHANGED <<pos, fresh>>
       \/ fresh /\ pos' = Len(log) /\ UNCHANGED <<fresh, mails>>
    /\ UNCHANGED <<log, notFound>>

Next == Complete \/ Mail \/ Advance \/ LateRecord \/ Fail

Spec == Init /\ [][Next]_vars
=============================================================================
