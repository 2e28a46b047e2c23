---------------------------- MODULE EmailService ----------------------------
(***************************************************************************)
(* email-service: one ride.completed event in, one receipt mail out, with  *)
(* the table sent_emails in between.                                       *)
(*                                                                         *)
(* sendRideReceipt is a chain of steps, one for each await: the lookup in  *)
(* auth-service, the insert, the call of SES, the update.  A worker (an    *)
(* instance of the service in the consumer group) runs one chain at a time *)
(* and keeps in job[w] what its local variables hold.  Every step may fail *)
(* or be cut off by a crash; a thrown error leaves the offset alone, so    *)
(* Kafka delivers the event again.                                         *)
(***************************************************************************)
EXTENDS Kafka

CONSTANTS
    Rides,       \* rides that may complete
    Registered,  \* the rides whose rider exists in auth-service
    Junk,        \* messages that are malformed or lack rideId / riderId
    Workers,     \* instances of email-service
    NoRide,      \* a worker without a message
    MaxEvents,   \* bound on the length of the topic
    MaxFaults    \* bound on failures, crashes and rebalances

ASSUME EmailAssumption ==
    /\ Registered \subseteq Rides
    /\ Junk \cap Rides = {}
    /\ NoRide \notin Rides \cup Junk
    /\ MaxEvents \in Nat
    /\ MaxFaults \in Nat

VARIABLES
    log,            \* topic ride.completed
    owner,          \* the worker that has the partition
    pos,            \* messages the group has handled
    committed,      \* lower bound of the committed offset
    everCommitted,  \* the group has a committed offset at all
    skipped,        \* length of the prefix a group without an offset jumped over
    row,            \* sent_emails, by ride (the unique index on ride_id, type)
    mails,          \* mails SES has accepted, by ride
    job,            \* what each worker is doing
    faults          \* failures so far

kafkaVars == <<log, owner, pos, committed, everCommitted, skipped>>
vars == <<kafkaVars, row, mails, job, faults>>

\* null, the permanent error of an unknown rider, or any other error.
Errors == {"null", "user_not_found", "ses_error"}

\* "none": there is no row.
Statuses == {"none", "pending", "sent", "failed"}

Row == [status : Statuses, lastError : Errors, sesMessageId : Nat]

NoRow == [status |-> "none", lastError |-> "null", sesMessageId |-> 0]
PendingRow == [NoRow EXCEPT !.status = "pending"]

\* pc names the await the worker is about to make.  "read" is the status of the
\* row that findOne returned, "messageId" what SES returned.
Job == [pc : {"idle", "getUser", "createRow", "markNotFound", "send", "markSent", "markFailed"},
        ride : Rides \cup {NoRide}, read : Statuses, messageId : Nat]

Idle == [pc |-> "idle", ride |-> NoRide, read |-> "none", messageId |-> 0]

Init ==
    /\ log = << >>
    /\ owner \in Workers
    /\ pos = 0
    /\ committed = 0
    /\ everCommitted \in BOOLEAN
    /\ skipped = 0
    /\ row = [r \in Rides |-> NoRow]
    /\ mails = [r \in Rides |-> 0]
    /\ job = [w \in Workers |-> Idle]
    /\ faults = 0

-----------------------------------------------------------------------------
(* ride-service, as this service sees it: a client that repeats PATCH       *)
(* completed makes it publish the same ride again.                          *)

RideCompleted(m) ==
    /\ Len(log) < MaxEvents
    /\ log' = Append(log, m)
    /\ UNCHANGED <<owner, pos, committed, everCommitted, skipped, row, mails, job, faults>>

-----------------------------------------------------------------------------
(* The handler.                                                            *)

\* Faulty: a receipt that was sent is not looked for.
SettledNotFoundOnly(r) == row[r].status = "failed" /\ row[r].lastError = "user_not_found"

\* The row says that there is nothing left to do: the receipt is sent, or the
\* rider does not exist.
Settled(r) ==
    \/ row[r].status = "sent"
    \/ row[r].status = "failed" /\ row[r].lastError = "user_not_found"

\* The worker is the owner, free, and has a message to handle.
Receives(w) == w = owner /\ job[w].pc = "idle" /\ HasNext(log, pos)

\* Faulty: a worker moves the offset of a partition it has lost.
ReturnsUnfenced(w) ==
    /\ job' = [job EXCEPT ![w] = Idle]
    /\ pos' = pos + 1
    /\ UNCHANGED <<log, owner, committed, everCommitted, skipped>>

\* A handler that returns: the offset moves if the worker still owns the
\* partition; a worker that lost it changes nothing.
Returns(w) ==
    /\ job' = [job EXCEPT ![w] = Idle]
    /\ pos' = IF w = owner THEN pos + 1 ELSE pos
    /\ UNCHANGED <<log, owner, committed, everCommitted, skipped>>

\* A handler that throws: the message stays where it is.
Throws(w) ==
    /\ job' = [job EXCEPT ![w] = Idle]
    /\ UNCHANGED kafkaVars

Goto(w, pc) == job' = [job EXCEPT ![w].pc = pc] /\ UNCHANGED kafkaVars

\* Faulty: a malformed message is retried.
SkipJunkRetried(w) ==
    /\ Receives(w)
    /\ NextMessage(log, pos) \in Junk
    /\ Throws(w)
    /\ UNCHANGED <<row, mails, faults>>

\* Malformed JSON, or an event without ids: skipped.
SkipJunk(w) ==
    /\ Receives(w)
    /\ NextMessage(log, pos) \in Junk
    /\ Returns(w)
    /\ UNCHANGED <<row, mails, faults>>

\* findOne shows that the event was handled before.
SkipSettled(w) ==
    /\ Receives(w)
    /\ NextMessage(log, pos) \in Rides
    /\ Settled(NextMessage(log, pos))
    /\ Returns(w)
    /\ UNCHANGED <<row, mails, faults>>

\* findOne shows no row, or one whose mail has yet to be sent.
StartReceipt(w) ==
    /\ Receives(w)
    /\ LET r == NextMessage(log, pos) IN
        /\ r \in Rides
        /\ ~Settled(r)
        /\ job' = [job EXCEPT ![w] = [pc |-> "getUser", ride |-> r, read |-> row[r].status, messageId |-> 0]]
    /\ UNCHANGED <<kafkaVars, row, mails, faults>>

\* usersClient.getUser answered: a user, or 404.
AfterUser(r) == IF r \in Registered THEN "send" ELSE "markNotFound"

GetUser(w) ==
    /\ job[w].pc = "getUser"
    /\ Goto(w, IF job[w].read = "none" THEN "createRow" ELSE AfterUser(job[w].ride))
    /\ UNCHANGED <<row, mails, faults>>

\* createRow: inserts a pending row, or, when the unique index refuses it,
\* reads the row another delivery has created.  That row is not looked at.
CreateRow(w) ==
    /\ job[w].pc = "createRow"
    /\ LET r == job[w].ride IN
        /\ row' = IF row[r].status = "none" THEN [row EXCEPT ![r] = PendingRow] ELSE row
        /\ Goto(w, AfterUser(r))
    /\ UNCHANGED <<mails, faults>>

\* No such rider: recorded, and the event is done with.
MarkNotFound(w) ==
    /\ job[w].pc = "markNotFound"
    /\ row' = [row EXCEPT ![job[w].ride].status = "failed", ![job[w].ride].lastError = "user_not_found"]
    /\ Returns(w)
    /\ UNCHANGED <<mails, faults>>

\* SES takes the mail and answers with its id.
Send(w) ==
    /\ job[w].pc = "send"
    /\ LET r == job[w].ride IN
        /\ mails' = [mails EXCEPT ![r] = @ + 1]
        /\ job' = [job EXCEPT ![w].pc = "markSent", ![w].messageId = mails[r] + 1]
    /\ UNCHANGED <<kafkaVars, row, faults>>

MarkSent(w) ==
    /\ job[w].pc = "markSent"
    /\ row' = [row EXCEPT ![job[w].ride] =
                 [status |-> "sent", lastError |-> "null", sesMessageId |-> job[w].messageId]]
    /\ Returns(w)
    /\ UNCHANGED <<mails, faults>>

\* Faulty: the catch block does not throw the error again.
MarkFailedSwallows(w) ==
    /\ job[w].pc = "markFailed"
    /\ row' = [row EXCEPT ![job[w].ride].status = "failed", ![job[w].ride].lastError = "ses_error"]
    /\ Returns(w)
    /\ UNCHANGED <<mails, faults>>

\* The catch block: the row keeps the error and the error is thrown again.
MarkFailed(w) ==
    /\ job[w].pc = "markFailed"
    /\ row' = [row EXCEPT ![job[w].ride].status = "failed", ![job[w].ride].lastError = "ses_error"]
    /\ Throws(w)
    /\ UNCHANGED <<mails, faults>>

Step(w) ==
    \/ SkipJunk(w) \/ SkipSettled(w) \/ StartReceipt(w) \/ GetUser(w) \/ CreateRow(w)
    \/ MarkNotFound(w) \/ Send(w) \/ MarkSent(w) \/ MarkFailed(w)

-----------------------------------------------------------------------------
(* What goes wrong.                                                        *)

Fault == faults < MaxFaults /\ faults' = faults + 1

\* A call outside the try block fails (auth-service, the insert, the update of
\* an unknown rider), or the update of the catch block does: the handler throws.
CallFails(w) ==
    /\ Fault
    /\ job[w].pc \in {"getUser", "createRow", "markNotFound", "markFailed"}
    /\ Throws(w)
    /\ UNCHANGED <<row, mails>>

\* Faulty: an error of SES passes for an answer.
SendFailsUnnoticed(w) ==
    /\ Fault
    /\ job[w].pc = "send"
    /\ Goto(w, "markSent")
    /\ UNCHANGED <<row, mails>>

\* SES fails, or only its answer is lost and the mail goes out all the same.
SendFails(w) ==
    /\ Fault
    /\ job[w].pc = "send"
    /\ \/ UNCHANGED mails
       \/ mails' = [mails EXCEPT ![job[w].ride] = @ + 1]
    /\ Goto(w, "markFailed")
    /\ UNCHANGED row

\* The update to "sent" is in the same try block as the call of SES.
MarkSentFails(w) ==
    /\ Fault
    /\ job[w].pc = "markSent"
    /\ Goto(w, "markFailed")
    /\ UNCHANGED <<row, mails>>

\* Faulty: the group starts at the end of the topic although it has an offset.
ResumeAtEnd ==
    /\ pos' = Len(log)
    /\ everCommitted' = TRUE
    /\ skipped' = Len(log)

\* The partition is assigned anew.  With fromBeginning: false a group that has
\* no committed offset starts at the end of the topic.
Resume ==
    \/ /\ everCommitted
       /\ pos' \in ResumePoints(committed, pos)
       /\ UNCHANGED <<everCommitted, skipped>>
    \/ /\ ~everCommitted
       /\ pos' \in ResumePoints(committed + 1, pos)
       /\ everCommitted' = TRUE
       /\ UNCHANGED skipped
    \/ /\ ~everCommitted
       /\ pos' = Len(log)
       /\ skipped' = Len(log)
       /\ UNCHANGED everCommitted

\* The process dies and is started again, or kafkajs has tried a message often
\* enough and restarts the consumer.
Crash(w) ==
    /\ Fault
    /\ job' = [job EXCEPT ![w] = Idle]
    /\ IF w = owner THEN Resume /\ committed' = pos'
                    ELSE UNCHANGED <<pos, committed, everCommitted, skipped>>
    /\ UNCHANGED <<log, owner, row, mails>>

\* The group gives the partition to another worker while the old owner may
\* still be in the middle of a message.
Rebalance(w) ==
    /\ Fault
    /\ w # owner
    /\ job[w].pc = "idle"
    /\ owner' = w
    /\ Resume
    /\ committed' = pos'
    /\ UNCHANGED <<log, row, mails, job>>

Trouble(w) == CallFails(w) \/ SendFails(w) \/ MarkSentFails(w) \/ Crash(w) \/ Rebalance(w)

-----------------------------------------------------------------------------
Next ==
    \/ \E m \in Rides \cup Junk : RideCompleted(m)
    \/ \E w \in Workers : Step(w) \/ Trouble(w)

Spec == Init /\ [][Next]_vars

\* A consumer that runs keeps running: kafkajs polls, and every call it makes
\* returns or times out.  Nothing is assumed of ride-service or of the faults.
Fairness == \A w \in Workers : WF_vars(Step(w))

FairSpec == Spec /\ Fairness

-----------------------------------------------------------------------------
\* Types, and the offsets' order.
TypeOK ==
    /\ log \in Seq(Rides \cup Junk)
    /\ owner \in Workers
    /\ pos \in 0 .. Len(log)
    /\ committed \in 0 .. pos
    /\ everCommitted \in BOOLEAN
    /\ skipped \in 0 .. Len(log)
    /\ row \in [Rides -> Row]
    /\ mails \in [Rides -> Nat]
    /\ job \in [Workers -> Job]
    /\ faults \in Nat

\* The receipt of ride r needs no further delivery: the rider was mailed, or
\* the row records that there is no such rider.
Receipted(r) ==
    \/ mails[r] > 0
    \/ row[r].status = "failed" /\ row[r].lastError = "user_not_found"

\* An event the group has moved past left its mark, unless a group without a
\* committed offset jumped over it.  This is what the consumer's "a receipt
\* must not be lost because SES or auth hiccupped" comes to.
NoReceiptLost ==
    \A i \in (skipped + 1) .. pos : log[i] \in Rides => Receipted(log[i])

\* A row that says "sent" names a mail that SES has really accepted, and no
\* mail goes to a rider that auth-service does not know.
SentMeansMailed ==
    \A r \in Rides :
        /\ row[r].status = "sent" => row[r].sesMessageId \in 1 .. mails[r]
        /\ mails[r] > 0 => r \in Registered /\ row[r].status # "none"

\* A second mail of the same receipt costs a failure: however often the event
\* is published or delivered, the row keeps an undisturbed service from
\* mailing twice.
ExtraMailsCostFaults == \A r \in Rides : mails[r] <= 1 + faults

\* With finitely many failures every completed ride is receipted: the retry
\* never gives up and nothing blocks the partition.
EveryRideReceipted ==
    \A r \in Rides :
        (r \in Messages(log)) ~> (Receipted(r) \/ \E i \in 1 .. skipped : log[i] = r)

\* The service does what Receipts promises, whatever its workers do at the same
\* time: no mail without a completed ride and a known rider, none too many
\* without a failure, and no event passed over that still needs one.
R == INSTANCE Receipts WITH
        fresh <- ~everCommitted,
        notFound <- {r \in Rides : row[r].status = "failed" /\ row[r].lastError = "user_not_found"}

ImplementsReceipts == R!Spec
=============================================================================
