---------------------------- MODULE EmailProofs ----------------------------
(***************************************************************************)
(* Proofs about EmailService, for any rides, riders, workers and bounds.   *)
(*                                                                         *)
(* NoReceiptLost and SentMeansMailed are not inductive: they depend on     *)
(* what the workers hold in their local variables.  WorkersOK says it:     *)
(* the owner works on the message at pos; a worker that is about to mail   *)
(* has a registered rider and a row; one that is about to record a mail    *)
(* has the id of a mail that SES accepted.                                 *)
(***************************************************************************)
EXTENDS EmailService, FiniteSetTheorems, TLAPS

\* What the local variables of worker w say about the topic and the table.
WorkerOK(w) ==
    /\ job[w].pc # "idle" => job[w].ride \in Rides
    /\ job[w].pc # "idle" /\ w = owner => pos < Len(log) /\ log[pos + 1] = job[w].ride
    /\ job[w].pc = "getUser" /\ job[w].read # "none" => row[job[w].ride].status # "none"
    /\ job[w].pc \in {"markNotFound", "send", "markSent", "markFailed"} => row[job[w].ride].status # "none"
    /\ job[w].pc = "markNotFound" => job[w].ride \notin Registered
    /\ job[w].pc \in {"send", "markSent", "markFailed"} => job[w].ride \in Registered
    /\ job[w].pc = "markSent" => job[w].messageId \in 1 .. mails[job[w].ride]

WorkersOK == \A w \in Workers : WorkerOK(w)

\* Only riders that do not exist are recorded as such.
NotFoundOK ==
    \A r \in Rides : row[r].status = "failed" /\ row[r].lastError = "user_not_found" => r \notin Registered

IInv == TypeOK /\ WorkersOK /\ NotFoundOK /\ SentMeansMailed /\ NoReceiptLost

-----------------------------------------------------------------------------
(* Types.                                                                  *)

LEMMA InitType == Init => TypeOK
  BY EmailAssumption DEF Init, TypeOK, NoRow, Row, Statuses, Errors, Statuses, Idle, Job

LEMMA ResumeType ==
    ASSUME TypeOK, Resume, committed' = pos', UNCHANGED log
    PROVE  /\ pos' \in 0 .. Len(log')
           /\ committed' \in 0 .. pos'
           /\ everCommitted' \in BOOLEAN
           /\ skipped' \in 0 .. Len(log')
<1>1. Len(log) \in Nat
  BY DEF TypeOK
<1>2. everCommitted' \in BOOLEAN
  BY Zenon DEF TypeOK, Resume
<1>3. CASE pos' \in committed .. pos /\ UNCHANGED skipped
  BY <1>1, <1>2, <1>3 DEF TypeOK
<1>4. CASE pos' \in (committed + 1) .. pos /\ UNCHANGED skipped
  BY <1>1, <1>2, <1>4 DEF TypeOK
<1>5. CASE pos' = Len(log) /\ skipped' = Len(log)
  BY <1>1, <1>2, <1>5 DEF TypeOK
<1>6. \/ pos' \in committed .. pos /\ UNCHANGED skipped
      \/ pos' \in (committed + 1) .. pos /\ UNCHANGED skipped
      \/ pos' = Len(log) /\ skipped' = Len(log)
  BY Zenon DEF Resume, ResumePoints
<1> QED BY <1>3, <1>4, <1>5, <1>6

LEMMA ReturnsType ==
    ASSUME TypeOK, NEW w \in Workers, Returns(w), w = owner => HasNext(log, pos)
    PROVE  /\ log' \in Seq(Rides \cup Junk)
           /\ owner' \in Workers
           /\ pos' \in 0 .. Len(log')
           /\ committed' \in 0 .. pos'
           /\ everCommitted' \in BOOLEAN
           /\ skipped' \in 0 .. Len(log')
           /\ job' \in [Workers -> Job]
  BY DEF TypeOK, Returns, HasNext, Idle, Job, Statuses

Pcs == {"idle", "getUser", "createRow", "markNotFound", "send", "markSent", "markFailed"}

LEMMA GotoType ==
    ASSUME TypeOK, NEW w \in Workers, NEW pc \in Pcs, Goto(w, pc)
    PROVE  job' \in [Workers -> Job]
<1>1. job[w] \in Job
  BY DEF TypeOK
<1>2. [job[w] EXCEPT !.pc = pc] \in Job
  BY <1>1 DEF Job, Pcs
<1>3. job' = [job EXCEPT ![w] = [job[w] EXCEPT !.pc = pc]]
  BY DEF Goto
<1> QED BY <1>2, <1>3 DEF TypeOK

\* A row whose status and error are set is a row.
LEMMA FailedType ==
    ASSUME TypeOK, NEW r \in Rides, NEW e \in Errors,
           row' = [row EXCEPT ![r].status = "failed", ![r].lastError = e]
    PROVE  row' \in [Rides -> Row]
<1>1. row[r] \in Row
  BY DEF TypeOK
<1>2. [row[r] EXCEPT !.status = "failed", !.lastError = e] \in Row
  BY <1>1 DEF Row, Statuses
<1>3. row' = [row EXCEPT ![r] = [row[r] EXCEPT !.status = "failed", !.lastError = e]]
  OBVIOUS
<1> QED BY <1>2, <1>3 DEF TypeOK

THEOREM StepType ==
    ASSUME TypeOK, WorkersOK, [Next]_vars
    PROVE  TypeOK'
<1> USE EmailAssumption
<1>1. CASE UNCHANGED vars
  BY <1>1 DEF TypeOK, vars, kafkaVars
<1>2. ASSUME NEW m \in Rides \cup Junk, RideCompleted(m) PROVE TypeOK'
  BY <1>2 DEF TypeOK, RideCompleted
<1>3. ASSUME NEW w \in Workers, Step(w) PROVE TypeOK'
  <2>1. CASE SkipJunk(w)
    BY <2>1, ReturnsType DEF TypeOK, SkipJunk, Receives
  <2>2. CASE SkipSettled(w)
    BY <2>2, ReturnsType DEF TypeOK, SkipSettled, Receives
  <2>3. CASE StartReceipt(w)
    BY <2>3 DEF TypeOK, StartReceipt, Job, Row, Statuses, kafkaVars
  <2>4. CASE GetUser(w)
    <3>1. PICK pc \in Pcs : Goto(w, pc)
      BY <2>4 DEF GetUser, AfterUser, Pcs
    <3> QED BY <2>4, <3>1, GotoType DEF TypeOK, GetUser, Goto, kafkaVars
  <2>5. CASE CreateRow(w)
    <3>1. PICK pc \in Pcs : Goto(w, pc)
      BY <2>5 DEF CreateRow, AfterUser, Pcs
    <3>2. job[w].ride \in Rides
      BY <2>5 DEF CreateRow, WorkersOK, WorkerOK
    <3>3. PendingRow \in Row
      BY DEF PendingRow, NoRow, Row, Statuses, Errors
    <3>4. row' \in [Rides -> Row]
      BY <2>5, <3>2, <3>3 DEF CreateRow, TypeOK
    <3> QED BY <2>5, <3>1, <3>4, GotoType DEF TypeOK, CreateRow, Goto, kafkaVars
  <2>6. CASE MarkNotFound(w)
    <3>1. job[w].ride \in Rides /\ (w = owner => HasNext(log, pos))
      BY <2>6 DEF MarkNotFound, WorkersOK, WorkerOK, HasNext
    <3>2. row' \in [Rides -> Row]
      BY <2>6, <3>1, FailedType DEF MarkNotFound, Errors
    <3> QED BY <2>6, <3>1, <3>2, ReturnsType DEF TypeOK, MarkNotFound
  <2>7. CASE Send(w)
    <3> DEFINE r == job[w].ride
    <3>1. r \in Rides /\ mails[r] + 1 \in Nat
      BY <2>7 DEF Send, WorkersOK, WorkerOK, TypeOK
    <3>2. mails' \in [Rides -> Nat]
      BY <2>7, <3>1 DEF Send, TypeOK
    <3>3. [job[w] EXCEPT !.pc = "markSent", !.messageId = mails[r] + 1] \in Job
      BY <3>1 DEF TypeOK, Job
    <3>4. job' = [job EXCEPT ![w] = [job[w] EXCEPT !.pc = "markSent", !.messageId = mails[r] + 1]]
      BY <2>7 DEF Send
    <3>5. job' \in [Workers -> Job]
      BY <3>3, <3>4 DEF TypeOK
    <3> QED BY <2>7, <3>2, <3>5 DEF TypeOK, Send, kafkaVars
  <2>8. CASE MarkSent(w)
    BY <2>8, ReturnsType DEF TypeOK, WorkersOK, WorkerOK, MarkSent, HasNext, Row, Statuses, Errors, Job
  <2>9. CASE MarkFailed(w)
    <3>1. job[w].ride \in Rides
      BY <2>9 DEF MarkFailed, WorkersOK, WorkerOK
    <3>2. row' \in [Rides -> Row]
      BY <2>9, <3>1, FailedType DEF MarkFailed, Errors
    <3> QED BY <2>9, <3>2 DEF TypeOK, MarkFailed, Throws, Idle, Job, Statuses, kafkaVars
  <2> QED BY <1>3, <2>1, <2>2, <2>3, <2>4, <2>5, <2>6, <2>7, <2>8, <2>9 DEF Step
<1>4. ASSUME NEW w \in Workers, Trouble(w) PROVE TypeOK'
  <2>1. CASE CallFails(w)
    BY <2>1 DEF TypeOK, CallFails, Fault, Throws, Idle, Job, Statuses, kafkaVars
  <2>2. CASE SendFails(w)
    <3>1. mails' \in [Rides -> Nat]
      BY <2>2 DEF TypeOK, SendFails
    <3>2. job' \in [Workers -> Job]
      BY <2>2, GotoType DEF SendFails, Pcs
    <3> QED BY <2>2, <3>1, <3>2 DEF TypeOK, SendFails, Fault, Goto, kafkaVars
  <2>3. CASE MarkSentFails(w)
    <3>1. job' \in [Workers -> Job]
      BY <2>3, GotoType DEF MarkSentFails, Pcs
    <3> QED BY <2>3, <3>1 DEF TypeOK, MarkSentFails, Fault, Goto, kafkaVars
  <2>4. CASE Crash(w)
    BY <2>4, ResumeType DEF TypeOK, Crash, Fault, Idle, Job, Statuses
  <2>5. CASE Rebalance(w)
    BY <2>5, ResumeType DEF TypeOK, Rebalance, Fault
  <2> QED BY <1>4, <2>1, <2>2, <2>3, <2>4, <2>5 DEF Trouble
<1> QED BY <1>1, <1>2, <1>3, <1>4 DEF Next
-----------------------------------------------------------------------------
(* What a step does to the others.                                         *)

\* A step takes nothing back: rows stay, mails add up, receipts stand.
RecordsKept ==
    \A r \in Rides :
        /\ row[r].status # "none" => row'[r].status # "none"
        /\ mails[r] <= mails'[r]
        /\ Receipted(r) => Receipted(r)'

LEMMA SameRecords ==
    ASSUME TypeOK, UNCHANGED <<row, mails>>
    PROVE  RecordsKept
  BY DEF RecordsKept, Receipted, TypeOK

\* A worker that does not take the step is as well off as before.
LEMMA OtherWorker ==
    ASSUME TypeOK, TypeOK', RecordsKept, NEW v \in Workers, WorkerOK(v),
           job'[v] = job[v], log' = log,
           v = owner' => v = owner /\ pos' = pos
    PROVE  WorkerOK(v)'
<1>1. CASE job[v].pc = "idle"
  BY <1>1 DEF WorkerOK
<1>2. CASE job[v].pc # "idle"
  <2>1. job[v].ride \in Rides
    BY <1>2 DEF WorkerOK
  <2>2. /\ row[job[v].ride].status # "none" => row'[job[v].ride].status # "none"
        /\ mails[job[v].ride] <= mails'[job[v].ride]
    BY <2>1 DEF RecordsKept
  <2>3. mails[job[v].ride] \in Nat /\ mails'[job[v].ride] \in Nat
    BY <2>1 DEF TypeOK
  <2> QED BY <1>2, <2>1, <2>2, <2>3 DEF WorkerOK
<1> QED BY <1>1, <1>2

LEMMA EmptyRange == \A n \in Nat : (n + 1) .. n = {}
  OBVIOUS

\* The offset stays or goes back: the handled events are some of those before.
LEMMA OffsetBack ==
    ASSUME TypeOK, TypeOK', RecordsKept, NoReceiptLost, log' = log,
           \/ pos' <= pos /\ skipped' = skipped
           \/ pos' = skipped'
    PROVE  NoReceiptLost'
<1>1. Len(log) \in Nat
  BY DEF TypeOK
<1>2. pos \in Nat /\ pos' \in Nat /\ skipped \in Nat /\ skipped' \in Nat
  BY <1>1 DEF TypeOK
<1>3. \A i \in (skipped' + 1) .. pos' : i \in (skipped + 1) .. pos
  <2>1. CASE pos' <= pos /\ skipped' = skipped
    BY <1>2, <2>1
  <2>2. CASE pos' = skipped'
    BY <1>2, <2>2, EmptyRange
  <2> QED BY <2>1, <2>2
<1> SUFFICES ASSUME NEW i \in (skipped' + 1) .. pos', NEW r \in Rides, log'[i] = r
             PROVE  Receipted(r)'
  BY DEF NoReceiptLost, Receipted
<1>4. Receipted(r)
  BY <1>3 DEF NoReceiptLost
<1> QED BY <1>4 DEF RecordsKept

\* The offset moves past a message that is done with.
LEMMA OffsetMoves ==
    ASSUME TypeOK, TypeOK', RecordsKept, NoReceiptLost, NEW w \in Workers, Returns(w),
           \A r \in Rides : w = owner /\ r = log[pos + 1] => Receipted(r)'
    PROVE  NoReceiptLost'
<1> SUFFICES ASSUME NEW i \in (skipped' + 1) .. pos', NEW r \in Rides, log'[i] = r
             PROVE  Receipted(r)'
  BY DEF NoReceiptLost, Receipted
<1>1. log' = log /\ skipped' = skipped
  BY DEF Returns
<1>2. CASE i \in (skipped + 1) .. pos
  BY <1>1, <1>2 DEF NoReceiptLost, RecordsKept
<1>3. CASE i \notin (skipped + 1) .. pos
  <2>1. w = owner /\ i = pos + 1
    BY <1>1, <1>3 DEF Returns, TypeOK
  <2> QED BY <1>1, <2>1
<1> QED BY <1>2, <1>3

\* The conjuncts of the invariant after a step of worker w that leaves the topic
\* alone, from what the step has to show for itself.
LEMMA WorkerStep ==
    ASSUME TypeOK, TypeOK', WorkersOK, RecordsKept, NEW w \in Workers,
           log' = log, WorkerOK(w)',
           \A v \in Workers \ {w} : job'[v] = job[v] /\ (v = owner' => v = owner /\ pos' = pos)
    PROVE  WorkersOK'
<1> SUFFICES ASSUME NEW v \in Workers PROVE WorkerOK(v)'
  BY DEF WorkersOK
<1>1. CASE v = w
  BY <1>1
<1>2. CASE v # w
  BY <1>2, OtherWorker DEF WorkersOK
<1> QED BY <1>1, <1>2
-----------------------------------------------------------------------------
(* The steps of the handler.                                               *)

\* Steps that touch neither the table nor the mails keep what is said of them.
LEMMA SameTable ==
    ASSUME IInv, UNCHANGED <<row, mails>>
    PROVE  NotFoundOK' /\ SentMeansMailed'
  BY DEF IInv, NotFoundOK, SentMeansMailed

LEMMA SkipJunkKeeps ==
    ASSUME IInv, TypeOK', NEW w \in Workers, SkipJunk(w)
    PROVE  IInv'
<1> USE DEF IInv
<1>1. RecordsKept
  BY SameRecords DEF SkipJunk
<1>2. WorkerOK(w)'
  BY DEF SkipJunk, Returns, WorkerOK, Idle, TypeOK
<1>3. WorkersOK'
  BY <1>1, <1>2, WorkerStep DEF SkipJunk, Receives, Returns, TypeOK
<1>4. NoReceiptLost'
  <2>1. log[pos + 1] \notin Rides
    BY EmailAssumption DEF SkipJunk, NextMessage
  <2> QED BY <1>1, <2>1, OffsetMoves DEF SkipJunk
<1> QED BY <1>3, <1>4, SameTable DEF SkipJunk

LEMMA SkipSettledKeeps ==
    ASSUME IInv, TypeOK', NEW w \in Workers, SkipSettled(w)
    PROVE  IInv'
<1> USE DEF IInv
<1>1. RecordsKept
  BY SameRecords DEF SkipSettled
<1>2. WorkerOK(w)'
  BY DEF SkipSettled, Returns, WorkerOK, Idle, TypeOK
<1>3. WorkersOK'
  BY <1>1, <1>2, WorkerStep DEF SkipSettled, Receives, Returns, TypeOK
<1>4. NoReceiptLost'
  <2>1. ASSUME NEW r \in Rides, r = log[pos + 1] PROVE Receipted(r)
    <3>1. Settled(r)
      BY <2>1 DEF SkipSettled, NextMessage
    <3>2. CASE row[r].status = "sent"
      BY <3>2 DEF SentMeansMailed, Receipted, TypeOK, Row
    <3> QED BY <3>1, <3>2 DEF Settled, Receipted
  <2> QED BY <1>1, <2>1, OffsetMoves DEF SkipSettled, RecordsKept
<1> QED BY <1>3, <1>4, SameTable DEF SkipSettled

LEMMA StartReceiptKeeps ==
    ASSUME IInv, TypeOK', NEW w \in Workers, StartReceipt(w)
    PROVE  IInv'
<1> USE DEF IInv
<1>1. RecordsKept
  BY SameRecords DEF StartReceipt
<1>2. WorkerOK(w)'
  <2>1. /\ job'[w].pc = "getUser" /\ job'[w].ride = log[pos + 1]
        /\ job'[w].read = row[log[pos + 1]].status
    BY DEF StartReceipt, NextMessage, TypeOK
  <2>2. log[pos + 1] \in Rides /\ pos < Len(log) /\ pos' = pos /\ log' = log /\ row' = row
    BY DEF StartReceipt, NextMessage, Receives, HasNext, kafkaVars
  <2> QED BY <2>1, <2>2 DEF WorkerOK
<1>3. WorkersOK'
  BY <1>1, <1>2, WorkerStep DEF StartReceipt, kafkaVars, TypeOK
<1>4. NoReceiptLost'
  BY <1>1, OffsetBack DEF StartReceipt, kafkaVars, TypeOK
<1> QED BY <1>3, <1>4, SameTable DEF StartReceipt

\* What Goto leaves of a job.
LEMMA GotoFields ==
    ASSUME TypeOK, NEW w \in Workers, NEW pc, Goto(w, pc)
    PROVE  /\ job'[w].pc = pc
           /\ job'[w].ride = job[w].ride
           /\ job'[w].messageId = job[w].messageId
           /\ job'[w].read = job[w].read
           /\ \A v \in Workers \ {w} : job'[v] = job[v]
           /\ log' = log /\ owner' = owner /\ pos' = pos /\ skipped' = skipped
  BY DEF Goto, TypeOK, Job, kafkaVars

LEMMA GetUserKeeps ==
    ASSUME IInv, TypeOK', NEW w \in Workers, GetUser(w)
    PROVE  IInv'
<1> USE DEF IInv
<1>1. RecordsKept
  BY SameRecords DEF GetUser
<1> DEFINE pc == IF job[w].read = "none" THEN "createRow" ELSE AfterUser(job[w].ride)
<1>2. Goto(w, pc)
  BY DEF GetUser
<1>3. WorkerOK(w)'
  BY <1>2, GotoFields DEF GetUser, WorkersOK, WorkerOK, AfterUser
<1>4. WorkersOK'
  BY <1>1, <1>2, <1>3, GotoFields, WorkerStep
<1>5. NoReceiptLost'
  BY <1>1, <1>2, GotoFields, OffsetBack DEF TypeOK
<1> QED BY <1>4, <1>5, SameTable DEF GetUser

\* Inserting a row changes only rides that had none.
LEMMA CreateRowKeeps ==
    ASSUME IInv, TypeOK', NEW w \in Workers, CreateRow(w)
    PROVE  IInv'
<1> USE DEF IInv
<1> DEFINE r == job[w].ride
<1>1. r \in Rides
  BY DEF CreateRow, WorkersOK, WorkerOK
<1>2. Goto(w, AfterUser(r)) /\ UNCHANGED mails
  BY DEF CreateRow
<1>3. \A q \in Rides :
        \/ row'[q] = row[q]
        \/ row[q].status = "none" /\ row'[q] = PendingRow
  BY <1>1 DEF CreateRow, TypeOK
<1>4. row'[r].status # "none"
  BY <1>1 DEF CreateRow, TypeOK, PendingRow, NoRow
<1>5. RecordsKept
  BY <1>2, <1>3 DEF RecordsKept, Receipted, PendingRow, NoRow, TypeOK
<1>6. WorkerOK(w)'
  BY <1>2, <1>4, GotoFields DEF CreateRow, WorkersOK, WorkerOK, AfterUser
<1>7. WorkersOK'
  BY <1>2, <1>5, <1>6, GotoFields, WorkerStep
<1>8. NoReceiptLost'
  BY <1>2, <1>5, GotoFields, OffsetBack DEF TypeOK
<1>9. NotFoundOK' /\ SentMeansMailed'
  BY <1>2, <1>3 DEF NotFoundOK, SentMeansMailed, PendingRow, NoRow
<1> QED BY <1>7, <1>8, <1>9

\* A handler that returns with its receipt done with.
LEMMA ReturnKeeps ==
    ASSUME IInv, TypeOK', NEW w \in Workers, Returns(w), RecordsKept, job[w].pc # "idle",
           NEW q \in Rides, q = job[w].ride, Receipted(q)'
    PROVE  WorkersOK' /\ NoReceiptLost'
<1> USE DEF IInv
<1>1. WorkerOK(w)'
  BY DEF Returns, WorkerOK, Idle, TypeOK
<1>2. WorkersOK'
  BY <1>1, WorkerStep DEF Returns, TypeOK
<1>3. \A r \in Rides : w = owner /\ r = log[pos + 1] => Receipted(r)'
  BY DEF WorkersOK, WorkerOK
<1> QED BY <1>2, <1>3, OffsetMoves

\* Updates of rows whose rides were mailed, or whose riders are recorded as
\* unknown from now on, or were not before.
UpdatesRows ==
    \A q \in Rides :
        \/ row'[q] = row[q]
        \/ row'[q].status = "failed" /\ row'[q].lastError = "user_not_found"
        \/ /\ row'[q].status # "none"
           /\ mails[q] > 0 \/ ~(row[q].status = "failed" /\ row[q].lastError = "user_not_found")

LEMMA RowsKeep ==
    ASSUME TypeOK, mails' = mails, UpdatesRows
    PROVE  RecordsKept
<1> SUFFICES ASSUME NEW q \in Rides
             PROVE  /\ row[q].status # "none" => row'[q].status # "none"
                    /\ mails[q] <= mails'[q]
                    /\ Receipted(q) => Receipted(q)'
  BY DEF RecordsKept
<1>1. mails[q] \in Nat /\ mails'[q] = mails[q]
  BY DEF TypeOK
<1> QED BY <1>1 DEF UpdatesRows, Receipted

\* A further mail for a registered rider whose ride has a row.
LEMMA MailKeeps ==
    ASSUME TypeOK, TypeOK', SentMeansMailed, NEW r \in Rides, r \in Registered,
           row[r].status # "none", row' = row,
           \A q \in Rides : mails[q] <= mails'[q] /\ (q # r => mails'[q] = mails[q])
    PROVE  RecordsKept /\ SentMeansMailed'
<1>1. \A q \in Rides : mails[q] \in Nat /\ mails'[q] \in Nat /\ row[q].sesMessageId \in Nat
  BY DEF TypeOK, Row
<1>2. RecordsKept
  BY <1>1 DEF RecordsKept, Receipted
<1>3. ASSUME NEW q \in Rides
      PROVE  /\ row'[q].status = "sent" => row'[q].sesMessageId \in 1 .. mails'[q]
             /\ mails'[q] > 0 => q \in Registered /\ row'[q].status # "none"
  <2>1. /\ row[q].status = "sent" => row[q].sesMessageId \in 1 .. mails[q]
        /\ mails[q] > 0 => q \in Registered /\ row[q].status # "none"
    BY DEF SentMeansMailed
  <2>2. 1 .. mails[q] \subseteq 1 .. mails'[q]
    BY <1>1
  <2>3. q = r \/ mails'[q] = mails[q]
    OBVIOUS
  <2> QED BY <2>1, <2>2, <2>3
<1> QED BY <1>2, <1>3 DEF SentMeansMailed

LEMMA MarkNotFoundKeeps ==
    ASSUME IInv, TypeOK', NEW w \in Workers, MarkNotFound(w)
    PROVE  IInv'
<1> USE DEF IInv
<1> DEFINE r == job[w].ride
<1>1. r \in Rides /\ r \notin Registered /\ row[r].status # "none"
  BY DEF MarkNotFound, WorkersOK, WorkerOK
<1>2. row'[r].status = "failed" /\ row'[r].lastError = "user_not_found"
  BY <1>1 DEF MarkNotFound, TypeOK, Row
<1>3. (\A q \in Rides \ {r} : row'[q] = row[q]) /\ mails' = mails
  BY <1>1 DEF MarkNotFound, TypeOK
<1>4. RecordsKept
  BY <1>1, <1>2, <1>3, RowsKeep DEF UpdatesRows
<1>5. WorkersOK' /\ NoReceiptLost'
  <2>1. PICK q \in Rides : q = r
    BY <1>1
  <2>2. Receipted(q)'
    BY <1>2, <2>1 DEF Receipted
  <2>3. Returns(w) /\ job[w].pc # "idle"
    BY DEF MarkNotFound
  <2> QED BY <1>4, <2>1, <2>2, <2>3, ReturnKeeps
<1>6. NotFoundOK'
  BY <1>1, <1>3 DEF NotFoundOK
<1>7. SentMeansMailed'
  BY <1>1, <1>2, <1>3 DEF SentMeansMailed
<1> QED BY <1>5, <1>6, <1>7

LEMMA SendKeeps ==
    ASSUME IInv, TypeOK', NEW w \in Workers, Send(w)
    PROVE  IInv'
<1> USE DEF IInv
<1> DEFINE r == job[w].ride
<1>1. r \in Registered /\ r \in Rides /\ row[r].status # "none"
  BY DEF Send, WorkersOK, WorkerOK
<1>2. mails'[r] = mails[r] + 1 /\ (\A q \in Rides \ {r} : mails'[q] = mails[q]) /\ row' = row
  BY <1>1 DEF Send, TypeOK
<1>3. /\ job'[w].pc = "markSent" /\ job'[w].ride = r /\ job'[w].messageId = mails[r] + 1
      /\ \A v \in Workers \ {w} : job'[v] = job[v]
      /\ log' = log /\ owner' = owner /\ pos' = pos /\ skipped' = skipped
  BY DEF Send, TypeOK, Job, kafkaVars
<1>4. \A q \in Rides : mails[q] \in Nat /\ mails'[q] \in Nat
  BY DEF TypeOK
<1>5. RecordsKept /\ SentMeansMailed'
  <2>1. \A q \in Rides : mails[q] <= mails'[q] /\ (q # r => mails'[q] = mails[q])
    BY <1>1, <1>2, <1>4
  <2>2. PICK q \in Rides : q = r
    BY <1>1
  <2> QED BY <1>1, <1>2, <2>1, <2>2, MailKeeps
<1>6. WorkerOK(w)'
  <2>1. job'[w].messageId \in 1 .. mails'[r]
    BY <1>1, <1>2, <1>3, <1>4
  <2> QED BY <1>1, <1>2, <1>3, <2>1 DEF Send, WorkersOK, WorkerOK
<1>7. WorkersOK'
  BY <1>3, <1>5, <1>6, WorkerStep
<1>8. NoReceiptLost'
  BY <1>3, <1>5, OffsetBack DEF TypeOK
<1>9. NotFoundOK'
  BY <1>2 DEF NotFoundOK
<1> QED BY <1>5, <1>7, <1>8, <1>9

LEMMA MarkSentKeeps ==
    ASSUME IInv, TypeOK', NEW w \in Workers, MarkSent(w)
    PROVE  IInv'
<1> USE DEF IInv
<1> DEFINE r == job[w].ride
<1>1. r \in Registered /\ r \in Rides /\ row[r].status # "none" /\ job[w].messageId \in 1 .. mails[r]
  BY DEF MarkSent, WorkersOK, WorkerOK
<1>2. row'[r] = [status |-> "sent", lastError |-> "null", sesMessageId |-> job[w].messageId]
  BY <1>1 DEF MarkSent, TypeOK
<1>3. (\A q \in Rides \ {r} : row'[q] = row[q]) /\ mails' = mails
  BY <1>1 DEF MarkSent, TypeOK
<1>4. mails[r] > 0
  BY <1>1 DEF TypeOK, Job
<1>5. RecordsKept
  BY <1>1, <1>2, <1>3, <1>4, RowsKeep DEF UpdatesRows, Receipted
<1>6. WorkersOK' /\ NoReceiptLost'
  <2>1. PICK q \in Rides : q = r
    BY <1>1
  <2>2. Receipted(q)'
    BY <1>3, <1>4, <2>1 DEF Receipted
  <2>3. Returns(w) /\ job[w].pc # "idle"
    BY DEF MarkSent
  <2> QED BY <1>5, <2>1, <2>2, <2>3, ReturnKeeps
<1>7. NotFoundOK'
  BY <1>2, <1>3 DEF NotFoundOK
<1>8. SentMeansMailed'
  BY <1>1, <1>2, <1>3 DEF SentMeansMailed
<1> QED BY <1>6, <1>7, <1>8

LEMMA MarkFailedKeeps ==
    ASSUME IInv, TypeOK', NEW w \in Workers, MarkFailed(w)
    PROVE  IInv'
<1> USE DEF IInv
<1> DEFINE r == job[w].ride
<1>1. r \in Registered /\ r \in Rides /\ row[r].status # "none"
  BY DEF MarkFailed, WorkersOK, WorkerOK
<1>2. row'[r].status = "failed" /\ row'[r].lastError = "ses_error"
  BY <1>1 DEF MarkFailed, TypeOK, Row
<1>3. (\A q \in Rides \ {r} : row'[q] = row[q]) /\ mails' = mails
  BY <1>1 DEF MarkFailed, TypeOK
<1>4. Receipted(r) => mails[r] > 0
  BY <1>1 DEF Receipted, NotFoundOK
<1>5. RecordsKept
  BY <1>1, <1>2, <1>3, <1>4, RowsKeep DEF UpdatesRows, Receipted
<1>6. /\ job'[w] = Idle
      /\ \A v \in Workers \ {w} : job'[v] = job[v]
      /\ log' = log /\ owner' = owner /\ pos' = pos /\ skipped' = skipped
  BY DEF MarkFailed, Throws, TypeOK, kafkaVars
<1>7. WorkersOK'
  BY <1>5, <1>6, WorkerStep DEF WorkerOK, Idle
<1>8. NoReceiptLost'
  BY <1>5, <1>6, OffsetBack DEF TypeOK
<1>9. NotFoundOK'
  BY <1>2, <1>3 DEF NotFoundOK
<1>10. SentMeansMailed'
  BY <1>2, <1>3 DEF SentMeansMailed
<1> QED BY <1>7, <1>8, <1>9, <1>10
-----------------------------------------------------------------------------
(* What goes wrong.                                                        *)

LEMMA CallFailsKeeps ==
    ASSUME IInv, TypeOK', NEW w \in Workers, CallFails(w)
    PROVE  IInv'
<1> USE DEF IInv
<1>1. RecordsKept
  BY SameRecords DEF CallFails
<1>2. /\ job'[w] = Idle
      /\ \A v \in Workers \ {w} : job'[v] = job[v]
      /\ log' = log /\ owner' = owner /\ pos' = pos /\ skipped' = skipped
  BY DEF CallFails, Throws, TypeOK, kafkaVars
<1>3. WorkersOK'
  BY <1>1, <1>2, WorkerStep DEF WorkerOK, Idle
<1>4. NoReceiptLost'
  BY <1>1, <1>2, OffsetBack DEF TypeOK
<1> QED BY <1>3, <1>4, SameTable DEF CallFails

LEMMA SendFailsKeeps ==
    ASSUME IInv, TypeOK', NEW w \in Workers, SendFails(w)
    PROVE  IInv'
<1> USE DEF IInv
<1> DEFINE r == job[w].ride
<1>1. r \in Registered /\ r \in Rides /\ row[r].status # "none" /\ row' = row
  BY DEF SendFails, WorkersOK, WorkerOK
<1>2. \A q \in Rides : mails[q] <= mails'[q] /\ (q # r => mails'[q] = mails[q])
  <2>1. \A q \in Rides : mails[q] \in Nat
    BY DEF TypeOK
  <2>2. CASE mails' = mails
    BY <2>1, <2>2
  <2>3. CASE mails' = [mails EXCEPT ![r] = @ + 1]
    BY <2>1, <2>3 DEF TypeOK
  <2> QED BY <2>2, <2>3 DEF SendFails
<1>3. RecordsKept /\ SentMeansMailed'
  <2>1. PICK q \in Rides : q = r
    BY <1>1
  <2> QED BY <1>1, <1>2, <2>1, MailKeeps
<1>4. Goto(w, "markFailed")
  BY DEF SendFails
<1>5. WorkerOK(w)'
  BY <1>1, <1>4, GotoFields DEF SendFails, WorkersOK, WorkerOK
<1>6. WorkersOK'
  BY <1>3, <1>4, <1>5, GotoFields, WorkerStep
<1>7. NoReceiptLost'
  BY <1>3, <1>4, GotoFields, OffsetBack DEF TypeOK
<1>8. NotFoundOK'
  BY <1>1 DEF NotFoundOK
<1> QED BY <1>3, <1>6, <1>7, <1>8

LEMMA MarkSentFailsKeeps ==
    ASSUME IInv, TypeOK', NEW w \in Workers, MarkSentFails(w)
    PROVE  IInv'
<1> USE DEF IInv
<1>1. RecordsKept
  BY SameRecords DEF MarkSentFails
<1>2. Goto(w, "markFailed")
  BY DEF MarkSentFails
<1>3. WorkerOK(w)'
  BY <1>2, GotoFields DEF MarkSentFails, WorkersOK, WorkerOK
<1>4. WorkersOK'
  BY <1>1, <1>2, <1>3, GotoFields, WorkerStep
<1>5. NoReceiptLost'
  BY <1>1, <1>2, GotoFields, OffsetBack DEF TypeOK
<1> QED BY <1>4, <1>5, SameTable DEF MarkSentFails

\* An assignment of the partition moves the offset back, or jumps over
\* everything and says so.
LEMMA ResumePoint ==
    ASSUME TypeOK, Resume
    PROVE  (pos' <= pos /\ skipped' = skipped) \/ pos' = skipped'
<1>1. pos \in Nat /\ committed \in Nat
  BY DEF TypeOK
<1>2. CASE pos' \in committed .. pos /\ skipped' = skipped
  BY <1>1, <1>2
<1>3. CASE pos' \in (committed + 1) .. pos /\ skipped' = skipped
  BY <1>1, <1>3
<1>4. CASE pos' = Len(log) /\ skipped' = Len(log)
  BY <1>4
<1>5. \/ pos' \in committed .. pos /\ skipped' = skipped
      \/ pos' \in (committed + 1) .. pos /\ skipped' = skipped
      \/ pos' = Len(log) /\ skipped' = Len(log)
  BY Zenon DEF Resume, ResumePoints
<1> QED BY <1>2, <1>3, <1>4, <1>5

LEMMA CrashKeeps ==
    ASSUME IInv, TypeOK', NEW w \in Workers, Crash(w)
    PROVE  IInv'
<1> USE DEF IInv
<1>1. RecordsKept
  BY SameRecords DEF Crash
<1>2. /\ job'[w] = Idle
      /\ \A v \in Workers \ {w} : job'[v] = job[v]
      /\ log' = log /\ owner' = owner
  BY DEF Crash, TypeOK
<1>3. w # owner => pos' = pos /\ skipped' = skipped
  BY DEF Crash
<1>4. WorkersOK'
  BY <1>1, <1>2, <1>3, WorkerStep DEF WorkerOK, Idle
<1>5. (pos' <= pos /\ skipped' = skipped) \/ pos' = skipped'
  <2>1. CASE w = owner
    BY <2>1, ResumePoint DEF Crash
  <2>2. CASE w # owner
    BY <1>3, <2>2 DEF TypeOK
  <2> QED BY <2>1, <2>2
<1>6. NoReceiptLost'
  BY <1>1, <1>2, <1>5, OffsetBack
<1> QED BY <1>4, <1>6, SameTable DEF Crash

LEMMA RebalanceKeeps ==
    ASSUME IInv, TypeOK', NEW w \in Workers, Rebalance(w)
    PROVE  IInv'
<1> USE DEF IInv
<1>1. RecordsKept
  BY SameRecords DEF Rebalance
<1>2. job' = job /\ job[w].pc = "idle" /\ log' = log /\ owner' = w
  BY DEF Rebalance
<1>3. WorkerOK(w)'
  BY <1>2 DEF WorkerOK
<1>4. WorkersOK'
  BY <1>1, <1>2, <1>3, WorkerStep
<1>5. NoReceiptLost'
  BY <1>1, <1>2, ResumePoint, OffsetBack DEF Rebalance
<1> QED BY <1>4, <1>5, SameTable DEF Rebalance

\* A new message is behind everything that is handled or being handled.
LEMMA RideCompletedKeeps ==
    ASSUME IInv, TypeOK', NEW m \in Rides \cup Junk, RideCompleted(m)
    PROVE  IInv'
<1> USE DEF IInv
<1>1. Len(log) \in Nat /\ pos \in 0 .. Len(log) /\ skipped \in 0 .. Len(log)
  BY DEF TypeOK
<1>2. Len(log') = Len(log) + 1 /\ \A i \in 1 .. Len(log) : log'[i] = log[i]
  BY DEF RideCompleted, TypeOK
<1>3. UNCHANGED <<owner, pos, skipped, row, mails, job>>
  BY DEF RideCompleted
<1>4. ASSUME NEW v \in Workers PROVE WorkerOK(v)'
  <2>1. WorkerOK(v)
    BY DEF WorkersOK
  <2>2. pos < Len(log) => pos' < Len(log') /\ log'[pos' + 1] = log[pos + 1]
    BY <1>1, <1>2, <1>3
  <2> QED BY <1>3, <2>1, <2>2 DEF WorkerOK
<1>5. NoReceiptLost'
  <2> SUFFICES ASSUME NEW i \in (skipped + 1) .. pos, NEW r \in Rides, log'[i] = r
               PROVE  Receipted(r)'
    BY <1>3 DEF NoReceiptLost, Receipted
  <2>1. log[i] = r
    BY <1>1, <1>2
  <2>2. Receipted(r)
    BY <2>1 DEF NoReceiptLost
  <2> QED BY <1>3, <2>2 DEF Receipted
<1> QED BY <1>3, <1>4, <1>5, SameTable DEF WorkersOK
-----------------------------------------------------------------------------
(* The theorems.                                                           *)

LEMMA InitInv == Init => IInv
<1> SUFFICES ASSUME Init PROVE IInv
  OBVIOUS
<1>1. TypeOK
  BY InitType
<1>2. WorkersOK
  BY DEF Init, WorkersOK, WorkerOK, Idle
<1>3. NotFoundOK /\ SentMeansMailed
  BY DEF Init, NotFoundOK, SentMeansMailed, NoRow
<1>4. NoReceiptLost
  BY EmptyRange DEF Init, NoReceiptLost
<1> QED BY <1>1, <1>2, <1>3, <1>4 DEF IInv

\* Every step of the service, of ride-service and of what goes wrong keeps the
\* inductive invariant.
THEOREM StepInv ==
    ASSUME IInv, [Next]_vars
    PROVE  IInv'
<1>1. TypeOK'
  BY StepType DEF IInv
<1>2. CASE UNCHANGED vars
  <2>1. UNCHANGED <<log, owner, pos, skipped, row, mails, job>>
    BY <1>2 DEF vars, kafkaVars
  <2>2. NoReceiptLost'
    BY <2>1 DEF IInv, NoReceiptLost, Receipted
  <2>3. WorkersOK'
    BY <2>1 DEF IInv, WorkersOK, WorkerOK
  <2> QED BY <1>1, <2>1, <2>2, <2>3, SameTable DEF IInv
<1>3. ASSUME NEW m \in Rides \cup Junk, RideCompleted(m) PROVE IInv'
  BY <1>1, <1>3, RideCompletedKeeps
<1>4. ASSUME NEW w \in Workers, Step(w) PROVE IInv'
  BY <1>1, <1>4, SkipJunkKeeps, SkipSettledKeeps, StartReceiptKeeps, GetUserKeeps, CreateRowKeeps,
     MarkNotFoundKeeps, SendKeeps, MarkSentKeeps, MarkFailedKeeps DEF Step
<1>5. ASSUME NEW w \in Workers, Trouble(w) PROVE IInv'
  BY <1>1, <1>5, CallFailsKeeps, SendFailsKeeps, MarkSentFailsKeeps, CrashKeeps, RebalanceKeeps DEF Trouble
<1> QED BY <1>2, <1>3, <1>4, <1>5 DEF Next

THEOREM Invariance == Spec => []IInv
  BY InitInv, StepInv, PTL DEF Spec

\* The variables keep their types and the offsets their order, whatever fails.
THEOREM TypeCorrect == Spec => []TypeOK
<1>1. IInv => TypeOK
  BY DEF IInv
<1> QED BY <1>1, Invariance, PTL

\* However calls fail, processes crash and the partition moves between
\* workers, the consumer's offset never passes an event of email-service whose
\* receipt is still owed.
THEOREM ReceiptsKept == Spec => []NoReceiptLost
<1>1. IInv => NoReceiptLost
  BY DEF IInv
<1> QED BY <1>1, Invariance, PTL

\* A row of sent_emails that says "sent" names a mail that SES accepted, and
\* only riders that auth-service knows are mailed.
THEOREM SentIsMailed == Spec => []SentMeansMailed
<1>1. IInv => SentMeansMailed
  BY DEF IInv
<1> QED BY <1>1, Invariance, PTL

-----------------------------------------------------------------------------
(***************************************************************************)
(* email-service implements Receipts, for any rides, riders, workers and   *)
(* bounds: proof.                                                          *)
(*                                                                         *)
(* The hard part is what a mail costs.  ExtraMailsCostFaults counts mails  *)
(* only; what makes it inductive is a budget that also counts the mails    *)
(* still to come: one for every worker that is on its way to SES or to the *)
(* update of its catch block, and one for a row that an event would open   *)
(* again.  A failure adds one to the budget, and no step adds more than    *)
(* one without it.                                                         *)
(***************************************************************************)

\* Worker w may still mail the rider of r, or spoil the row that says it did.
Owes(w, r) == job[w].ride = r /\ job[w].pc \in {"getUser", "createRow", "send", "markFailed"}

Owing(r) == {w \in Workers : Owes(w, r)}

\* An event of ride r would be handled again, and the owner is not at it.
Open(r) == row[r].status # "sent" /\ (job[owner].pc = "idle" \/ job[owner].ride # r)

Count(b) == IF b THEN 1 ELSE 0

\* Mails sent and mails to come are paid for.
MailBudget ==
    \A r \in Registered :
        /\ IsFiniteSet(Owing(r))
        /\ mails[r] + Cardinality(Owing(r)) + Count(Open(r)) <= 1 + faults

\* What a worker handles, it has read from the topic, even if it has lost the
\* partition since.
ReadFromTopic == \A w \in Workers : job[w].pc # "idle" => job[w].ride \in Messages(log)

RInv == IInv /\ MailBudget /\ ReadFromTopic

-----------------------------------------------------------------------------
(* The budget.                                                             *)

LEMMA OwingStep ==
    ASSUME NEW w \in Workers, NEW r, IsFiniteSet(Owing(r)),
           \A v \in Workers \ {w} : job'[v] = job[v]
    PROVE  /\ IsFiniteSet(Owing(r)')
           /\ Cardinality(Owing(r)) \in Nat /\ Cardinality(Owing(r)') \in Nat
           /\ Cardinality(Owing(r)') + Count(Owes(w, r)) = Cardinality(Owing(r)) + Count(Owes(w, r)')
<1>1. Cardinality(Owing(r)) \in Nat
  BY FS_CardinalityType
<1>2. CASE Owes(w, r)'
  <2>1. Owing(r)' = Owing(r) \cup {w}
    BY <1>2 DEF Owing, Owes
  <2>2. w \in Owing(r) <=> Owes(w, r)
    BY DEF Owing
  <2>3. /\ IsFiniteSet(Owing(r) \cup {w})
        /\ Cardinality(Owing(r) \cup {w}) = IF w \in Owing(r) THEN Cardinality(Owing(r)) ELSE Cardinality(Owing(r)) + 1
    BY FS_AddElement
  <2> QED BY <1>1, <1>2, <2>1, <2>2, <2>3 DEF Count
<1>3. CASE ~Owes(w, r)'
  <2>1. Owing(r)' = Owing(r) \ {w}
    BY <1>3 DEF Owing, Owes
  <2>2. w \in Owing(r) <=> Owes(w, r)
    BY DEF Owing
  <2>3. /\ IsFiniteSet(Owing(r) \ {w})
        /\ Cardinality(Owing(r) \ {w}) = IF w \in Owing(r) THEN Cardinality(Owing(r)) - 1 ELSE Cardinality(Owing(r))
    BY FS_RemoveElement
  <2>4. IsFiniteSet(Owing(r)') /\ Cardinality(Owing(r)') \in Nat
    BY <2>1, <2>3, FS_CardinalityType
  <2> QED BY <1>1, <1>3, <2>1, <2>2, <2>3, <2>4 DEF Count
<1> QED BY <1>2, <1>3

\* A step of worker w spends no more than what it had set aside and the
\* failures it adds.
Affordable(w) ==
    \A r \in Registered :
        mails'[r] + Count(Owes(w, r)') + Count(Open(r)') + faults
            <= mails[r] + Count(Owes(w, r)) + Count(Open(r)) + faults'

LEMMA BudgetStep ==
    ASSUME TypeOK, TypeOK', MailBudget, NEW w \in Workers, Affordable(w),
           \A v \in Workers \ {w} : job'[v] = job[v]
    PROVE  MailBudget'
<1> SUFFICES ASSUME NEW r \in Registered
             PROVE  /\ IsFiniteSet(Owing(r)')
                    /\ mails'[r] + Cardinality(Owing(r)') + Count(Open(r)') <= 1 + faults'
  BY DEF MailBudget
<1>1. IsFiniteSet(Owing(r)) /\ mails[r] + Cardinality(Owing(r)) + Count(Open(r)) <= 1 + faults
  BY DEF MailBudget
<1>2. /\ IsFiniteSet(Owing(r)')
      /\ Cardinality(Owing(r)) \in Nat /\ Cardinality(Owing(r)') \in Nat
      /\ Cardinality(Owing(r)') + Count(Owes(w, r)) = Cardinality(Owing(r)) + Count(Owes(w, r)')
  BY <1>1, OwingStep
<1>3. mails[r] \in Nat /\ mails'[r] \in Nat /\ faults \in Nat /\ faults' \in Nat
  BY EmailAssumption DEF TypeOK
<1>4. /\ Count(Owes(w, r)) \in Nat /\ Count(Owes(w, r)') \in Nat
      /\ Count(Open(r)) \in Nat /\ Count(Open(r)') \in Nat
  BY DEF Count
<1>5. mails'[r] + Count(Owes(w, r)') + Count(Open(r)') + faults
        <= mails[r] + Count(Owes(w, r)) + Count(Open(r)) + faults'
  BY DEF Affordable
<1> HIDE DEF Count
<1> QED BY <1>1, <1>2, <1>3, <1>4, <1>5

-----------------------------------------------------------------------------
(* What each step costs.                                                   *)

\* A step that gets no mail out, and leaves worker w and the row no more in debt
\* than they were and than a failure, if it is one, accounts for.
LEMMA NoCost ==
    ASSUME TypeOK, TypeOK', NEW w \in Workers, faults' = faults \/ faults' = faults + 1, mails' = mails,
           \A r \in Registered :
               /\ Owes(w, r)' /\ Open(r)' =>
                    (Owes(w, r) /\ Open(r)) \/ (faults' = faults + 1 /\ (Owes(w, r) \/ Open(r)))
               /\ Owes(w, r)' \/ Open(r)' => Owes(w, r) \/ Open(r) \/ faults' = faults + 1
    PROVE  Affordable(w)
<1> SUFFICES ASSUME NEW r \in Registered
             PROVE  mails'[r] + Count(Owes(w, r)') + Count(Open(r)') + faults
                      <= mails[r] + Count(Owes(w, r)) + Count(Open(r)) + faults'
  BY DEF Affordable
<1>1. mails[r] \in Nat /\ mails'[r] = mails[r] /\ faults \in Nat
  BY EmailAssumption DEF TypeOK
<1>2. /\ Owes(w, r)' /\ Open(r)' =>
            (Owes(w, r) /\ Open(r)) \/ (faults' = faults + 1 /\ (Owes(w, r) \/ Open(r)))
      /\ Owes(w, r)' \/ Open(r)' => Owes(w, r) \/ Open(r) \/ faults' = faults + 1
  OBVIOUS
<1>3. Count(TRUE) = 1 /\ Count(FALSE) = 0
  BY DEF Count
<1>4. /\ Count(Owes(w, r)) = IF Owes(w, r) THEN 1 ELSE 0
      /\ Count(Open(r)) = IF Open(r) THEN 1 ELSE 0
      /\ Count(Owes(w, r)') = IF Owes(w, r)' THEN 1 ELSE 0
      /\ Count(Open(r)') = IF Open(r)' THEN 1 ELSE 0
  BY DEF Count
<1> HIDE DEF Count
<1> QED BY <1>1, <1>2, <1>4

LEMMA SkipCost ==
    ASSUME RInv, IInv', NEW w \in Workers, Receives(w), Returns(w), UNCHANGED <<row, mails, faults>>
    PROVE  Affordable(w)
<1>1. TypeOK /\ TypeOK'
  BY DEF RInv, IInv
<1>2. job'[w].pc = "idle" /\ job[w].pc = "idle" /\ owner' = owner /\ w = owner
  BY <1>1 DEF Receives, Returns, Idle, TypeOK
<1> QED BY <1>1, <1>2, NoCost DEF Owes, Open

\* Taking an event up: the mail it may cost was set aside while the row was open.
LEMMA StartReceiptCost ==
    ASSUME RInv, IInv', NEW w \in Workers, StartReceipt(w)
    PROVE  Affordable(w)
<1> DEFINE q == log[pos + 1]
<1>1. TypeOK /\ TypeOK'
  BY DEF RInv, IInv
<1>2. /\ ~Settled(q) /\ w = owner /\ owner' = owner /\ job[w].pc = "idle"
      /\ job'[w].pc = "getUser" /\ job'[w].ride = q
  BY <1>1 DEF StartReceipt, Receives, NextMessage, TypeOK, kafkaVars
<1>3. UNCHANGED <<row, mails, faults>>
  BY DEF StartReceipt
<1>4. row[q].status # "sent"
  BY <1>2 DEF Settled
<1> QED BY <1>1, <1>2, <1>3, <1>4, NoCost DEF Owes, Open

Debtors == {"getUser", "createRow", "send", "markFailed"}

\* Only the program counter of w moves.
LEMMA GotoCost ==
    ASSUME RInv, IInv', NEW w \in Workers, NEW pc \in Pcs, Goto(w, pc), UNCHANGED mails,
           \A r \in Rides : row'[r].status # "sent" => row[r].status # "sent",
           job[w].pc # "idle", pc # "idle",
           \/ faults' = faults /\ (job[w].pc \in Debtors \/ pc \notin Debtors)
           \/ faults' = faults + 1
    PROVE  Affordable(w)
<1>1. TypeOK /\ TypeOK' /\ owner \in Workers /\ Registered \subseteq Rides
  BY EmailAssumption DEF RInv, IInv, TypeOK
<1>2. /\ job'[w].pc = pc /\ job'[w].ride = job[w].ride
      /\ \A v \in Workers \ {w} : job'[v] = job[v]
      /\ owner' = owner
  BY <1>1, GotoFields
<1>3. ASSUME NEW r \in Registered
      PROVE  (Open(r)' => Open(r)) /\ (Owes(w, r)' => Owes(w, r) \/ faults' = faults + 1)
  <2>1. Open(r)' => Open(r)
    BY <1>1, <1>2 DEF Open
  <2>2. Owes(w, r)' => Owes(w, r) \/ faults' = faults + 1
    BY <1>2 DEF Owes, Debtors
  <2> QED BY <2>1, <2>2
<1> QED BY <1>1, <1>3, NoCost

LEMMA GetUserCost ==
    ASSUME RInv, IInv', NEW w \in Workers, GetUser(w)
    PROVE  Affordable(w)
<1> DEFINE pc == IF job[w].read = "none" THEN "createRow" ELSE AfterUser(job[w].ride)
<1>1. Goto(w, pc) /\ job[w].pc = "getUser" /\ UNCHANGED <<row, mails, faults>>
  BY DEF GetUser
<1>2. pc \in Pcs /\ pc # "idle" /\ "getUser" \in Debtors
  BY DEF AfterUser, Pcs, Debtors
<1> HIDE DEF pc
<1> QED BY <1>1, <1>2, GotoCost

LEMMA CreateRowCost ==
    ASSUME RInv, IInv', NEW w \in Workers, CreateRow(w)
    PROVE  Affordable(w)
<1> DEFINE pc == AfterUser(job[w].ride)
<1>1. Goto(w, pc) /\ job[w].pc = "createRow" /\ UNCHANGED <<mails, faults>>
  BY DEF CreateRow
<1>2. pc \in Pcs /\ pc # "idle" /\ "createRow" \in Debtors
  BY DEF AfterUser, Pcs, Debtors
<1>3. \A r \in Rides : row'[r].status # "sent" => row[r].status # "sent"
  BY DEF CreateRow, RInv, IInv, TypeOK
<1> HIDE DEF pc
<1> QED BY <1>1, <1>2, <1>3, GotoCost

\* Worker w ends its chain: only the row it was at may become open.
LEMMA EndCost ==
    ASSUME RInv, IInv', NEW w \in Workers, job'[w] = Idle, UNCHANGED <<owner, mails>>, job[w].pc # "idle",
           \A q \in Rides : q # job[w].ride => row'[q] = row[q],
           faults' = faults \/ faults' = faults + 1,
           \A v \in Workers \ {w} : job'[v] = job[v],
           \/ job[w].ride \notin Registered
           \/ row'[job[w].ride].status = "sent"
           \/ job[w].pc \in Debtors
           \/ faults' = faults + 1
    PROVE  Affordable(w)
<1>1. TypeOK /\ TypeOK' /\ Registered \subseteq Rides /\ owner \in Workers
  BY EmailAssumption DEF RInv, IInv, TypeOK
<1>2. ASSUME NEW r \in Registered
      PROVE  ~Owes(w, r)' /\ (Open(r)' => Owes(w, r) \/ Open(r) \/ faults' = faults + 1)
  <2>1. ~Owes(w, r)'
    BY DEF Owes, Idle
  <2>2. CASE r = job[w].ride
    BY <2>1, <2>2 DEF Owes, Open, Debtors
  <2>3. CASE r # job[w].ride
    <3>1. row'[r] = row[r] /\ (job[owner].pc # "idle" /\ job[owner].ride = r => job'[owner] = job[owner])
      BY <1>1, <2>3
    <3> QED BY <2>1, <3>1 DEF Open
  <2> QED BY <2>1, <2>2, <2>3
<1> QED BY <1>1, <1>2, NoCost

LEMMA MarkNotFoundCost ==
    ASSUME RInv, IInv', NEW w \in Workers, MarkNotFound(w)
    PROVE  Affordable(w)
<1>1. job[w].ride \in Rides \ Registered
  BY DEF MarkNotFound, RInv, IInv, WorkersOK, WorkerOK
<1>2. \A q \in Rides : q # job[w].ride => row'[q] = row[q]
  BY <1>1 DEF MarkNotFound, RInv, IInv, TypeOK
<1>3. job'[w] = Idle /\ (\A v \in Workers \ {w} : job'[v] = job[v]) /\ UNCHANGED <<owner, mails, faults>>
  BY DEF MarkNotFound, Returns, RInv, IInv, TypeOK
<1> QED BY <1>1, <1>2, <1>3, EndCost DEF MarkNotFound

LEMMA MarkSentCost ==
    ASSUME RInv, IInv', NEW w \in Workers, MarkSent(w)
    PROVE  Affordable(w)
<1>1. job[w].ride \in Rides
  BY DEF MarkSent, RInv, IInv, WorkersOK, WorkerOK
<1>2. row'[job[w].ride].status = "sent" /\ \A q \in Rides : q # job[w].ride => row'[q] = row[q]
  BY <1>1 DEF MarkSent, RInv, IInv, TypeOK
<1>3. job'[w] = Idle /\ (\A v \in Workers \ {w} : job'[v] = job[v]) /\ UNCHANGED <<owner, mails, faults>>
  BY DEF MarkSent, Returns, RInv, IInv, TypeOK
<1> QED BY <1>2, <1>3, EndCost DEF MarkSent

\* The update that opens the row again pays with what its failure has put aside.
LEMMA MarkFailedCost ==
    ASSUME RInv, IInv', NEW w \in Workers, MarkFailed(w)
    PROVE  Affordable(w)
<1>1. job[w].ride \in Rides
  BY DEF MarkFailed, RInv, IInv, WorkersOK, WorkerOK
<1>2. \A q \in Rides : q # job[w].ride => row'[q] = row[q]
  BY <1>1 DEF MarkFailed, RInv, IInv, TypeOK
<1>3. job'[w] = Idle /\ (\A v \in Workers \ {w} : job'[v] = job[v]) /\ UNCHANGED <<owner, mails, faults>>
  BY DEF MarkFailed, Throws, RInv, IInv, TypeOK, kafkaVars
<1>4. job[w].pc \in Debtors /\ job[w].pc # "idle"
  BY DEF MarkFailed, Debtors
<1> QED BY <1>2, <1>3, <1>4, EndCost

LEMMA CallFailsCost ==
    ASSUME RInv, IInv', NEW w \in Workers, CallFails(w)
    PROVE  Affordable(w)
<1>1. job'[w] = Idle /\ (\A v \in Workers \ {w} : job'[v] = job[v]) /\ UNCHANGED <<owner, mails, row>>
  BY DEF CallFails, Throws, RInv, IInv, TypeOK, kafkaVars
<1>2. faults' = faults + 1 /\ job[w].pc # "idle"
  BY DEF CallFails, Fault
<1> QED BY <1>1, <1>2, EndCost

\* The mail goes out that the worker had set aside.
LEMMA SendCost ==
    ASSUME RInv, IInv', NEW w \in Workers, Send(w)
    PROVE  Affordable(w)
<1>1. TypeOK /\ TypeOK' /\ Registered \subseteq Rides /\ owner \in Workers /\ faults \in Nat
  BY EmailAssumption DEF RInv, IInv, TypeOK
<1>2. /\ job[w].pc = "send" /\ job'[w].pc = "markSent" /\ job'[w].ride = job[w].ride
      /\ \A v \in Workers \ {w} : job'[v] = job[v]
      /\ UNCHANGED <<row, owner, faults>>
  BY <1>1 DEF Send, TypeOK, Job, kafkaVars
<1>3. ASSUME NEW r \in Registered
      PROVE  mails'[r] + Count(Owes(w, r)') + Count(Open(r)') + faults
               <= mails[r] + Count(Owes(w, r)) + Count(Open(r)) + faults'
  <2>1. Open(r)' <=> Open(r)
    BY <1>1, <1>2 DEF Open
  <2>2. ~Owes(w, r)' /\ (Owes(w, r) <=> r = job[w].ride)
    BY <1>2 DEF Owes
  <2>3. mails[r] \in Nat /\ mails'[r] = IF r = job[w].ride THEN mails[r] + 1 ELSE mails[r]
    BY <1>1 DEF Send, TypeOK
  <2> QED BY <1>1, <1>2, <2>1, <2>2, <2>3 DEF Count
<1> QED BY <1>3 DEF Affordable

\* A failure may get one more mail out, and pays for it.
LEMMA SendFailsCost ==
    ASSUME RInv, IInv', NEW w \in Workers, SendFails(w)
    PROVE  Affordable(w)
<1>1. TypeOK /\ TypeOK' /\ Registered \subseteq Rides /\ owner \in Workers /\ faults \in Nat
  BY EmailAssumption DEF RInv, IInv, TypeOK
<1>2. /\ job[w].pc = "send" /\ job'[w].pc = "markFailed" /\ job'[w].ride = job[w].ride
      /\ \A v \in Workers \ {w} : job'[v] = job[v]
      /\ UNCHANGED <<row, owner>> /\ faults' = faults + 1
  BY <1>1, GotoFields DEF SendFails, Fault
<1>3. ASSUME NEW r \in Registered
      PROVE  mails'[r] + Count(Owes(w, r)') + Count(Open(r)') + faults
               <= mails[r] + Count(Owes(w, r)) + Count(Open(r)) + faults'
  <2>1. Open(r)' <=> Open(r)
    BY <1>1, <1>2 DEF Open
  <2>2. Owes(w, r)' <=> Owes(w, r)
    BY <1>2 DEF Owes
  <2>3. mails[r] \in Nat /\ (mails'[r] = mails[r] \/ mails'[r] = mails[r] + 1)
    BY <1>1 DEF SendFails, TypeOK
  <2> QED BY <1>1, <1>2, <2>1, <2>2, <2>3 DEF Count
<1> QED BY <1>3 DEF Affordable

LEMMA MarkSentFailsCost ==
    ASSUME RInv, IInv', NEW w \in Workers, MarkSentFails(w)
    PROVE  Affordable(w)
<1>1. Goto(w, "markFailed") /\ job[w].pc = "markSent" /\ UNCHANGED <<row, mails>> /\ faults' = faults + 1
  BY DEF MarkSentFails, Fault
<1> QED BY <1>1, GotoCost DEF Pcs

\* A crash or a rebalance makes at most one row open again, the one its owner
\* was at; the failure pays for it.
LEMMA LostOwnerCost ==
    ASSUME RInv, IInv', NEW w \in Workers, Crash(w) \/ Rebalance(w)
    PROVE  Affordable(w)
<1>1. TypeOK /\ TypeOK'
  BY DEF RInv, IInv
<1>2. job'[w].pc = "idle" /\ UNCHANGED mails /\ faults' = faults + 1
  BY <1>1 DEF Crash, Rebalance, Fault, Idle, TypeOK
<1>3. \A r \in Registered : ~Owes(w, r)'
  BY <1>2 DEF Owes
<1> QED BY <1>1, <1>2, <1>3, NoCost

-----------------------------------------------------------------------------
(* The inductive invariant.                                                *)

LEMMA InitRInv == Init => RInv
<1> SUFFICES ASSUME Init PROVE RInv
  OBVIOUS
<1>1. IInv
  BY InitInv
<1>2. ReadFromTopic
  BY DEF Init, Idle, ReadFromTopic
<1>3. ASSUME NEW r \in Registered
      PROVE  IsFiniteSet(Owing(r)) /\ mails[r] + Cardinality(Owing(r)) + Count(Open(r)) <= 1 + faults
  <2>1. Owing(r) = {}
    BY DEF Init, Idle, Owing, Owes
  <2>2. mails[r] = 0 /\ faults = 0
    BY EmailAssumption DEF Init
  <2> QED BY <2>1, <2>2, FS_EmptySet DEF Count
<1> QED BY <1>1, <1>2, <1>3 DEF RInv, MailBudget

\* A worker that is at a message was at it before, in a topic that only grows.
LEMMA StillRead ==
    ASSUME ReadFromTopic,
           \A i \in 1 .. Len(log) : i \in 1 .. Len(log') /\ log'[i] = log[i],
           \A v \in Workers : job'[v].pc # "idle" =>
               \/ job[v].pc # "idle" /\ job'[v].ride = job[v].ride
               \/ job'[v].ride \in Messages(log)
    PROVE  ReadFromTopic'
<1>1. Messages(log) \subseteq Messages(log')
  BY DEF Messages
<1> QED BY <1>1 DEF ReadFromTopic

LEMMA StepRead ==
    ASSUME RInv, IInv', [Next]_vars
    PROVE  ReadFromTopic'
<1>1. TypeOK /\ TypeOK' /\ ReadFromTopic
  BY DEF RInv, IInv
<1>2. CASE UNCHANGED vars
  BY <1>1, <1>2 DEF vars, kafkaVars, ReadFromTopic, Messages
<1>3. ASSUME NEW m \in Rides \cup Junk, RideCompleted(m) PROVE ReadFromTopic'
  <2>1. \A i \in 1 .. Len(log) : i \in 1 .. Len(log') /\ log'[i] = log[i]
    BY <1>1, <1>3 DEF RideCompleted, TypeOK
  <2> QED BY <1>1, <1>3, <2>1, StillRead DEF RideCompleted
<1>4. ASSUME NEW w \in Workers, log' = log,
             \/ job' = [job EXCEPT ![w] = Idle]
             \/ job' = job
             \/ \E pc \in Pcs : Goto(w, pc) /\ job[w].pc # "idle"
      PROVE  ReadFromTopic'
  <2>1. CASE job' = [job EXCEPT ![w] = Idle] \/ job' = job
    <3>1. \A v \in Workers : job'[v] = job[v] \/ job'[v].pc = "idle"
      BY <1>1, <2>1 DEF TypeOK, Idle
    <3>2. \A i \in 1 .. Len(log) : i \in 1 .. Len(log') /\ log'[i] = log[i]
      BY <1>4
    <3>3. \A v \in Workers : job'[v].pc # "idle" => job[v].pc # "idle" /\ job'[v].ride = job[v].ride
      BY <3>1
    <3> QED BY <1>1, <3>2, <3>3, StillRead
  <2>2. CASE \E pc \in Pcs : Goto(w, pc) /\ job[w].pc # "idle"
    <3>1. PICK pc \in Pcs : Goto(w, pc) /\ job[w].pc # "idle"
      BY <2>2
    <3>2. job'[w].ride = job[w].ride /\ \A v \in Workers \ {w} : job'[v] = job[v]
      BY <1>1, <3>1, GotoFields
    <3> QED BY <1>1, <1>4, <3>1, <3>2, StillRead
  <2> QED BY <1>4, <2>1, <2>2
<1>5. ASSUME NEW w \in Workers, StartReceipt(w) PROVE ReadFromTopic'
  <2>1. job'[w].ride = log[pos + 1] /\ pos + 1 \in 1 .. Len(log)
    BY <1>1, <1>5 DEF StartReceipt, Receives, HasNext, NextMessage, TypeOK
  <2>2. log' = log /\ \A v \in Workers \ {w} : job'[v] = job[v]
    BY <1>1, <1>5 DEF StartReceipt, TypeOK, kafkaVars
  <2>3. log[pos + 1] \in Messages(log)
    BY <2>1 DEF Messages
  <2> QED BY <1>1, <2>1, <2>2, <2>3, StillRead
<1>6. ASSUME NEW w \in Workers, Send(w) PROVE ReadFromTopic'
  <2>1. job'[w].ride = job[w].ride /\ job[w].pc # "idle"
    BY <1>1, <1>6 DEF Send, TypeOK, Job
  <2>2. log' = log /\ \A v \in Workers \ {w} : job'[v] = job[v]
    BY <1>1, <1>6 DEF Send, TypeOK, kafkaVars
  <2> QED BY <1>1, <2>1, <2>2, StillRead
<1>7. ASSUME NEW w \in Workers, Step(w) PROVE ReadFromTopic'
  <2>1. CASE SkipJunk(w) \/ SkipSettled(w) \/ MarkNotFound(w) \/ MarkSent(w)
    BY <1>4, <2>1 DEF SkipJunk, SkipSettled, MarkNotFound, MarkSent, Returns
  <2>2. CASE MarkFailed(w)
    BY <1>4, <2>2 DEF MarkFailed, Throws, kafkaVars
  <2>3. CASE GetUser(w) \/ CreateRow(w)
    <3>1. PICK pc \in Pcs : Goto(w, pc) /\ job[w].pc # "idle"
      BY <2>3 DEF GetUser, CreateRow, AfterUser, Pcs
    <3> QED BY <1>4, <3>1 DEF Goto, kafkaVars
  <2> QED BY <1>5, <1>6, <1>7, <2>1, <2>2, <2>3 DEF Step
<1>8. ASSUME NEW w \in Workers, Trouble(w) PROVE ReadFromTopic'
  <2>1. CASE CallFails(w)
    BY <1>4, <2>1 DEF CallFails, Throws, kafkaVars
  <2>2. CASE SendFails(w) \/ MarkSentFails(w)
    <3>1. Goto(w, "markFailed") /\ job[w].pc # "idle" /\ "markFailed" \in Pcs
      BY <2>2 DEF SendFails, MarkSentFails, Pcs
    <3> QED BY <1>4, <3>1 DEF Goto, kafkaVars
  <2>3. CASE Crash(w) \/ Rebalance(w)
    BY <1>4, <2>3 DEF Crash, Rebalance
  <2> QED BY <1>8, <2>1, <2>2, <2>3 DEF Trouble
<1> QED BY <1>2, <1>3, <1>7, <1>8 DEF Next

LEMMA StepBudget ==
    ASSUME RInv, IInv', [Next]_vars
    PROVE  MailBudget'
<1>1. TypeOK /\ TypeOK' /\ MailBudget
  BY DEF RInv, IInv
<1>2. CASE UNCHANGED <<row, mails, job, owner, faults>>
  <2>1. ASSUME NEW r PROVE Owing(r)' = Owing(r) /\ Open(r)' = Open(r)
    BY <1>2 DEF Owing, Owes, Open
  <2> QED BY <1>1, <1>2, <2>1 DEF MailBudget, Count
<1>3. ASSUME NEW w \in Workers, Affordable(w),
             Step(w) \/ Trouble(w)
      PROVE  MailBudget'
  <2>1. \A v \in Workers \ {w} : job'[v] = job[v]
    BY <1>1, <1>3 DEF TypeOK, Step, SkipJunk, SkipSettled, StartReceipt, GetUser, CreateRow, MarkNotFound,
       Send, MarkSent, MarkFailed, Trouble, CallFails, SendFails, MarkSentFails, Crash, Rebalance,
       Returns, Throws, Goto
  <2> QED BY <1>1, <1>3, <2>1, BudgetStep
<1>4. ASSUME NEW m \in Rides \cup Junk, RideCompleted(m) PROVE MailBudget'
  BY <1>2, <1>4 DEF RideCompleted
<1>5. ASSUME NEW w \in Workers, Step(w) PROVE MailBudget'
  <2>1. CASE SkipJunk(w) \/ SkipSettled(w)
    BY <1>3, <1>5, <2>1, SkipCost DEF SkipJunk, SkipSettled
  <2> QED BY <1>3, <1>5, <2>1, StartReceiptCost, GetUserCost, CreateRowCost, MarkNotFoundCost, SendCost,
             MarkSentCost, MarkFailedCost DEF Step
<1>6. ASSUME NEW w \in Workers, Trouble(w) PROVE MailBudget'
  BY <1>3, <1>6, CallFailsCost, SendFailsCost, MarkSentFailsCost, LostOwnerCost DEF Trouble
<1> QED BY <1>2, <1>4, <1>5, <1>6 DEF Next, vars, kafkaVars

THEOREM StepRInv ==
    ASSUME RInv, [Next]_vars
    PROVE  RInv'
<1>1. IInv'
  BY StepInv DEF RInv
<1> QED BY <1>1, StepBudget, StepRead DEF RInv

THEOREM Budgeted == Spec => []RInv
  BY InitRInv, StepRInv, PTL DEF Spec

\* A second mail of the same receipt costs a failure of email-service, a third
\* one another.
THEOREM ExtraMailsPaid == Spec => []ExtraMailsCostFaults
<1>1. RInv => ExtraMailsCostFaults
  <2> SUFFICES ASSUME RInv, NEW r \in Rides PROVE mails[r] <= 1 + faults
    BY DEF ExtraMailsCostFaults
  <2>1. mails[r] \in Nat /\ faults \in Nat
    BY DEF RInv, IInv, TypeOK
  <2>2. CASE r \in Registered
    <3>1. IsFiniteSet(Owing(r)) /\ mails[r] + Cardinality(Owing(r)) + Count(Open(r)) <= 1 + faults
      BY <2>2 DEF RInv, MailBudget
    <3>2. Cardinality(Owing(r)) \in Nat /\ Count(Open(r)) \in Nat
      BY <3>1, FS_CardinalityType DEF Count
    <3> HIDE DEF Count
    <3> QED BY <2>1, <3>1, <3>2
  <2>3. CASE r \notin Registered
    BY <2>1, <2>3 DEF RInv, IInv, SentMeansMailed
  <2> QED BY <2>2, <2>3
<1> QED BY <1>1, Budgeted, PTL

-----------------------------------------------------------------------------
(* Every step of the service is a step of Receipts or invisible there.     *)

\* What Receipts calls notFound.
NotFound == {r \in Rides : row[r].status = "failed" /\ row[r].lastError = "user_not_found"}

\* Receipts reads the topic as email-service does.
LEMMA SameTopic ==
    R!Messages(log) = Messages(log) /\ (R!HasNext(log, pos) <=> HasNext(log, pos))
        /\ R!NextMessage(log, pos) = NextMessage(log, pos)
  BY DEF R!Messages, Messages, R!HasNext, HasNext, R!NextMessage, NextMessage

LEMMA SameNotFound ==
    ASSUME \A r \in Rides : row'[r] # row[r] =>
               ~(row[r].status = "failed" /\ row[r].lastError = "user_not_found")
               /\ ~(row'[r].status = "failed" /\ row'[r].lastError = "user_not_found")
    PROVE  NotFound' = NotFound
  BY DEF NotFound

\* Nothing Receipts can see has changed.
LEMMA Invisible ==
    ASSUME UNCHANGED <<log, pos, everCommitted, mails, faults>>, NotFound' = NotFound
    PROVE  UNCHANGED R!vars
  BY DEF R!vars, NotFound

LEMMA InitMaps == Init => R!Init
<1> SUFFICES ASSUME Init PROVE R!Init
  OBVIOUS
<1>1. NotFound = {}
  BY DEF Init, NotFound, NoRow
<1>2. (~everCommitted) \in BOOLEAN
  BY DEF Init
<1> QED BY <1>1, <1>2 DEF Init, R!Init, NotFound

LEMMA CompleteMaps ==
    ASSUME RInv, NEW m \in Rides \cup Junk, RideCompleted(m)
    PROVE  R!Next
<1>1. NotFound' = NotFound
  BY SameNotFound DEF RideCompleted
<1>2. R!Complete
  BY <1>1 DEF RideCompleted, R!Complete, NotFound
<1> QED BY <1>2 DEF R!Next

\* The budget pays for the mail: a worker that mails was counted in it.
LEMMA MailAllowed ==
    ASSUME RInv, NEW w \in Workers, job[w].pc = "send",
           mails' = [mails EXCEPT ![job[w].ride] = @ + 1]
    PROVE  \E r \in Rides : R!MailTo(r)
<1> DEFINE r == job[w].ride
<1>1. r \in Rides /\ r \in Registered
  BY DEF RInv, IInv, WorkersOK, WorkerOK
<1>2. r \in Messages(log)
  BY DEF RInv, ReadFromTopic
<1>3. mails[r] <= faults
  <2>1. IsFiniteSet(Owing(r)) /\ mails[r] + Cardinality(Owing(r)) + Count(Open(r)) <= 1 + faults
    BY <1>1 DEF RInv, MailBudget
  <2>2. w \in Owing(r)
    BY DEF Owing, Owes
  <2>3. Cardinality(Owing(r)) \in Nat /\ Cardinality(Owing(r)) # 0
    BY <2>1, <2>2, FS_CardinalityType, FS_EmptySet
  <2>4. Count(Open(r)) \in Nat /\ mails[r] \in Nat /\ faults \in Nat
    BY <1>1 DEF Count, RInv, IInv, TypeOK
  <2> HIDE DEF r
  <2> QED BY <2>1, <2>3, <2>4
<1> QED BY <1>1, <1>2, <1>3, SameTopic DEF R!MailTo

LEMMA SendMaps ==
    ASSUME RInv, NEW w \in Workers, Send(w)
    PROVE  R!Next
<1>1. \E r \in Rides : R!MailTo(r)
  BY MailAllowed DEF Send
<1>2. NotFound' = NotFound
  BY SameNotFound DEF Send
<1>3. UNCHANGED <<log, pos, everCommitted, faults>>
  BY DEF Send, kafkaVars
<1>4. R!Mail
  BY <1>1, <1>2, <1>3 DEF R!Mail, NotFound
<1> QED BY <1>4 DEF R!Next

\* A handler of the owner returns and the event at pos needs nothing more.
LEMMA ReturnMaps ==
    ASSUME RInv, NEW w \in Workers, Returns(w), w = owner, HasNext(log, pos), UNCHANGED <<mails, faults>>,
           \/ NotFound' = NotFound
           \/ \E r \in Rides \ Registered : r \in Messages(log) /\ NotFound' = NotFound \cup {r},
           \/ NextMessage(log, pos) \in Junk
           \/ NextMessage(log, pos) \in NotFound'
           \/ NextMessage(log, pos) \in Rides /\ mails[NextMessage(log, pos)] > 0
    PROVE  R!Next
<1>1. pos' = pos + 1 /\ UNCHANGED <<log, everCommitted>>
  BY DEF Returns
<1>2. R!Record \/ UNCHANGED <<mails, NotFound>>
  BY SameTopic DEF R!Record, NotFound
<1>3. R!Advance
  BY <1>1, <1>2, SameTopic DEF R!Advance, NotFound
<1> QED BY <1>3 DEF R!Next

LEMMA SkipMaps ==
    ASSUME RInv, NEW w \in Workers, SkipJunk(w) \/ SkipSettled(w)
    PROVE  R!Next
<1> DEFINE m == NextMessage(log, pos)
<1>1. NotFound' = NotFound
  BY SameNotFound DEF SkipJunk, SkipSettled
<1>2. CASE SkipJunk(w)
  BY <1>1, <1>2, ReturnMaps DEF SkipJunk, Receives
<1>3. CASE SkipSettled(w)
  <2>1. m \in Rides /\ Settled(m)
    BY <1>3 DEF SkipSettled
  <2>2. CASE row[m].status = "sent"
    <3>1. row[m].sesMessageId \in 1 .. mails[m] /\ mails[m] \in Nat /\ row[m].sesMessageId \in Nat
      BY <2>1, <2>2 DEF RInv, IInv, SentMeansMailed, TypeOK, Row
    <3>2. mails[m] > 0
      BY <3>1
    <3> QED BY <1>1, <1>3, <2>1, <3>2, ReturnMaps DEF SkipSettled, Receives
  <2>3. CASE m \in NotFound
    BY <1>1, <1>3, <2>3, ReturnMaps DEF SkipSettled, Receives
  <2> QED BY <2>1, <2>2, <2>3 DEF Settled, NotFound
<1> QED BY <1>2, <1>3

LEMMA MarkNotFoundMaps ==
    ASSUME RInv, NEW w \in Workers, MarkNotFound(w)
    PROVE  R!Next
<1> DEFINE r == job[w].ride
<1>1. r \in Rides \ Registered /\ r \in Messages(log)
  BY DEF MarkNotFound, RInv, IInv, WorkersOK, WorkerOK, ReadFromTopic
<1>2. row \in [Rides -> Row]
  BY DEF RInv, IInv, TypeOK
<1>3. /\ row'[r].status = "failed" /\ row'[r].lastError = "user_not_found"
      /\ \A q \in Rides \ {r} : row'[q] = row[q]
  BY <1>1, <1>2 DEF MarkNotFound, Row
<1>4. NotFound' = NotFound \cup {r}
  BY <1>1, <1>3 DEF NotFound
<1>5. CASE w = owner
  <2>1. HasNext(log, pos) /\ NextMessage(log, pos) = r
    BY <1>5 DEF MarkNotFound, RInv, IInv, WorkersOK, WorkerOK, HasNext, NextMessage
  <2> QED BY <1>1, <1>4, <1>5, <2>1, ReturnMaps DEF MarkNotFound
<1>6. CASE w # owner
  <2>1. UNCHANGED <<log, pos, everCommitted, mails, faults>>
    BY <1>6 DEF MarkNotFound, Returns
  <2>2. R!LateRecord
    BY <1>1, <1>4, <2>1, SameTopic DEF R!LateRecord, R!Record, NotFound
  <2> QED BY <2>2 DEF R!Next
<1> QED BY <1>5, <1>6

\* Updates of a known rider's row do not show in Receipts.
LEMMA KnownRider ==
    ASSUME IInv, IInv', NEW r \in Registered, \A q \in Rides : q # r => row'[q] = row[q]
    PROVE  NotFound' = NotFound
  BY SameNotFound DEF IInv, NotFoundOK

LEMMA MarkSentMaps ==
    ASSUME RInv, RInv', NEW w \in Workers, MarkSent(w)
    PROVE  R!Next \/ UNCHANGED R!vars
<1> DEFINE r == job[w].ride
<1>1. r \in Rides /\ r \in Registered /\ mails[r] > 0
  <2>1. r \in Rides /\ r \in Registered /\ job[w].messageId \in 1 .. mails[r]
    BY DEF MarkSent, RInv, IInv, WorkersOK, WorkerOK
  <2>2. mails[r] \in Nat
    BY <2>1 DEF RInv, IInv, TypeOK
  <2> QED BY <2>1, <2>2
<1>2. \A q \in Rides : q # r => row'[q] = row[q]
  BY DEF MarkSent, RInv, IInv, TypeOK
<1>3. NotFound' = NotFound
  BY <1>1, <1>2, KnownRider DEF RInv
<1>4. CASE w = owner
  <2>1. HasNext(log, pos) /\ NextMessage(log, pos) = r
    BY <1>4 DEF MarkSent, RInv, IInv, WorkersOK, WorkerOK, HasNext, NextMessage
  <2> QED BY <1>1, <1>3, <1>4, <2>1, ReturnMaps DEF MarkSent
<1>5. CASE w # owner
  BY <1>3, <1>5, Invisible DEF MarkSent, Returns
<1> QED BY <1>4, <1>5

\* The other steps of a handler show nothing.
LEMMA InnerSteps ==
    ASSUME RInv, RInv', NEW w \in Workers,
           StartReceipt(w) \/ GetUser(w) \/ CreateRow(w) \/ MarkFailed(w)
    PROVE  UNCHANGED R!vars
<1>1. UNCHANGED <<log, pos, everCommitted, mails, faults>>
  BY DEF StartReceipt, GetUser, CreateRow, MarkFailed, Goto, Throws, kafkaVars
<1>2. CASE StartReceipt(w) \/ GetUser(w)
  BY <1>1, <1>2, SameNotFound, Invisible DEF StartReceipt, GetUser
<1>3. CASE CreateRow(w)
  <2>1. job[w].ride \in Rides /\ row \in [Rides -> Row]
    BY <1>3 DEF CreateRow, RInv, IInv, WorkersOK, WorkerOK, TypeOK
  <2>2. \A q \in Rides : row'[q] = row[q] \/ (row[q].status = "none" /\ row'[q].status = "pending")
    BY <1>3, <2>1 DEF CreateRow, PendingRow, NoRow
  <2> QED BY <1>1, <2>2, SameNotFound, Invisible
<1>4. CASE MarkFailed(w)
  <2>1. job[w].ride \in Registered /\ row \in [Rides -> Row]
    BY <1>4 DEF MarkFailed, RInv, IInv, WorkersOK, WorkerOK, TypeOK
  <2>2. \A q \in Rides : q # job[w].ride => row'[q] = row[q]
    BY <1>4, <2>1 DEF MarkFailed
  <2> QED BY <1>1, <2>1, <2>2, KnownRider, Invisible DEF RInv
<1> QED BY <1>2, <1>3, <1>4

\* A failure may get a mail out, move the offset back, or jump to the end.
LEMMA TroubleMaps ==
    ASSUME RInv, RInv', NEW w \in Workers, Trouble(w)
    PROVE  R!Next
<1>1. faults' = faults + 1 /\ log' = log /\ row' = row
  BY DEF Trouble, CallFails, SendFails, MarkSentFails, Crash, Rebalance, Fault, Throws, Goto, kafkaVars
<1>2. NotFound' = NotFound
  BY <1>1, SameNotFound
<1>3. pos \in Nat /\ committed \in Nat /\ everCommitted \in BOOLEAN /\ committed <= pos
  BY DEF RInv, IInv, TypeOK
<1>4. CASE UNCHANGED <<pos, everCommitted, mails>>
  <2>1. R!Fail
    BY <1>1, <1>2, <1>3, <1>4 DEF R!Fail, NotFound
  <2> QED BY <2>1 DEF R!Next
<1>5. CASE UNCHANGED <<pos, everCommitted>> /\ \E r \in Rides : R!MailTo(r)
  <2>1. R!Fail
    BY <1>1, <1>2, <1>5 DEF R!Fail, NotFound
  <2> QED BY <2>1 DEF R!Next
<1>6. CASE Resume /\ UNCHANGED mails
  <2>1. CASE everCommitted /\ pos' \in ResumePoints(committed, pos) /\ UNCHANGED everCommitted
    <3>1. pos' \in 0 .. pos
      BY <1>3, <2>1 DEF ResumePoints
    <3>2. R!Fail
      BY <1>1, <1>2, <1>6, <2>1, <3>1 DEF R!Fail, NotFound
    <3> QED BY <3>2 DEF R!Next
  <2>2. CASE ~everCommitted /\ pos' \in ResumePoints(committed + 1, pos) /\ everCommitted'
    <3>1. pos' \in 0 .. pos
      BY <1>3, <2>2 DEF ResumePoints
    <3>2. (~everCommitted') = FALSE
      BY <2>2
    <3>3. R!Fail
      BY <1>1, <1>2, <1>6, <3>1, <3>2 DEF R!Fail, NotFound
    <3> QED BY <3>3 DEF R!Next
  <2>3. CASE ~everCommitted /\ pos' = Len(log) /\ UNCHANGED everCommitted
    <3>1. R!Fail
      BY <1>1, <1>2, <1>6, <2>3 DEF R!Fail, NotFound
    <3> QED BY <3>1 DEF R!Next
  <2> QED BY <1>6, <2>1, <2>2, <2>3 DEF Resume
<1>7. CASE CallFails(w)
  BY <1>4, <1>7 DEF CallFails, Throws, kafkaVars
<1>8. CASE SendFails(w)
  BY <1>4, <1>5, <1>8, MailAllowed DEF SendFails, Goto, kafkaVars
<1>9. CASE MarkSentFails(w)
  BY <1>4, <1>9 DEF MarkSentFails, Goto, kafkaVars
<1>10. CASE Crash(w)
  BY <1>4, <1>6, <1>10 DEF Crash
<1>11. CASE Rebalance(w)
  BY <1>6, <1>11 DEF Rebalance
<1> QED BY <1>7, <1>8, <1>9, <1>10, <1>11 DEF Trouble

THEOREM StepMaps ==
    ASSUME RInv, RInv', [Next]_vars
    PROVE  [R!Next]_R!vars
<1>1. CASE UNCHANGED vars
  <2>1. UNCHANGED <<log, pos, everCommitted, mails, faults, row>>
    BY <1>1 DEF vars, kafkaVars
  <2> QED BY <2>1, SameNotFound, Invisible
<1>2. ASSUME NEW m \in Rides \cup Junk, RideCompleted(m) PROVE R!Next
  BY <1>2, CompleteMaps
<1>3. ASSUME NEW w \in Workers, Step(w) PROVE R!Next \/ UNCHANGED R!vars
  BY <1>3, SkipMaps, InnerSteps, MarkNotFoundMaps, SendMaps, MarkSentMaps DEF Step
<1>4. ASSUME NEW w \in Workers, Trouble(w) PROVE R!Next
  BY <1>4, TroubleMaps
<1> QED BY <1>1, <1>2, <1>3, <1>4 DEF Next

\* email-service keeps the promise of Receipts: whatever its workers do at the
\* same time and whatever fails, each of its steps is one that Receipts allows.
THEOREM Refinement == Spec => ImplementsReceipts
  BY InitMaps, StepMaps, Budgeted, PTL DEF Spec, ImplementsReceipts, R!Spec
=============================================================================
