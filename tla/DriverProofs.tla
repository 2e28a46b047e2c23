---------------------------- MODULE DriverProofs ----------------------------
(***************************************************************************)
(* Proofs about DriverService, for any drivers, places, slots and bounds.  *)
(*                                                                         *)
(* A handler works from what it read when it began.  RowsOK and HandlersOK *)
(* say what that is worth whatever has happened since: a status or a ping  *)
(* that puts a driver to work comes from a photo, a busy status from an    *)
(* assignment.  They hold under every interleaving and failure.            *)
(*                                                                         *)
(* InSerial is about handlers that run one by one: it says, for each pc of *)
(* the one handler at work, which of the three promises about its driver   *)
(* are broken for the moment, and what the handler knows that lets it keep *)
(* them again in the end.                                                  *)
(***************************************************************************)
EXTENDS DriverService, EventsProofs

PhotoSeen(d) == [driver |-> d, hasPhoto |-> TRUE] \in Messages(log["user.photo.updated"])
AssignedSeen(d) == \E r \in Rides : [ride |-> r, driver |-> d] \in Messages(log["driver.assigned"])

RowOK(d) ==
    /\ drivers[d].status # "offline" => drivers[d].exists
    /\ drivers[d].status # "offline" \/ drivers[d].hasPhoto \/ pool[d] # NoPlace \/ d \in held => PhotoSeen(d)
    /\ drivers[d].status = "busy" => AssignedSeen(d)
    /\ AssignedSeen(d) => PhotoSeen(d)

RowsOK == \A d \in Drivers : RowOK(d)

RequestOK(r) ==
    /\ r.pc # "idle" => r.driver \in Drivers
    /\ r.pc \notin {"idle", "insert"} => drivers[r.driver].exists
    /\ r.status # "offline" \/ r.pc = "locRedis" => PhotoSeen(r.driver)
    /\ r.status # "busy"

JobOK(j) ==
    j.pc # "idle" =>
        /\ j.driver \in Drivers /\ drivers[j.driver].exists
        /\ j.topic \in DriverTopics /\ HasNext(log[j.topic], pos[j.topic])
        /\ NextMessage(log[j.topic], pos[j.topic]).driver = j.driver
        /\ j.pc = "photoWrite" => j.topic = "user.photo.updated"
        /\ j.pc # "photoWrite" /\ j.topic = "driver.assigned" => j.status = "busy"
        /\ j.status # "offline" \/ j.hasPhoto => PhotoSeen(j.driver)
        /\ j.status = "busy" => AssignedSeen(j.driver)

HandlersOK == JobOK(job) /\ \A s \in Slots : RequestOK(http[s])

IInv == TypeOK /\ RowsOK /\ HandlersOK

\* The promises of the Serial invariants about one driver; "loc" is where the
\* table has the driver, or where a ping that is at work is going to put it.
PhotoOK(d) == drivers[d].status = "available" => drivers[d].hasPhoto

AnnouncedOK(d) == announced[d] = drivers[d].status

PoolAt(d, loc) ==
    /\ pool[d] # NoPlace => drivers[d].status = "available" /\ pool[d] = loc
    /\ drivers[d].status = "available" /\ loc # NoPlace /\ ~Claimed(d) => pool[d] # NoPlace

InStep(d) == PhotoOK(d) /\ AnnouncedOK(d) /\ PoolAt(d, drivers[d].loc)

\* The only handler at work is the request r ...
RequestPhase(r) ==
    LET d == r.driver IN
    /\ PhotoOK(d)
    /\ r.pc \in {"insert", "statusWrite", "statusPublish", "locRedis"} => PoolAt(d, drivers[d].loc)
    /\ r.pc = "locWrite" => PoolAt(d, r.loc)
    /\ r.pc \in {"statusWrite", "statusRedis"} => r.loc = drivers[d].loc
    /\ r.pc \in {"insert", "statusWrite", "locRedis", "locWrite"} => AnnouncedOK(d)
    /\ r.pc \in {"statusRedis", "statusPublish"} => drivers[d].status = r.status
    /\ r.pc = "statusWrite" /\ r.status = "available" => drivers[d].hasPhoto
    /\ r.pc = "insert" => ~drivers[d].exists
    /\ r.pc = "locRedis" => drivers[d].status = "available"

\* ... or that of the event j.
JobPhase(j) ==
    LET d == j.driver IN
    /\ j.pc # "statusWrite" => PhotoOK(d)
    /\ j.pc # "statusRedis" => PoolAt(d, drivers[d].loc)
    /\ j.pc \in {"photoWrite", "statusWrite", "statusRedis"} => j.loc = drivers[d].loc
    /\ j.pc \in {"photoWrite", "statusWrite"} => AnnouncedOK(d)
    /\ j.pc \in {"statusRedis", "statusPublish"} => drivers[d].status = j.status
    /\ j.pc = "photoWrite" =>
         j.status = "offline" /\ j.goOffline = (~j.hasPhoto /\ drivers[d].status = "available")
    /\ j.pc = "statusWrite" /\ j.status = "available" => drivers[d].hasPhoto

OneAtATime ==
    /\ job.pc # "idle" => \A s \in Slots : http[s].pc = "idle"
    /\ \A s, t \in Slots : http[s].pc # "idle" /\ http[t].pc # "idle" => s = t

\* A handler is at work on driver d.
AtWork(d) ==
    \/ job.pc # "idle" /\ job.driver = d
    \/ \E s \in Slots : http[s].pc # "idle" /\ http[s].driver = d

InSerial ==
    ~disturbed =>
        /\ OneAtATime
        /\ \A d \in Drivers : AtWork(d) \/ InStep(d)
        /\ \A s \in Slots : http[s].pc # "idle" => RequestPhase(http[s])
        /\ job.pc # "idle" => JobPhase(job)

-----------------------------------------------------------------------------
(* Types.                                                                  *)

LEMMA NoRequestType == NoRequest \in Request /\ NoRequest.pc = "idle" /\ NoRequest.status = "offline"
  BY DEF NoRequest, Request, DriverStatus

LEMMA NoJobType == NoJob \in Job /\ NoJob.pc = "idle"
  BY DEF NoJob, Job, Topics, DriverStatus

RequestPcs == {"idle", "insert", "statusWrite", "statusRedis", "statusPublish", "locRedis", "locWrite"}
JobPcs == {"idle", "photoWrite", "statusWrite", "statusRedis", "statusPublish"}

\* What Goto leaves of a request.
LEMMA GotoFields ==
    ASSUME http \in [Slots -> Request], NEW s \in Slots, NEW pc \in RequestPcs, Goto(s, pc)
    PROVE  /\ http' \in [Slots -> Request]
           /\ \A t \in Slots \ {s} : http'[t] = http[t]
           /\ http'[s].pc = pc /\ http'[s].driver = http[s].driver
           /\ http'[s].status = http[s].status /\ http'[s].loc = http[s].loc
<1>1. http[s] \in Request
  OBVIOUS
<1>2. http' = [http EXCEPT ![s] = [http[s] EXCEPT !.pc = pc]]
  BY DEF Goto
<1>3. [http[s] EXCEPT !.pc = pc] \in Request
  BY <1>1 DEF Request, RequestPcs
<1>4. /\ http'[s].pc = pc /\ http'[s].driver = http[s].driver
      /\ http'[s].status = http[s].status /\ http'[s].loc = http[s].loc
  BY <1>1, <1>2 DEF Request
<1> QED BY <1>2, <1>3, <1>4

LEMMA RespondFields ==
    ASSUME http \in [Slots -> Request], NEW s \in Slots, Respond(s)
    PROVE  /\ http' \in [Slots -> Request]
           /\ \A t \in Slots \ {s} : http'[t] = http[t]
           /\ http'[s] = NoRequest
  BY NoRequestType DEF Respond

LEMMA JobGoto ==
    ASSUME job \in Job, NEW pc \in JobPcs, job' = [job EXCEPT !.pc = pc]
    PROVE  /\ job' \in Job /\ job'.pc = pc
           /\ job'.topic = job.topic /\ job'.driver = job.driver /\ job'.status = job.status
           /\ job'.loc = job.loc /\ job'.hasPhoto = job.hasPhoto /\ job'.goOffline = job.goOffline
  BY DEF Job, JobPcs

\* A row with one field changed.
LEMMA RowWrite ==
    ASSUME drivers \in [Drivers -> Driver], NEW d \in Drivers
    PROVE  /\ \A status \in DriverStatus :
                LET row == [drivers[d] EXCEPT !.status = status] IN
                /\ row \in Driver /\ row.status = status /\ row.exists = drivers[d].exists
                /\ row.hasPhoto = drivers[d].hasPhoto /\ row.loc = drivers[d].loc
           /\ \A flag \in BOOLEAN :
                LET row == [drivers[d] EXCEPT !.hasPhoto = flag] IN
                /\ row \in Driver /\ row.status = drivers[d].status /\ row.exists = drivers[d].exists
                /\ row.hasPhoto = flag /\ row.loc = drivers[d].loc
           /\ \A loc \in Places \cup {NoPlace} :
                LET row == [drivers[d] EXCEPT !.loc = loc] IN
                /\ row \in Driver /\ row.status = drivers[d].status /\ row.exists = drivers[d].exists
                /\ row.hasPhoto = drivers[d].hasPhoto /\ row.loc = loc
<1>1. drivers[d] \in Driver
  OBVIOUS
<1> QED BY <1>1 DEF Driver

LEMMA NewProfileFields ==
    ASSUME NEW loc \in Places \cup {NoPlace}
    PROVE  /\ NewProfile(loc) \in Driver /\ NewProfile(loc).exists /\ NewProfile(loc).loc = loc
           /\ NewProfile(loc).status = "offline" /\ NewProfile(loc).hasPhoto = FALSE
  BY DEF NewProfile, NoProfile, Driver, DriverStatus

\* The handler's event is the next one of its topic.
LEMMA AckType ==
    ASSUME TypeOK, NEW t \in Topics, HasNext(log[t], pos[t]), Ack(t), log' = log, committed' = committed
    PROVE  /\ pos' \in [Topics -> Nat] /\ job' \in Job
           /\ \A u \in Topics : committed'[u].from <= pos'[u] + 1 /\ pos'[u] <= Len(log'[u])
<1>1. pos' = [pos EXCEPT ![t] = pos[t] + 1] /\ pos[t] \in Nat
  BY DEF Ack, TypeOK
<1>2. pos' \in [Topics -> Nat]
  BY <1>1 DEF TypeOK
<1>3. Len(log[t]) \in Nat
  BY DEF TypeOK, LogOK, Topics
<1>4. ASSUME NEW u \in Topics PROVE committed'[u].from <= pos'[u] + 1 /\ pos'[u] <= Len(log'[u])
  <2>1. committed[u].from \in Nat /\ pos[u] \in Nat /\ committed[u].from <= pos[u] + 1 /\ pos[u] <= Len(log[u])
    BY DEF TypeOK, Commit
  <2>2. CASE u = t
    BY <1>1, <1>3, <2>1, <2>2 DEF HasNext, TypeOK
  <2>3. CASE u # t
    BY <1>1, <2>1, <2>3 DEF TypeOK
  <2> QED BY <2>2, <2>3
<1> QED BY <1>2, <1>4, NoJobType DEF Ack

\* An event is published; the offsets stay where they are.
LEMMA PublishType ==
    ASSUME TypeOK, NEW t \in Topics, NEW m, log' = Published(log, t, m),
           \/ t = "user.photo.updated" /\ m \in PhotoEvent
           \/ t = "driver.assigned" /\ m \in AssignedEvent
           \/ t \in {"ride.status.updated", "ride.completed"} /\ m \in RideEvent
    PROVE  LogOK(log') /\ \A u \in Topics : Len(log'[u]) >= Len(log[u]) /\ Len(log[u]) \in Nat /\ Len(log'[u]) \in Nat
<1>1. LogOK(log') /\ LogOK(log)
  BY PublishedType DEF TypeOK
<1>2. ASSUME NEW u \in Topics PROVE Len(log'[u]) >= Len(log[u]) /\ Len(log[u]) \in Nat /\ Len(log'[u]) \in Nat
  <2>1. PICK S : log[u] \in Seq(S) /\ (u = t => m \in S)
    BY <1>1 DEF LogOK, Topics
  <2>2. CASE u = t
    BY <1>1, <2>1, <2>2, PublishedTopics, AppendFacts
  <2>3. CASE u # t
    BY <1>1, <2>1, <2>3, PublishedTopics
  <2> QED BY <2>2, <2>3
<1> QED BY <1>1, <1>2

\* The records the handlers begin with.
LEMMA PhotoJobFields ==
    ASSUME TypeOK, NEW d \in Drivers, NEW flag \in BOOLEAN, NEW j, j = PhotoJob(d, flag)
    PROVE  /\ j \in Job /\ j.pc = "photoWrite" /\ j.topic = "user.photo.updated" /\ j.driver = d
           /\ j.status = "offline" /\ j.loc = drivers[d].loc /\ j.hasPhoto = flag
           /\ j.goOffline = (~flag /\ drivers[d].status = "available")
<1>1. drivers[d] \in Driver
  BY DEF TypeOK
<1> QED BY <1>1 DEF PhotoJob, Job, Driver, Topics, DriverStatus

LEMMA StatusJobFields ==
    ASSUME TypeOK, NEW d \in Drivers, NEW t \in DriverTopics, NEW status \in DriverStatus,
           NEW j, j = StatusJob(t, d, status)
    PROVE  /\ j \in Job /\ j.pc = "statusWrite" /\ j.topic = t /\ j.driver = d
           /\ j.status = status /\ j.loc = drivers[d].loc /\ ~j.hasPhoto
<1>1. drivers[d] \in Driver
  BY DEF TypeOK
<1> QED BY <1>1 DEF StatusJob, Job, Driver, DriverTopics, Topics

\* What a topic of driver-service carries.
LEMMA EventTypes ==
    ASSUME TypeOK, NEW t \in DriverTopics, HasNext(log[t], pos[t]), NEW m, m = NextMessage(log[t], pos[t])
    PROVE  /\ t \in Topics /\ m \in Messages(log[t])
           /\ m.driver \in Drivers \cup {NoDriver}
           /\ t = "user.photo.updated" => m \in PhotoEvent
           /\ t = "driver.assigned" => m \in AssignedEvent
           /\ t \in {"ride.completed", "ride.status.updated"} => m \in RideEvent
<1>1. t \in Topics /\ pos[t] \in Nat /\ LogOK(log)
  BY DEF DriverTopics, Topics, TypeOK
<1>2. CASE t = "user.photo.updated"
  <2>1. m \in PhotoEvent /\ m \in Messages(log[t])
    BY <1>1, <1>2, NextIsMessage DEF LogOK
  <2> QED BY <1>1, <1>2, <2>1 DEF PhotoEvent
<1>3. CASE t = "driver.assigned"
  <2>1. m \in AssignedEvent /\ m \in Messages(log[t])
    BY <1>1, <1>3, NextIsMessage DEF LogOK
  <2> QED BY <1>1, <1>3, <2>1 DEF AssignedEvent
<1>4. CASE t \in {"ride.completed", "ride.status.updated"}
  <2>1. m \in RideEvent /\ m \in Messages(log[t])
    BY <1>1, <1>4, NextIsMessage DEF LogOK
  <2> QED BY <1>1, <1>4, <2>1 DEF RideEvent
<1> QED BY <1>2, <1>3, <1>4 DEF DriverTopics

LEMMA InitType == Init => TypeOK
<1> SUFFICES ASSUME Init PROVE TypeOK
  OBVIOUS
<1>1. LogOK(log) /\ \A t \in Topics : Len(log[t]) = 0
  BY EmptyLogOK DEF Init, EmptyLog
<1>2. NoProfile \in Driver
  BY DEF NoProfile, Driver, DriverStatus
<1>3. /\ pos \in [Topics -> Nat] /\ committed \in [Topics -> Commit]
      /\ \A t \in Topics : committed[t].from <= pos[t] + 1 /\ pos[t] <= Len(log[t])
      /\ \A t \in Topics : \A i \in committed[t].skipped : 0 < i /\ i < committed[t].from
  BY <1>1, FirstCommitsOK DEF Init
<1>4. drivers \in [Drivers -> Driver] /\ http \in [Slots -> Request] /\ job \in Job
  BY <1>2, NoRequestType, NoJobType DEF Init
<1> QED BY <1>1, <1>3, <1>4 DEF Init, TypeOK, DriverStatus

\* A step of a request, with what it writes.
LEMMA SlotType ==
    ASSUME TypeOK, drivers' \in [Drivers -> Driver], pool' \in [Drivers -> Places \cup {NoPlace}],
           announced' \in [Drivers -> DriverStatus], http' \in [Slots -> Request],
           UNCHANGED <<held, job, log, pos, committed, faults, rejoins, disturbed>>
    PROVE  TypeOK'
  BY DEF TypeOK

LEMMA HttpStepType ==
    ASSUME TypeOK, HandlersOK, NEW s \in Slots, HttpStep(s)
    PROVE  TypeOK'
<1>1. http[s] \in Request /\ http \in [Slots -> Request]
  BY DEF TypeOK
<1>2. http[s].pc # "idle" => http[s].driver \in Drivers
  BY DEF HandlersOK, RequestOK
<1>3. http[s].status \in DriverStatus /\ http[s].loc \in Places \cup {NoPlace}
  BY <1>1 DEF Request
<1>4. drivers \in [Drivers -> Driver] /\ pool \in [Drivers -> Places \cup {NoPlace}]
      /\ announced \in [Drivers -> DriverStatus]
  BY DEF TypeOK
<1>5. CASE Insert(s)
  <2>1. drivers' \in [Drivers -> Driver]
    BY <1>3, <1>4, <1>5, NewProfileFields DEF Insert
  <2> QED BY <1>1, <1>4, <1>5, <2>1, RespondFields, SlotType DEF Insert
<1>6. CASE StatusWrite(s)
  <2>1. drivers' \in [Drivers -> Driver]
    BY <1>2, <1>3, <1>4, <1>6, RowWrite DEF StatusWrite
  <2>2. http' \in [Slots -> Request]
    BY <1>1, <1>6, GotoFields DEF StatusWrite, RequestPcs
  <2> QED BY <1>4, <1>6, <2>1, <2>2, SlotType DEF StatusWrite
<1>7. CASE StatusRedis(s)
  <2>1. http' \in [Slots -> Request]
    BY <1>1, <1>7, GotoFields DEF StatusRedis, RequestPcs
  <2> QED BY <1>3, <1>4, <1>7, <2>1, SlotType DEF StatusRedis, PoolAfter
<1>8. CASE StatusPublish(s)
  BY <1>1, <1>3, <1>4, <1>8, RespondFields, SlotType DEF StatusPublish
<1>9. CASE LocRedis(s)
  <2>1. http' \in [Slots -> Request]
    BY <1>1, <1>9, GotoFields DEF LocRedis, RequestPcs
  <2> QED BY <1>3, <1>4, <1>9, <2>1, SlotType DEF LocRedis
<1>10. CASE LocWrite(s)
  <2>1. drivers' \in [Drivers -> Driver]
    BY <1>2, <1>3, <1>4, <1>10, RowWrite DEF LocWrite
  <2> QED BY <1>1, <1>4, <1>10, <2>1, RespondFields, SlotType DEF LocWrite
<1> QED BY <1>5, <1>6, <1>7, <1>8, <1>9, <1>10 DEF HttpStep

LEMMA AcceptType ==
    ASSUME TypeOK, NEW s \in Slots, NEW r \in Request, Accept(s, r)
    PROVE  TypeOK'
  BY DEF TypeOK, Accept, tableVars, Starts

\* The requests that drivers make.
LEMMA CreateFields ==
    ASSUME NEW d \in Drivers, NEW loc \in Places \cup {NoPlace},
           NEW r, r = [NoRequest EXCEPT !.pc = "insert", !.driver = d, !.loc = loc]
    PROVE  /\ r \in Request /\ r.pc = "insert" /\ r.driver = d /\ r.loc = loc /\ r.status = "offline"
  BY DEF NoRequest, Request, DriverStatus

LEMMA PingFields ==
    ASSUME NEW d \in Drivers, NEW loc \in Places,
           NEW r, r = [NoRequest EXCEPT !.pc = FirstStepOfPing(d), !.driver = d, !.loc = loc]
    PROVE  /\ r \in Request /\ r.pc \in {"locRedis", "locWrite"} /\ r.driver = d /\ r.loc = loc
           /\ r.status = "offline"
           /\ r.pc = "locRedis" <=> drivers[d].status = "available"
  BY DEF NoRequest, Request, DriverStatus, FirstStepOfPing

LEMMA StatusFields ==
    ASSUME TypeOK, NEW d \in Drivers, NEW status \in DriverStatus,
           NEW r, r = [pc |-> "statusWrite", driver |-> d, status |-> status, loc |-> drivers[d].loc]
    PROVE  /\ r \in Request /\ r.pc = "statusWrite" /\ r.driver = d /\ r.loc = drivers[d].loc
           /\ r.status = status
<1>1. drivers[d].loc \in Places \cup {NoPlace}
  BY DEF TypeOK, Driver
<1> QED BY <1>1 DEF Request

LEMMA RequestsType ==
    ASSUME TypeOK, NEW s \in Slots, Requests(s)
    PROVE  TypeOK'
<1>1. ASSUME NEW d \in Drivers, NEW loc \in Places \cup {NoPlace}, createDriver(s, d, loc) PROVE TypeOK'
  <2> PICK r : r = [NoRequest EXCEPT !.pc = "insert", !.driver = d, !.loc = loc]
    OBVIOUS
  <2>1. r \in Request /\ Accept(s, r)
    BY <1>1, CreateFields DEF createDriver
  <2> QED BY <2>1, AcceptType
<1>2. ASSUME NEW d \in Drivers, NEW status \in DriverStatus, updateStatus(s, d, status) PROVE TypeOK'
  BY <1>2, StatusFields, AcceptType DEF updateStatus
<1>3. ASSUME NEW d \in Drivers, NEW loc \in Places, updateLocation(s, d, loc) PROVE TypeOK'
  <2> PICK r : r = [NoRequest EXCEPT !.pc = FirstStepOfPing(d), !.driver = d, !.loc = loc]
    OBVIOUS
  <2>1. r \in Request
    BY PingFields
  <2>2. Accept(s, r)
    BY <1>3 DEF updateLocation
  <2> QED BY <2>1, <2>2, AcceptType
<1> QED BY <1>1, <1>2, <1>3 DEF Requests

\* The next event of a topic becomes the job of its handler.
LEMMA JobForFields ==
    ASSUME TypeOK, NEW t \in DriverTopics, HasNext(log[t], pos[t]), NEW m, m = NextMessage(log[t], pos[t]),
           m.driver # NoDriver
    PROVE  /\ m.driver \in Drivers /\ JobFor(t, m) \in Job
           /\ t = "user.photo.updated" => m.hasPhoto \in BOOLEAN /\ JobFor(t, m) = PhotoJob(m.driver, m.hasPhoto)
           /\ t = "driver.assigned" => JobFor(t, m) = StatusJob(t, m.driver, "busy")
           /\ t \in {"ride.completed", "ride.status.updated"} =>
                JobFor(t, m) = StatusJob(t, m.driver, StatusAfterRide(m.driver))
           /\ StatusAfterRide(m.driver) \in {"available", "offline"}
<1>1. m.driver \in Drivers
  BY EventTypes
<1>2. StatusAfterRide(m.driver) \in {"available", "offline"}
  BY DEF StatusAfterRide
<1>3. CASE t = "user.photo.updated"
  <2>1. m.hasPhoto \in BOOLEAN
    BY <1>3, EventTypes DEF PhotoEvent
  <2>2. JobFor(t, m) = PhotoJob(m.driver, m.hasPhoto)
    BY <1>3 DEF JobFor
  <2> QED BY <1>1, <1>2, <1>3, <2>1, <2>2, PhotoJobFields
<1>4. CASE t # "user.photo.updated"
  <2> PICK status : /\ status = IF t = "driver.assigned" THEN "busy" ELSE StatusAfterRide(m.driver)
                    /\ status \in DriverStatus
    BY <1>2 DEF DriverStatus
  <2>1. JobFor(t, m) = StatusJob(t, m.driver, status)
    BY <1>4 DEF JobFor, DriverTopics
  <2>2. StatusJob(t, m.driver, status) \in Job
    <3>1. status \in DriverStatus
      OBVIOUS
    <3> QED BY <1>1, <3>1, StatusJobFields
  <2> QED BY <1>1, <1>2, <1>4, <2>1, <2>2
<1> QED BY <1>1, <1>2, <1>3, <1>4

LEMMA ConsumerStepType ==
    ASSUME TypeOK, HandlersOK, ConsumerStep
    PROVE  TypeOK'
<1>1. job \in Job /\ drivers \in [Drivers -> Driver]
  BY DEF TypeOK
<1>2. job.pc # "idle" => job.driver \in Drivers /\ job.topic \in Topics /\ HasNext(log[job.topic], pos[job.topic])
  BY DEF HandlersOK, JobOK, DriverTopics, Topics
<1>3. job.status \in DriverStatus /\ job.loc \in Places \cup {NoPlace} /\ job.hasPhoto \in BOOLEAN
  BY <1>1 DEF Job
<1>4. ASSUME NEW t \in DriverTopics, Consume(t) PROVE TypeOK'
  <2> DEFINE m == NextMessage(log[t], pos[t])
  <2>1. HasNext(log[t], pos[t]) /\ UNCHANGED <<tableVars, http, log, committed, faults, rejoins>>
    BY <1>4 DEF Consume
  <2>2. CASE Ack(t) /\ UNCHANGED disturbed
    <3>1. t \in Topics
      BY DEF DriverTopics, Topics
    <3> QED BY <2>1, <2>2, <3>1, AckType DEF TypeOK, tableVars
  <2>3. CASE ~Ignored(t, m) /\ job' = JobFor(t, m) /\ Starts /\ UNCHANGED pos
    <3>1. job' \in Job
      BY <2>1, <2>3, JobForFields DEF Ignored
    <3> QED BY <2>1, <2>3, <3>1 DEF TypeOK, tableVars, Starts
  <2> QED BY <1>4, <2>2, <2>3 DEF Consume
<1>5. CASE PhotoWrite
  <2>1. drivers' \in [Drivers -> Driver]
    BY <1>1, <1>2, <1>3, <1>5, RowWrite DEF PhotoWrite
  <2>2. CASE job' = [job EXCEPT !.pc = "statusWrite"] /\ UNCHANGED pos
    <3>1. job' \in Job
      BY <1>1, <2>2, JobGoto DEF JobPcs
    <3> QED BY <1>5, <2>1, <2>2, <3>1 DEF PhotoWrite, TypeOK
  <2>3. CASE Ack(job.topic)
    BY <1>2, <1>5, <2>1, <2>3, AckType DEF PhotoWrite, TypeOK
  <2> QED BY <1>5, <2>2, <2>3 DEF PhotoWrite
<1>6. CASE SystemWrite
  <2>1. drivers' \in [Drivers -> Driver]
    BY <1>1, <1>2, <1>3, <1>6, RowWrite DEF SystemWrite
  <2>2. job' \in Job
    BY <1>1, <1>6, JobGoto DEF SystemWrite, JobPcs
  <2> QED BY <1>6, <2>1, <2>2 DEF SystemWrite, TypeOK
<1>7. CASE SystemRedis
  <2>1. job' \in Job
    BY <1>1, <1>7, JobGoto DEF SystemRedis, JobPcs
  <2> QED BY <1>3, <1>7, <2>1 DEF SystemRedis, TypeOK, PoolAfter
<1>8. CASE SystemPublish
  BY <1>2, <1>3, <1>8, AckType DEF SystemPublish, TypeOK
<1> QED BY <1>4, <1>5, <1>6, <1>7, <1>8 DEF ConsumerStep

LEMMA ResumeType ==
    ASSUME TypeOK, Resume, log' = log
    PROVE  /\ pos' \in [Topics -> Nat] /\ committed' \in [Topics -> Commit]
           /\ \A t \in Topics : committed'[t].from <= pos'[t] + 1 /\ pos'[t] <= Len(log'[t])
           /\ \A t \in Topics : \A i \in committed'[t].skipped : 0 < i /\ i < committed'[t].from
           /\ \A t \in Topics : Handled(committed', pos', t) \subseteq Handled(committed, pos, t)
<1>1. PICK k : /\ k \in Rejoins(log, committed, pos, DriverTopics)
               /\ pos' = PosAfter(k, pos) /\ committed' = CommittedAfter(k, committed)
  BY DEF Resume
<1>2. DriverTopics \subseteq Topics /\ LogOK(log) /\ OffsetsOK(log, committed, pos, DriverTopics)
  BY DEF DriverTopics, Topics, TypeOK, OffsetsOK
<1>3. /\ OffsetsOK(log, committed', pos', DriverTopics)
      /\ Moved(log, committed, pos, committed', pos', DriverTopics)
  BY <1>1, <1>2, RejoinsFacts
<1>4. \A t \in Topics : Handled(committed', pos', t) \subseteq Handled(committed, pos, t)
  BY <1>2, <1>3, HandledAfter
<1>5. ASSUME NEW t \in Topics
      PROVE  /\ committed'[t].from <= pos'[t] + 1 /\ pos'[t] <= Len(log[t])
             /\ \A i \in committed'[t].skipped : 0 < i /\ i < committed'[t].from
  BY <1>3 DEF OffsetsOK, Moved, TypeOK
<1> QED BY <1>3, <1>4, <1>5 DEF OffsetsOK

LEMMA TroubleType ==
    ASSUME TypeOK, (\E s \in Slots : RequestFails(s)) \/ HandlerThrows \/ Crash \/ Rejoin
    PROVE  TypeOK'
<1>1. CASE \E s \in Slots : RequestFails(s)
  BY <1>1, RespondFields DEF RequestFails, Fault, TypeOK, tableVars
<1>2. CASE HandlerThrows
  BY <1>2, NoJobType DEF HandlerThrows, Fault, TypeOK, tableVars
<1>3. CASE Crash
  <2>1. LogOK(log') /\ log' = log
    BY <1>3 DEF Crash, TypeOK
  <2> QED BY <1>3, <2>1, ResumeType, NoRequestType, NoJobType DEF Crash, Fault, TypeOK, tableVars
<1>4. CASE Rejoin
  BY <1>4, ResumeType DEF Rejoin, TypeOK, tableVars
<1> QED BY <1>1, <1>2, <1>3, <1>4

LEMMA RoomForEvent ==
    ASSUME TypeOK, NEW t \in Topics, NEW m, log' = Published(log, t, m),
           \/ t = "user.photo.updated" /\ m \in PhotoEvent
           \/ t = "driver.assigned" /\ m \in AssignedEvent
           \/ t \in {"ride.status.updated", "ride.completed"} /\ m \in RideEvent,
           held' \subseteq Drivers,
           UNCHANGED <<drivers, pool, announced, http, job, pos, committed, faults, rejoins, disturbed>>
    PROVE  TypeOK'
<1>1. LogOK(log)' /\ \A u \in Topics : Len(log'[u]) >= Len(log[u]) /\ Len(log[u]) \in Nat /\ Len(log'[u]) \in Nat
  BY PublishType DEF LogOK
<1>2. ASSUME NEW u \in Topics PROVE committed'[u].from <= pos'[u] + 1 /\ pos'[u] <= Len(log'[u])
  <2>1. pos[u] \in Nat /\ committed[u].from <= pos[u] + 1 /\ pos[u] <= Len(log[u])
    BY DEF TypeOK
  <2>2. pos'[u] = pos[u] /\ committed'[u] = committed[u]
    OBVIOUS
  <2> QED BY <1>1, <2>1, <2>2
<1> QED BY <1>1, <1>2 DEF TypeOK

LEMMA EnvironmentType ==
    ASSUME TypeOK, Environment
    PROVE  TypeOK'
<1>1. ASSUME NEW m \in PhotoEvent, PhotoUpdated(m) PROVE TypeOK'
  BY <1>1, RoomForEvent DEF PhotoUpdated, tableVars, Topics, TypeOK
<1>2. ASSUME NEW d \in Drivers, Claim(d) PROVE TypeOK'
  BY <1>2 DEF Claim, TypeOK
<1>3. ASSUME NEW d \in Drivers, ClaimLost(d) PROVE TypeOK'
  BY <1>3 DEF ClaimLost, TypeOK
<1>4. ASSUME NEW d \in Drivers, NEW r \in Rides, Assigned(r, d) PROVE TypeOK'
  <2>1. [ride |-> r, driver |-> d] \in AssignedEvent
    BY DEF AssignedEvent
  <2> QED BY <1>4, <2>1, RoomForEvent DEF Assigned, Topics, TypeOK
<1>5. ASSUME NEW m \in RideEvent, RideReported(m) PROVE TypeOK'
  BY <1>5, RoomForEvent DEF RideReported, RideTopic, tableVars, Topics, TypeOK
<1> QED BY <1>1, <1>2, <1>3, <1>4, <1>5 DEF Environment

LEMMA StepType ==
    ASSUME TypeOK, HandlersOK, [Next]_vars
    PROVE  TypeOK'
<1>1. CASE UNCHANGED vars
  BY <1>1 DEF vars, tableVars, TypeOK
<1> QED BY <1>1, RequestsType, HttpStepType, ConsumerStepType, TroubleType, EnvironmentType DEF Next

-----------------------------------------------------------------------------
(* What a step does to the other drivers and handlers.                     *)

\* What was heard of stays heard of.
SeenStays ==
    /\ \A d \in Drivers : drivers[d].exists => drivers'[d].exists
    /\ \A d : PhotoSeen(d) => PhotoSeen(d)'
    /\ \A d : AssignedSeen(d) => AssignedSeen(d)'

LEMMA SameLog ==
    ASSUME log' = log, \A d \in Drivers : drivers[d].exists => drivers'[d].exists
    PROVE  SeenStays
  BY DEF SeenStays, PhotoSeen, AssignedSeen

LEMMA RequestStays ==
    ASSUME SeenStays, NEW r, RequestOK(r)
    PROVE  RequestOK(r)'
  BY DEF SeenStays, RequestOK

LEMMA JobStays ==
    ASSUME SeenStays, NEW j, JobOK(j),
           j.pc # "idle" =>
             /\ HasNext(log'[j.topic], pos'[j.topic])
             /\ NextMessage(log'[j.topic], pos'[j.topic]) = NextMessage(log[j.topic], pos[j.topic])
    PROVE  JobOK(j)'
  BY DEF SeenStays, JobOK

\* Nothing happens to driver d but that matching-service may claim it.
Undisturbed(d) ==
    /\ drivers'[d] = drivers[d] /\ announced'[d] = announced[d]
    /\ pool'[d] = pool[d] \/ (pool'[d] = NoPlace /\ Claimed(d)')
    /\ drivers[d].status = "available" /\ Claimed(d) => Claimed(d)'

LEMMA PhaseStays ==
    ASSUME NEW d, Undisturbed(d)
    PROVE  /\ InStep(d) => InStep(d)'
           /\ \A r : r.driver = d /\ RequestPhase(r) => RequestPhase(r)'
           /\ \A j : j.driver = d /\ JobPhase(j) => JobPhase(j)'
<1>1. \A loc : PoolAt(d, loc) => PoolAt(d, loc)'
  BY DEF Undisturbed, PoolAt
<1>2. PoolAt(d, drivers[d].loc) => PoolAt(d, drivers[d].loc)'
  BY <1>1 DEF Undisturbed, PoolAt
<1>3. (PhotoOK(d) => PhotoOK(d)') /\ (AnnouncedOK(d) => AnnouncedOK(d)')
  BY DEF Undisturbed, PhotoOK, AnnouncedOK
<1>4. drivers'[d] = drivers[d]
  BY DEF Undisturbed
<1>5. InStep(d) => InStep(d)'
  BY <1>2, <1>3 DEF InStep
<1>6. ASSUME NEW r, r.driver = d, RequestPhase(r) PROVE RequestPhase(r)'
  BY <1>1, <1>2, <1>3, <1>4, <1>6 DEF RequestPhase
<1>7. ASSUME NEW j, j.driver = d, JobPhase(j) PROVE JobPhase(j)'
  BY <1>1, <1>2, <1>3, <1>4, <1>7 DEF JobPhase
<1> QED BY <1>5, <1>6, <1>7

\* The handlers stay where they are.
LEMMA SerialStays ==
    ASSUME IInv, InSerial, http' = http, job' = job, disturbed => disturbed',
           ~disturbed' => \A d \in Drivers : Undisturbed(d)
    PROVE  InSerial'
<1> SUFFICES ASSUME ~disturbed' PROVE InSerial'
  BY DEF InSerial
<1>1. ~disturbed /\ \A d \in Drivers : Undisturbed(d)
  OBVIOUS
<1>2. OneAtATime'
  BY <1>1 DEF InSerial, OneAtATime
<1>3. ASSUME NEW d \in Drivers PROVE (AtWork(d) \/ InStep(d))'
  BY <1>1, PhaseStays DEF InSerial, AtWork
<1>4. ASSUME NEW s \in Slots, http[s].pc # "idle" PROVE RequestPhase(http[s])'
  <2>1. http[s].driver \in Drivers
    BY <1>4 DEF IInv, HandlersOK, RequestOK
  <2> PICK r : r = http[s]
    OBVIOUS
  <2>2. r.driver \in Drivers /\ RequestPhase(r) /\ http'[s] = r
    BY <1>1, <1>4, <2>1 DEF InSerial
  <2>3. RequestPhase(r)'
    BY <1>1, <2>2, PhaseStays
  <2> QED BY <2>2, <2>3 DEF RequestPhase
<1>5. ASSUME job.pc # "idle" PROVE JobPhase(job)'
  <2> PICK j : j = job
    OBVIOUS
  <2>1. j.driver \in Drivers /\ JobPhase(j) /\ job' = j
    BY <1>1, <1>5 DEF InSerial, IInv, HandlersOK, JobOK
  <2>2. JobPhase(j)'
    BY <1>1, <2>1, PhaseStays
  <2> QED BY <2>1, <2>2 DEF JobPhase
<1> QED BY <1>2, <1>3, <1>4, <1>5 DEF InSerial

\* Driver d is written to; the others are not.
OnlyDriver(d) ==
    /\ \A e \in Drivers \ {d} : drivers'[e] = drivers[e] /\ pool'[e] = pool[e] /\ announced'[e] = announced[e]
    /\ log' = log /\ held' = held /\ disturbed' = disturbed
    /\ drivers[d].exists => drivers'[d].exists

LEMMA OtherRows ==
    ASSUME RowsOK, NEW d \in Drivers, OnlyDriver(d), RowOK(d)'
    PROVE  RowsOK' /\ SeenStays
<1>1. SeenStays
  BY SameLog DEF OnlyDriver
<1>2. ASSUME NEW e \in Drivers, e # d PROVE RowOK(e)'
  BY <1>2 DEF OnlyDriver, RowsOK, RowOK, PhotoSeen, AssignedSeen
<1> QED BY <1>1, <1>2 DEF RowsOK

\* A step of the request in slot s.
LEMMA SlotStep ==
    ASSUME IInv, NEW s \in Slots, http[s].pc # "idle", NEW d, d = http[s].driver,
           OnlyDriver(d), RowOK(d)', job' = job, pos' = pos, committed' = committed,
           \A t \in Slots \ {s} : http'[t] = http[t],
           RequestOK(http[s])', http'[s].pc # "idle" => http'[s].driver = d,
           ~disturbed /\ RequestPhase(http[s]) =>
             IF http'[s].pc = "idle" THEN InStep(d)' ELSE RequestPhase(http[s])'
    PROVE  RowsOK' /\ HandlersOK' /\ (InSerial => InSerial')
<1>1. d \in Drivers
  BY DEF IInv, HandlersOK, RequestOK
<1>2. RowsOK' /\ SeenStays
  BY <1>1, OtherRows DEF IInv
<1>3. ASSUME NEW t \in Slots PROVE RequestOK(http[t])'
  <2>1. CASE t = s
    BY <2>1
  <2>2. CASE t # s
    <3> PICK r : r = http[t]
      OBVIOUS
    <3>1. RequestOK(r) /\ http'[t] = r
      BY <2>2 DEF IInv, HandlersOK
    <3>2. RequestOK(r)'
      BY <1>2, <3>1, RequestStays
    <3> QED BY <3>1, <3>2 DEF RequestOK
  <2> QED BY <2>1, <2>2
<1>4. JobOK(job)'
  <2> PICK j : j = job
    OBVIOUS
  <2>1. JobOK(j) /\ job' = j
    BY DEF IInv, HandlersOK
  <2>2. JobOK(j)'
    BY <1>2, <2>1, JobStays DEF JobOK, OnlyDriver
  <2> QED BY <2>1, <2>2 DEF JobOK
<1>5. ASSUME InSerial, ~disturbed PROVE InSerial'
  <2>1. job.pc = "idle" /\ \A t \in Slots \ {s} : http[t].pc = "idle"
    BY <1>5 DEF InSerial, OneAtATime
  <2>2. OneAtATime'
    BY <2>1 DEF OneAtATime
  <2>3. IF http'[s].pc = "idle" THEN InStep(d)' ELSE RequestPhase(http[s])'
    BY <1>5 DEF InSerial
  <2>4. ASSUME NEW e \in Drivers PROVE (AtWork(e) \/ InStep(e))'
    <3>1. CASE e = d
      BY <2>3, <3>1 DEF AtWork
    <3>2. CASE e # d
      <4>1. InStep(e)
        BY <1>5, <2>1, <3>2 DEF InSerial, AtWork
      <4>2. Undisturbed(e)
        BY <3>2 DEF OnlyDriver, Undisturbed, Claimed, Handled
      <4> QED BY <4>1, <4>2, PhaseStays
    <3> QED BY <3>1, <3>2
  <2>5. ASSUME NEW t \in Slots, http'[t].pc # "idle" PROVE RequestPhase(http[t])'
    <3>1. t = s
      BY <2>1, <2>5
    <3> QED BY <2>3, <2>5, <3>1
  <2> QED BY <2>1, <2>2, <2>4, <2>5 DEF InSerial
<1>6. InSerial => InSerial'
  BY <1>5 DEF InSerial, OnlyDriver
<1> QED BY <1>2, <1>3, <1>4, <1>6 DEF HandlersOK

\* A step of the handler of an event.  When it is the last one, the event was
\* of its driver, so that nobody else's claim is heard of by that.
LEMMA JobStep ==
    ASSUME IInv, TypeOK', job.pc # "idle", NEW d, d = job.driver, OnlyDriver(d), RowOK(d)', http' = http,
           committed' = committed,
           \/ Ack(job.topic)
           \/ pos' = pos /\ job'.pc # "idle" /\ job'.driver = d /\ JobOK(job)',
           ~disturbed /\ JobPhase(job) => IF job'.pc = "idle" THEN InStep(d)' ELSE JobPhase(job)'
    PROVE  IInv' /\ (InSerial => InSerial')
<1>1. d \in Drivers /\ JobOK(job) /\ job.topic \in Topics
  BY DEF IInv, HandlersOK, JobOK, DriverTopics, Topics
<1>2. RowsOK' /\ SeenStays
  BY <1>1, OtherRows DEF IInv
<1>3. ASSUME NEW t \in Slots PROVE RequestOK(http[t])'
  <2> PICK r : r = http[t]
    OBVIOUS
  <2>1. RequestOK(r) /\ http'[t] = r
    BY DEF IInv, HandlersOK
  <2>2. RequestOK(r)'
    BY <1>2, <2>1, RequestStays
  <2> QED BY <2>1, <2>2 DEF RequestOK
<1>4. JobOK(job)' /\ (Ack(job.topic) => job'.pc = "idle")
  BY NoJobType DEF Ack, JobOK
<1>5. ASSUME NEW e \in Drivers, e # d, Claimed(e) PROVE Claimed(e)'
  <2>1. log' = log /\ held' = held
    BY DEF OnlyDriver
  <2>2. CASE pos'["driver.assigned"] = pos["driver.assigned"]
    BY <1>5, <2>1, <2>2 DEF Claimed, Handled
  <2>3. CASE Ack(job.topic) /\ job.topic = "driver.assigned"
    <3>1. pos'["driver.assigned"] = pos["driver.assigned"] + 1 /\ pos["driver.assigned"] \in Nat
      BY <1>1, <2>3 DEF Ack, IInv, TypeOK
    <3>2. log["driver.assigned"][pos["driver.assigned"] + 1].driver = d
      BY <1>1, <2>3 DEF JobOK, NextMessage
    <3>3. CASE e \in held
      BY <2>1, <3>3 DEF Claimed, Handled
    <3>4. CASE e \notin held
      <4>1. PICK i \in (1 .. Len(log["driver.assigned"])) \ Handled(committed, pos, "driver.assigned") :
                   log["driver.assigned"][i].driver = e
        BY <1>5, <3>4 DEF Claimed
      <4>2. Len(log["driver.assigned"]) \in Nat
        BY DEF IInv, TypeOK, LogOK
      <4>3. i \in (1 .. Len(log["driver.assigned"])) \ Handled(committed, pos', "driver.assigned")
        BY <1>5, <3>1, <3>2, <4>1, <4>2 DEF Handled
      <4> QED BY <2>1, <4>1, <4>3 DEF Claimed
    <3> QED BY <3>3, <3>4
  <2>4. CASE Ack(job.topic) /\ job.topic # "driver.assigned"
    BY <1>1, <1>5, <2>1, <2>2, <2>4 DEF Ack, IInv, TypeOK, Topics
  <2> QED BY <2>2, <2>3, <2>4
<1>6. ASSUME InSerial, ~disturbed PROVE InSerial'
  <2>1. \A t \in Slots : http[t].pc = "idle"
    BY <1>6 DEF InSerial, OneAtATime
  <2>2. IF job'.pc = "idle" THEN InStep(d)' ELSE JobPhase(job)'
    BY <1>6 DEF InSerial
  <2>3. ASSUME NEW e \in Drivers PROVE (AtWork(e) \/ InStep(e))'
    <3>1. CASE e = d
      BY <1>4, <2>2, <3>1 DEF AtWork
    <3>2. CASE e # d
      <4>1. InStep(e)
        BY <1>6, <2>1, <3>2 DEF InSerial, AtWork
      <4>2. Undisturbed(e)
        BY <1>5, <3>2 DEF OnlyDriver, Undisturbed
      <4> QED BY <4>1, <4>2, PhaseStays
    <3> QED BY <3>1, <3>2
  <2> QED BY <2>1, <2>2, <2>3 DEF InSerial, OneAtATime
<1>7. InSerial => InSerial'
  BY <1>6 DEF InSerial, OnlyDriver
<1> QED BY <1>2, <1>3, <1>4, <1>7 DEF IInv, HandlersOK

-----------------------------------------------------------------------------
(* The steps.                                                              *)

\* A request begins; if nobody else is at work, it has read what is true.
LEMMA AcceptStep ==
    ASSUME IInv, TypeOK', NEW s \in Slots, NEW r, Accept(s, r), r.pc # "idle", r.driver \in Drivers,
           RequestOK(r), InStep(r.driver) => RequestPhase(r)
    PROVE  IInv' /\ (InSerial => InSerial')
<1>1. /\ UNCHANGED <<drivers, pool, held, announced, job, log, pos, committed>>
      /\ http'[s] = r /\ \A t \in Slots \ {s} : http'[t] = http[t]
      /\ disturbed' = (disturbed \/ ~Quiet)
  BY DEF Accept, tableVars, Starts, IInv, TypeOK
<1>2. SeenStays
  BY <1>1, SameLog
<1>3. RowsOK'
  BY <1>1 DEF IInv, RowsOK, RowOK, PhotoSeen, AssignedSeen
<1>4. ASSUME NEW t \in Slots PROVE RequestOK(http[t])'
  <2> PICK q : q = http'[t]
    OBVIOUS
  <2>1. RequestOK(q)
    BY <1>1 DEF IInv, HandlersOK
  <2>2. RequestOK(q)'
    BY <1>2, <2>1, RequestStays
  <2> QED BY <2>2 DEF RequestOK
<1>5. JobOK(job)'
  BY <1>1 DEF IInv, HandlersOK, JobOK, PhotoSeen, AssignedSeen
<1>6. ASSUME InSerial, ~disturbed' PROVE InSerial'
  <2>1. ~disturbed /\ job.pc = "idle" /\ \A t \in Slots : http[t].pc = "idle"
    BY <1>1, <1>6 DEF Quiet
  <2>2. \A d \in Drivers : InStep(d) /\ InStep(d)'
    <3>1. \A d \in Drivers : InStep(d)
      BY <1>6, <2>1 DEF InSerial, AtWork
    <3>2. \A d \in Drivers : Undisturbed(d)
      BY <1>1 DEF Undisturbed, Claimed, Handled
    <3> QED BY <3>1, <3>2, PhaseStays
  <2>3. RequestPhase(r)'
    BY <1>1, <2>2 DEF RequestPhase, PhotoOK, PoolAt, AnnouncedOK, Claimed, Handled
  <2>4. RequestPhase(http[s])'
    BY <1>1, <2>3 DEF RequestPhase
  <2>5. \A t \in Slots : http'[t].pc # "idle" => t = s
    BY <1>1, <2>1
  <2> QED BY <1>1, <2>1, <2>2, <2>4, <2>5 DEF InSerial, OneAtATime
<1>7. InSerial => InSerial'
  BY <1>6 DEF InSerial
<1> QED BY <1>3, <1>4, <1>5, <1>7 DEF IInv, HandlersOK

LEMMA RequestsKeep ==
    ASSUME IInv, TypeOK', NEW s \in Slots, Requests(s)
    PROVE  IInv' /\ (InSerial => InSerial')
<1>1. ASSUME NEW d \in Drivers, NEW loc \in Places \cup {NoPlace}, createDriver(s, d, loc)
      PROVE  IInv' /\ (InSerial => InSerial')
  <2> PICK r : r = [NoRequest EXCEPT !.pc = "insert", !.driver = d, !.loc = loc]
    OBVIOUS
  <2>1. r.pc = "insert" /\ r.driver = d /\ r.status = "offline"
    BY DEF NoRequest
  <2>2. Accept(s, r) /\ ~drivers[d].exists
    BY <1>1 DEF createDriver
  <2>3. RequestOK(r)
    BY <2>1 DEF RequestOK
  <2>4. InStep(d) => RequestPhase(r)
    BY <2>1, <2>2 DEF InStep, RequestPhase
  <2> QED BY <2>1, <2>2, <2>3, <2>4, AcceptStep
<1>2. ASSUME NEW d \in Drivers, NEW status \in DriverStatus, updateStatus(s, d, status)
      PROVE  IInv' /\ (InSerial => InSerial')
  <2> PICK r : r = [pc |-> "statusWrite", driver |-> d, status |-> status, loc |-> drivers[d].loc]
    OBVIOUS
  <2>1. r.pc = "statusWrite" /\ r.driver = d /\ r.status = status /\ r.loc = drivers[d].loc
    OBVIOUS
  <2>2. Accept(s, r) /\ StatusAllowed(d, status)
    BY <1>2 DEF updateStatus
  <2>3. RequestOK(r)
    BY <2>1, <2>2 DEF RequestOK, StatusAllowed, IInv, RowsOK, RowOK, DriverStatus
  <2>4. InStep(d) => RequestPhase(r)
    BY <2>1, <2>2 DEF InStep, RequestPhase, StatusAllowed
  <2> QED BY <2>1, <2>2, <2>3, <2>4, AcceptStep
<1>3. ASSUME NEW d \in Drivers, NEW loc \in Places, updateLocation(s, d, loc)
      PROVE  IInv' /\ (InSerial => InSerial')
  <2> PICK r : r = [NoRequest EXCEPT !.pc = FirstStepOfPing(d), !.driver = d, !.loc = loc]
    OBVIOUS
  <2>1. /\ r.pc \in {"locRedis", "locWrite"} /\ r.driver = d /\ r.loc = loc /\ r.status = "offline"
        /\ r.pc = "locRedis" <=> drivers[d].status = "available"
    BY DEF NoRequest, FirstStepOfPing
  <2>2. Accept(s, r) /\ drivers[d].exists
    BY <1>3 DEF updateLocation
  <2>3. RequestOK(r)
    BY <2>1, <2>2 DEF RequestOK, IInv, RowsOK, RowOK
  <2>4. InStep(d) => RequestPhase(r)
    BY <2>1 DEF InStep, RequestPhase, PoolAt
  <2> QED BY <2>1, <2>2, <2>3, <2>4, AcceptStep
<1> QED BY <1>1, <1>2, <1>3 DEF Requests

LEMMA InsertKeeps ==
    ASSUME IInv, TypeOK', NEW s \in Slots, Insert(s)
    PROVE  IInv' /\ (InSerial => InSerial')
<1> PICK d : d = http[s].driver
  OBVIOUS
<1>1. d \in Drivers /\ http[s] \in Request /\ http[s].pc = "insert"
  BY DEF Insert, IInv, HandlersOK, RequestOK, TypeOK
<1>2. http'[s] = NoRequest /\ \A t \in Slots \ {s} : http'[t] = http[t]
  BY RespondFields DEF Insert, IInv, TypeOK
<1>3. RequestOK(http[s])'
  BY <1>2, NoRequestType DEF RequestOK
<1>4. /\ UNCHANGED <<pool, held, announced, job, log, pos, committed, disturbed>>
      /\ \A e \in Drivers \ {d} : drivers'[e] = drivers[e]
      /\ drivers'[d] = IF drivers[d].exists THEN drivers[d] ELSE NewProfile(http[s].loc)
  BY <1>1 DEF Insert, IInv, TypeOK
<1>5. /\ NewProfile(http[s].loc).exists /\ NewProfile(http[s].loc).status = "offline"
      /\ NewProfile(http[s].loc).hasPhoto = FALSE
  BY <1>1, NewProfileFields DEF Request
<1>6. OnlyDriver(d) /\ RowOK(d)'
  <2>1. OnlyDriver(d)
    BY <1>4, <1>5 DEF OnlyDriver
  <2>2. RowOK(d)
    BY <1>1 DEF IInv, RowsOK
  <2> QED BY <1>4, <1>5, <2>1, <2>2 DEF RowOK, PhotoSeen, AssignedSeen
<1>7. ASSUME RequestPhase(http[s]) PROVE InStep(d)'
  <2>1. PoolAt(d, drivers[d].loc) /\ AnnouncedOK(d) /\ ~drivers[d].exists
    BY <1>1, <1>7 DEF RequestPhase
  <2>2. drivers[d].status = "offline"
    BY <1>1, <2>1 DEF IInv, RowsOK, RowOK
  <2> QED BY <1>4, <1>5, <2>1, <2>2 DEF InStep, PoolAt, AnnouncedOK, PhotoOK
<1>8. RowsOK' /\ HandlersOK' /\ (InSerial => InSerial')
  BY <1>1, <1>2, <1>3, <1>4, <1>6, <1>7, NoRequestType, SlotStep
<1> QED BY <1>8 DEF IInv

LEMMA StatusWriteKeeps ==
    ASSUME IInv, TypeOK', NEW s \in Slots, StatusWrite(s)
    PROVE  IInv' /\ (InSerial => InSerial')
<1> PICK d : d = http[s].driver
  OBVIOUS
<1>1. d \in Drivers /\ http[s] \in Request /\ http[s].pc = "statusWrite" /\ RequestOK(http[s])
  BY DEF StatusWrite, IInv, HandlersOK, RequestOK, TypeOK
<1>2. /\ \A t \in Slots \ {s} : http'[t] = http[t]
      /\ http'[s].pc = "statusRedis" /\ http'[s].driver = d
      /\ http'[s].status = http[s].status /\ http'[s].loc = http[s].loc
  BY GotoFields DEF StatusWrite, IInv, TypeOK, RequestPcs
<1>3. /\ UNCHANGED <<pool, held, announced, job, log, pos, committed, disturbed>>
      /\ \A e \in Drivers \ {d} : drivers'[e] = drivers[e]
      /\ drivers'[d] = [drivers[d] EXCEPT !.status = http[s].status]
  BY <1>1 DEF StatusWrite, IInv, TypeOK
<1>4. /\ drivers'[d].status = http[s].status /\ drivers'[d].exists = drivers[d].exists
      /\ drivers'[d].hasPhoto = drivers[d].hasPhoto /\ drivers'[d].loc = drivers[d].loc
  BY <1>1, <1>3 DEF IInv, TypeOK, Driver
<1>5. OnlyDriver(d)
  BY <1>3, <1>4 DEF OnlyDriver
<1>6. RowOK(d)'
  <2>1. RowOK(d)
    BY <1>1 DEF IInv, RowsOK
  <2> QED BY <1>1, <1>3, <1>4, <2>1 DEF RowOK, RequestOK, PhotoSeen, AssignedSeen
<1>7. RequestOK(http[s])'
  BY <1>1, <1>2, <1>3, <1>4 DEF RequestOK, PhotoSeen
<1>8. ASSUME RequestPhase(http[s]) PROVE RequestPhase(http[s])'
  BY <1>1, <1>2, <1>4, <1>8 DEF RequestPhase, PhotoOK
<1>9. RowsOK' /\ HandlersOK' /\ (InSerial => InSerial')
  BY <1>1, <1>2, <1>3, <1>5, <1>6, <1>7, <1>8, SlotStep
<1> QED BY <1>9 DEF IInv

\* Redis is told what the table says; PoolAt holds whether or not matching-service
\* had claimed the driver in between.
LEMMA StatusRedisKeeps ==
    ASSUME IInv, TypeOK', NEW s \in Slots, StatusRedis(s)
    PROVE  IInv' /\ (InSerial => InSerial')
<1> PICK d : d = http[s].driver
  OBVIOUS
<1>1. d \in Drivers /\ http[s] \in Request /\ http[s].pc = "statusRedis" /\ RequestOK(http[s])
  BY DEF StatusRedis, IInv, HandlersOK, RequestOK, TypeOK
<1>2. /\ \A t \in Slots \ {s} : http'[t] = http[t]
      /\ http'[s].pc = "statusPublish" /\ http'[s].driver = d
      /\ http'[s].status = http[s].status
  BY GotoFields DEF StatusRedis, IInv, TypeOK, RequestPcs
<1>3. /\ UNCHANGED <<drivers, held, announced, job, log, pos, committed, disturbed>>
      /\ \A e \in Drivers \ {d} : pool'[e] = pool[e]
      /\ pool'[d] = IF http[s].status = "available" /\ http[s].loc # NoPlace THEN http[s].loc ELSE NoPlace
  BY <1>1 DEF StatusRedis, PoolAfter, IInv, TypeOK
<1>4. OnlyDriver(d)
  BY <1>3 DEF OnlyDriver
<1>5. RowOK(d)'
  <2>1. RowOK(d)
    BY <1>1 DEF IInv, RowsOK
  <2> QED BY <1>1, <1>3, <2>1 DEF RowOK, RequestOK, PhotoSeen, AssignedSeen
<1>6. RequestOK(http[s])'
  BY <1>1, <1>2, <1>3 DEF RequestOK, PhotoSeen
<1>7. ASSUME RequestPhase(http[s]) PROVE RequestPhase(http[s])'
  BY <1>1, <1>2, <1>3, <1>7 DEF RequestPhase, PhotoOK, PoolAt
<1>8. RowsOK' /\ HandlersOK' /\ (InSerial => InSerial')
  BY <1>1, <1>2, <1>3, <1>4, <1>5, <1>6, <1>7, SlotStep
<1> QED BY <1>8 DEF IInv

LEMMA StatusPublishKeeps ==
    ASSUME IInv, TypeOK', NEW s \in Slots, StatusPublish(s)
    PROVE  IInv' /\ (InSerial => InSerial')
<1> PICK d : d = http[s].driver
  OBVIOUS
<1>1. d \in Drivers /\ http[s].pc = "statusPublish"
  BY DEF StatusPublish, IInv, HandlersOK, RequestOK
<1>2. http'[s] = NoRequest /\ \A t \in Slots \ {s} : http'[t] = http[t]
  BY RespondFields DEF StatusPublish, IInv, TypeOK
<1>3. /\ UNCHANGED <<drivers, pool, held, job, log, pos, committed, disturbed>>
      /\ \A e \in Drivers \ {d} : announced'[e] = announced[e]
      /\ announced'[d] = http[s].status
  BY <1>1 DEF StatusPublish, IInv, TypeOK
<1>4. OnlyDriver(d)
  BY <1>3 DEF OnlyDriver
<1>5. RowOK(d)'
  BY <1>1, <1>3 DEF IInv, RowsOK, RowOK, PhotoSeen, AssignedSeen
<1>6. RequestOK(http[s])'
  BY <1>2, NoRequestType DEF RequestOK
<1>7. ASSUME RequestPhase(http[s]) PROVE InStep(d)'
  BY <1>1, <1>3, <1>7 DEF RequestPhase, InStep, PhotoOK, PoolAt, AnnouncedOK, Claimed, Handled
<1>8. RowsOK' /\ HandlersOK' /\ (InSerial => InSerial')
  BY <1>1, <1>2, <1>3, <1>4, <1>5, <1>6, <1>7, NoRequestType, SlotStep
<1> QED BY <1>8 DEF IInv

LEMMA LocRedisKeeps ==
    ASSUME IInv, TypeOK', NEW s \in Slots, LocRedis(s)
    PROVE  IInv' /\ (InSerial => InSerial')
<1> PICK d : d = http[s].driver
  OBVIOUS
<1>1. d \in Drivers /\ http[s] \in Request /\ http[s].pc = "locRedis" /\ RequestOK(http[s])
  BY DEF LocRedis, IInv, HandlersOK, RequestOK, TypeOK
<1>2. /\ \A t \in Slots \ {s} : http'[t] = http[t]
      /\ http'[s].pc = "locWrite" /\ http'[s].driver = d
      /\ http'[s].status = http[s].status /\ http'[s].loc = http[s].loc
  BY GotoFields DEF LocRedis, IInv, TypeOK, RequestPcs
<1>3. /\ UNCHANGED <<drivers, held, announced, job, log, pos, committed, disturbed>>
      /\ \A e \in Drivers \ {d} : pool'[e] = pool[e]
      /\ pool'[d] = http[s].loc
  BY <1>1 DEF LocRedis, IInv, TypeOK
<1>4. OnlyDriver(d)
  BY <1>3 DEF OnlyDriver
<1>5. RowOK(d)'
  <2>1. RowOK(d)
    BY <1>1 DEF IInv, RowsOK
  <2> QED BY <1>1, <1>3, <2>1 DEF RowOK, RequestOK, PhotoSeen, AssignedSeen
<1>6. RequestOK(http[s])'
  BY <1>1, <1>2, <1>3 DEF RequestOK, PhotoSeen
<1>7. ASSUME RequestPhase(http[s]) PROVE RequestPhase(http[s])'
  BY <1>1, <1>2, <1>3, <1>7 DEF RequestPhase, PhotoOK, PoolAt, AnnouncedOK
<1>8. RowsOK' /\ HandlersOK' /\ (InSerial => InSerial')
  BY <1>1, <1>2, <1>3, <1>4, <1>5, <1>6, <1>7, SlotStep
<1> QED BY <1>8 DEF IInv

LEMMA LocWriteKeeps ==
    ASSUME IInv, TypeOK', NEW s \in Slots, LocWrite(s)
    PROVE  IInv' /\ (InSerial => InSerial')
<1> PICK d : d = http[s].driver
  OBVIOUS
<1>1. d \in Drivers /\ http[s] \in Request /\ http[s].pc = "locWrite"
  BY DEF LocWrite, IInv, HandlersOK, RequestOK, TypeOK
<1>2. http'[s] = NoRequest /\ \A t \in Slots \ {s} : http'[t] = http[t]
  BY RespondFields DEF LocWrite, IInv, TypeOK
<1>3. /\ UNCHANGED <<pool, held, announced, job, log, pos, committed, disturbed>>
      /\ \A e \in Drivers \ {d} : drivers'[e] = drivers[e]
      /\ drivers'[d] = [drivers[d] EXCEPT !.loc = http[s].loc]
  BY <1>1 DEF LocWrite, IInv, TypeOK
<1>4. /\ drivers'[d].status = drivers[d].status /\ drivers'[d].exists = drivers[d].exists
      /\ drivers'[d].hasPhoto = drivers[d].hasPhoto /\ drivers'[d].loc = http[s].loc
  BY <1>1, <1>3 DEF IInv, TypeOK, Driver
<1>5. OnlyDriver(d)
  BY <1>3, <1>4 DEF OnlyDriver
<1>6. RowOK(d)'
  <2>1. RowOK(d)
    BY <1>1 DEF IInv, RowsOK
  <2> QED BY <1>3, <1>4, <2>1 DEF RowOK, PhotoSeen, AssignedSeen
<1>7. RequestOK(http[s])'
  BY <1>2, NoRequestType DEF RequestOK
<1>8. ASSUME RequestPhase(http[s]) PROVE InStep(d)'
  BY <1>1, <1>3, <1>4, <1>8 DEF RequestPhase, InStep, PhotoOK, PoolAt, AnnouncedOK, Claimed, Handled
<1>9. RowsOK' /\ HandlersOK' /\ (InSerial => InSerial')
  BY <1>1, <1>2, <1>3, <1>5, <1>6, <1>7, <1>8, NoRequestType, SlotStep
<1> QED BY <1>9 DEF IInv

\* The row of the job's driver after one of the job's steps.
LEMMA JobRow ==
    ASSUME IInv, NEW d \in Drivers, UNCHANGED <<held, log>>,
           drivers'[d].exists = drivers[d].exists,
           drivers'[d].status = drivers[d].status
             \/ (job.pc # "idle" /\ job.driver = d /\ drivers'[d].status = job.status),
           drivers'[d].hasPhoto = drivers[d].hasPhoto
             \/ (job.pc # "idle" /\ job.driver = d /\ drivers'[d].hasPhoto = job.hasPhoto),
           pool'[d] = pool[d] \/ pool'[d] = NoPlace
             \/ (job.pc # "idle" /\ job.driver = d /\ job.status = "available")
    PROVE  RowOK(d)'
<1>1. RowOK(d) /\ JobOK(job)
  BY DEF IInv, RowsOK, HandlersOK
<1>2. job.pc # "idle" /\ job.driver = d =>
        /\ drivers[d].exists
        /\ job.status # "offline" \/ job.hasPhoto => PhotoSeen(d)
        /\ job.status = "busy" => AssignedSeen(d)
  BY <1>1 DEF JobOK
<1>3. (PhotoSeen(d)' <=> PhotoSeen(d)) /\ (AssignedSeen(d)' <=> AssignedSeen(d))
  BY DEF PhotoSeen, AssignedSeen
<1> QED BY <1>1, <1>2, <1>3 DEF RowOK

\* The job goes on with its next step.
LEMMA JobGoes ==
    ASSUME IInv, NEW pc \in {"statusWrite", "statusRedis", "statusPublish"}, job.pc # "idle",
           job' = [job EXCEPT !.pc = pc], UNCHANGED <<log, pos, committed>>,
           job.pc = "photoWrite" => pc = "statusWrite",
           \A d \in Drivers : drivers[d].exists => drivers'[d].exists
    PROVE  JobOK(job)'
<1>1. /\ job'.pc = pc /\ job'.topic = job.topic /\ job'.driver = job.driver /\ job'.status = job.status
      /\ job'.loc = job.loc /\ job'.hasPhoto = job.hasPhoto
  BY JobGoto DEF IInv, TypeOK, JobPcs
<1>2. JobOK(job)
  BY DEF IInv, HandlersOK
<1> QED BY <1>1, <1>2 DEF JobOK, PhotoSeen, AssignedSeen

LEMMA PhotoWriteKeeps ==
    ASSUME IInv, TypeOK', PhotoWrite
    PROVE  IInv' /\ (InSerial => InSerial')
<1> PICK d : d = job.driver
  OBVIOUS
<1>1. d \in Drivers /\ job \in Job /\ job.pc = "photoWrite" /\ job.topic = "user.photo.updated"
  BY DEF PhotoWrite, IInv, HandlersOK, JobOK, TypeOK
<1>2. /\ UNCHANGED <<pool, held, announced, http, log, committed, disturbed>>
      /\ \A e \in Drivers \ {d} : drivers'[e] = drivers[e]
      /\ drivers'[d] = [drivers[d] EXCEPT !.hasPhoto = job.hasPhoto]
  BY <1>1 DEF PhotoWrite, IInv, TypeOK
<1>3. /\ drivers'[d].status = drivers[d].status /\ drivers'[d].exists = drivers[d].exists
      /\ drivers'[d].hasPhoto = job.hasPhoto /\ drivers'[d].loc = drivers[d].loc
  BY <1>1, <1>2 DEF IInv, TypeOK, Driver
<1>4. OnlyDriver(d)
  BY <1>2, <1>3 DEF OnlyDriver
<1>5. RowOK(d)'
  BY <1>1, <1>2, <1>3, JobRow
<1>6. JobPhase(job) => (job.status = "offline"
                        /\ job.goOffline = (~job.hasPhoto /\ drivers[d].status = "available"))
  BY <1>1 DEF JobPhase
<1>7. CASE job.goOffline
  <2>1. job' = [job EXCEPT !.pc = "statusWrite"] /\ pos' = pos
    BY <1>7 DEF PhotoWrite
  <2>2. /\ job'.pc = "statusWrite" /\ job'.driver = d /\ job'.status = job.status /\ job'.loc = job.loc
    BY <2>1, JobGoto DEF IInv, TypeOK, JobPcs
  <2>3. JobOK(job)'
    BY <1>1, <1>2, <1>3, <2>1, JobGoes
  <2>4. ASSUME JobPhase(job) PROVE JobPhase(job)'
    <3>1. PoolAt(d, drivers[d].loc) /\ AnnouncedOK(d) /\ job.loc = drivers[d].loc /\ job.status = "offline"
      BY <1>1, <1>6, <2>4 DEF JobPhase
    <3>2. PoolAt(d, drivers[d].loc)' /\ AnnouncedOK(d)'
      BY <1>2, <1>3, <2>1, <3>1 DEF PoolAt, AnnouncedOK, Claimed, Handled
    <3>3. job'.loc = drivers'[d].loc /\ job'.status = "offline"
      BY <1>3, <2>2, <3>1
    <3> QED BY <2>2, <3>2, <3>3 DEF JobPhase
  <2> QED BY <1>1, <1>2, <1>4, <1>5, <2>1, <2>2, <2>3, <2>4, JobStep
<1>8. CASE ~job.goOffline
  <2>1. Ack(job.topic)
    BY <1>8 DEF PhotoWrite
  <2>2. job'.pc = "idle" /\ pos'["driver.assigned"] = pos["driver.assigned"]
    BY <1>1, <2>1, NoJobType DEF Ack, IInv, TypeOK, Topics
  <2>3. ASSUME JobPhase(job) PROVE InStep(d)'
    BY <1>1, <1>2, <1>3, <1>6, <1>8, <2>2, <2>3 DEF JobPhase, InStep, PhotoOK, PoolAt, AnnouncedOK, Claimed, Handled
  <2> QED BY <1>1, <1>2, <1>4, <1>5, <2>1, <2>2, <2>3, JobStep
<1> QED BY <1>7, <1>8

LEMMA SystemWriteKeeps ==
    ASSUME IInv, TypeOK', SystemWrite
    PROVE  IInv' /\ (InSerial => InSerial')
<1> PICK d : d = job.driver
  OBVIOUS
<1>1. d \in Drivers /\ job \in Job /\ job.pc = "statusWrite"
  BY DEF SystemWrite, IInv, HandlersOK, JobOK, TypeOK
<1>2. /\ UNCHANGED <<pool, held, announced, http, log, pos, committed, disturbed>>
      /\ \A e \in Drivers \ {d} : drivers'[e] = drivers[e]
      /\ drivers'[d] = [drivers[d] EXCEPT !.status = job.status]
      /\ job' = [job EXCEPT !.pc = "statusRedis"]
  BY <1>1 DEF SystemWrite, IInv, TypeOK
<1>3. /\ drivers'[d].status = job.status /\ drivers'[d].exists = drivers[d].exists
      /\ drivers'[d].hasPhoto = drivers[d].hasPhoto /\ drivers'[d].loc = drivers[d].loc
  BY <1>1, <1>2 DEF IInv, TypeOK, Driver
<1>4. OnlyDriver(d)
  BY <1>2, <1>3 DEF OnlyDriver
<1>5. RowOK(d)'
  BY <1>1, <1>2, <1>3, JobRow
<1>6. job'.pc = "statusRedis" /\ job'.driver = d /\ job'.status = job.status /\ job'.loc = job.loc
  BY <1>2, JobGoto DEF IInv, TypeOK, JobPcs
<1>7. JobOK(job)'
  BY <1>1, <1>2, <1>3, JobGoes
<1>8. ASSUME JobPhase(job) PROVE JobPhase(job)'
  <2>1. job.loc = drivers[d].loc /\ (job.status = "available" => drivers[d].hasPhoto)
    BY <1>1, <1>8 DEF JobPhase
  <2>2. PhotoOK(d)'
    BY <1>3, <2>1 DEF PhotoOK
  <2>3. job'.loc = drivers'[d].loc /\ drivers'[d].status = job'.status
    BY <1>3, <1>6, <2>1
  <2> QED BY <1>6, <2>2, <2>3 DEF JobPhase
<1> QED BY <1>1, <1>2, <1>4, <1>5, <1>6, <1>7, <1>8, JobStep

LEMMA SystemRedisKeeps ==
    ASSUME IInv, TypeOK', SystemRedis
    PROVE  IInv' /\ (InSerial => InSerial')
<1> PICK d : d = job.driver
  OBVIOUS
<1>1. d \in Drivers /\ job \in Job /\ job.pc = "statusRedis"
  BY DEF SystemRedis, IInv, HandlersOK, JobOK, TypeOK
<1>2. /\ UNCHANGED <<drivers, held, announced, http, log, pos, committed, disturbed>>
      /\ \A e \in Drivers \ {d} : pool'[e] = pool[e]
      /\ pool'[d] = IF job.status = "available" /\ job.loc # NoPlace THEN job.loc ELSE NoPlace
      /\ job' = [job EXCEPT !.pc = "statusPublish"]
  BY <1>1 DEF SystemRedis, PoolAfter, IInv, TypeOK
<1>3. OnlyDriver(d)
  BY <1>2 DEF OnlyDriver
<1>4. RowOK(d)'
  BY <1>1, <1>2, JobRow
<1>5. job'.pc = "statusPublish" /\ job'.driver = d /\ job'.status = job.status /\ job'.loc = job.loc
  BY <1>2, JobGoto DEF IInv, TypeOK, JobPcs
<1>6. JobOK(job)'
  BY <1>1, <1>2, JobGoes
<1>7. ASSUME JobPhase(job) PROVE JobPhase(job)'
  BY <1>1, <1>2, <1>5, <1>7 DEF JobPhase, PhotoOK, PoolAt
<1> QED BY <1>1, <1>2, <1>3, <1>4, <1>5, <1>6, <1>7, JobStep

\* With the last step of an assignment the claim is heard of: the driver is busy.
LEMMA SystemPublishKeeps ==
    ASSUME IInv, TypeOK', SystemPublish
    PROVE  IInv' /\ (InSerial => InSerial')
<1> PICK d : d = job.driver
  OBVIOUS
<1>1. d \in Drivers /\ job \in Job /\ job.pc = "statusPublish" /\ JobOK(job) /\ job.topic \in Topics
  BY DEF SystemPublish, IInv, HandlersOK, JobOK, TypeOK, DriverTopics, Topics
<1>2. /\ UNCHANGED <<drivers, pool, held, http, log, committed, disturbed>>
      /\ \A e \in Drivers \ {d} : announced'[e] = announced[e]
      /\ announced'[d] = job.status
      /\ Ack(job.topic)
  BY <1>1 DEF SystemPublish, IInv, TypeOK
<1>3. OnlyDriver(d)
  BY <1>2 DEF OnlyDriver
<1>4. RowOK(d)'
  BY <1>1, <1>2, JobRow
<1>5. job'.pc = "idle"
  BY <1>2, NoJobType DEF Ack
<1>6. ASSUME JobPhase(job) PROVE InStep(d)'
  <2>1. PhotoOK(d) /\ PoolAt(d, drivers[d].loc) /\ drivers[d].status = job.status
    BY <1>1, <1>6 DEF JobPhase
  <2>2. PhotoOK(d)' /\ AnnouncedOK(d)'
    BY <1>2, <2>1 DEF PhotoOK, AnnouncedOK
  <2>3. CASE job.topic = "driver.assigned"
    <3>1. drivers[d].status = "busy"
      BY <1>1, <2>1, <2>3 DEF JobOK
    <3> QED BY <1>2, <2>1, <2>2, <3>1 DEF InStep, PoolAt
  <2>4. CASE job.topic # "driver.assigned"
    <3>1. pos'["driver.assigned"] = pos["driver.assigned"]
      BY <1>1, <1>2, <2>4 DEF Ack, IInv, TypeOK, Topics
    <3> QED BY <1>2, <2>1, <2>2, <3>1 DEF InStep, PoolAt, Claimed, Handled
  <2> QED BY <2>3, <2>4
<1> QED BY <1>1, <1>2, <1>3, <1>4, <1>5, <1>6, JobStep

\* An event nobody has to act on: an assignment among them is of a driver who is
\* not available, so that nobody misses the claim.
LEMMA IgnoredKeeps ==
    ASSUME IInv, TypeOK', NEW t \in DriverTopics, HasNext(log[t], pos[t]), job.pc = "idle",
           Ignored(t, NextMessage(log[t], pos[t])), Ack(t),
           UNCHANGED <<tableVars, http, log, committed, disturbed>>
    PROVE  IInv' /\ (InSerial => InSerial')
<1>1. job' = NoJob /\ job'.pc = "idle" /\ UNCHANGED <<drivers, pool, held, announced>> /\ t \in Topics
  BY NoJobType DEF Ack, tableVars, DriverTopics, Topics
<1>2. RowsOK' /\ HandlersOK'
  BY <1>1 DEF IInv, RowsOK, RowOK, HandlersOK, JobOK, RequestOK, PhotoSeen, AssignedSeen
<1>3. ASSUME NEW d \in Drivers, drivers[d].status = "available", Claimed(d) PROVE Claimed(d)'
  <2>1. CASE t # "driver.assigned"
    <3>1. pos'["driver.assigned"] = pos["driver.assigned"]
      BY <1>1, <2>1 DEF Ack, IInv, TypeOK, Topics
    <3> QED BY <1>1, <1>3, <3>1 DEF Claimed, Handled
  <2>2. CASE t = "driver.assigned"
    <3>1. pos'[t] = pos[t] + 1 /\ pos[t] \in Nat /\ Len(log[t]) \in Nat
      BY <1>1, <2>2 DEF Ack, IInv, TypeOK, LogOK
    <3>2. log[t][pos[t] + 1].driver # d
      <4>1. SUFFICES ASSUME log[t][pos[t] + 1].driver = d PROVE FALSE
        OBVIOUS
      <4>2. d # NoDriver /\ drivers[d].exists
        BY <1>3, EventsAssumption DEF IInv, RowsOK, RowOK
      <4> QED BY <1>3, <2>2, <4>1, <4>2 DEF Ignored, NextMessage
    <3>3. CASE d \in held
      BY <1>1, <3>3 DEF Claimed, Handled
    <3>4. CASE d \notin held
      <4>1. PICK i \in (1 .. Len(log[t])) \ Handled(committed, pos, t) : log[t][i].driver = d
        BY <1>3, <2>2, <3>4 DEF Claimed
      <4>2. i \in (1 .. Len(log[t])) \ Handled(committed, pos', t)
        BY <3>1, <3>2, <4>1 DEF Handled
      <4> QED BY <2>2, <4>1, <4>2 DEF Claimed
    <3> QED BY <3>3, <3>4
  <2> QED BY <2>1, <2>2
<1>4. \A d \in Drivers : Undisturbed(d)
  BY <1>1, <1>3 DEF Undisturbed
<1>5. ASSUME InSerial, ~disturbed PROVE InSerial'
  <2>1. OneAtATime'
    BY <1>1, <1>5 DEF InSerial, OneAtATime
  <2>2. ASSUME NEW d \in Drivers PROVE (AtWork(d) \/ InStep(d))'
    BY <1>4, <1>5, PhaseStays DEF InSerial, AtWork
  <2>3. ASSUME NEW s \in Slots, http'[s].pc # "idle" PROVE RequestPhase(http[s])'
    <3> PICK r : r = http[s]
      OBVIOUS
    <3>1. r.driver \in Drivers /\ RequestPhase(r) /\ http'[s] = r
      BY <1>5, <2>3 DEF InSerial, IInv, HandlersOK, RequestOK
    <3>2. RequestPhase(r)'
      BY <1>4, <3>1, PhaseStays
    <3> QED BY <3>1, <3>2 DEF RequestPhase
  <2> QED BY <1>1, <2>1, <2>2, <2>3 DEF InSerial
<1>6. InSerial => InSerial'
  BY <1>5 DEF InSerial
<1> QED BY <1>2, <1>6 DEF IInv

\* A handler begins with what it has read from the table.
LEMMA HandlerStarts ==
    ASSUME IInv, TypeOK', job.pc = "idle", NEW j, j.pc # "idle", job' = j, Starts,
           UNCHANGED <<tableVars, http, log, pos, committed>>, JobOK(j), j.driver \in Drivers,
           InStep(j.driver) => JobPhase(j)
    PROVE  IInv' /\ (InSerial => InSerial')
<1>1. UNCHANGED <<drivers, pool, held, announced>> /\ disturbed' = (disturbed \/ ~Quiet)
  BY DEF tableVars, Starts
<1>2. RowsOK' /\ \A s \in Slots : RequestOK(http[s])'
  BY <1>1 DEF IInv, RowsOK, RowOK, HandlersOK, RequestOK, PhotoSeen, AssignedSeen
<1>3. JobOK(job)'
  <2>1. SeenStays
    BY <1>1, SameLog
  <2>2. JobOK(j)'
    BY <2>1, JobStays DEF JobOK
  <2> QED BY <2>2 DEF JobOK
<1>4. ASSUME InSerial, ~disturbed' PROVE InSerial'
  <2>1. ~disturbed /\ \A s \in Slots : http[s].pc = "idle"
    BY <1>1, <1>4 DEF Quiet
  <2>2. \A d \in Drivers : InStep(d) /\ InStep(d)'
    <3>1. \A d \in Drivers : InStep(d)
      BY <1>4, <2>1 DEF InSerial, AtWork
    <3>2. \A d \in Drivers : Undisturbed(d)
      BY <1>1 DEF Undisturbed, Claimed, Handled
    <3> QED BY <3>1, <3>2, PhaseStays
  <2>3. JobPhase(j)'
    <3>1. JobPhase(j)
      BY <2>2
    <3>2. Undisturbed(j.driver)
      BY <1>1 DEF Undisturbed, Claimed, Handled
    <3> QED BY <3>1, <3>2, PhaseStays
  <2>4. JobPhase(job)'
    BY <2>3 DEF JobPhase
  <2> QED BY <2>1, <2>2, <2>4 DEF InSerial, OneAtATime
<1>5. InSerial => InSerial'
  BY <1>4 DEF InSerial
<1> QED BY <1>2, <1>3, <1>5 DEF IInv, HandlersOK

LEMMA ConsumeKeeps ==
    ASSUME IInv, TypeOK', NEW t \in DriverTopics, Consume(t)
    PROVE  IInv' /\ (InSerial => InSerial')
<1> PICK m : m = NextMessage(log[t], pos[t])
  OBVIOUS
<1>1. job.pc = "idle" /\ HasNext(log[t], pos[t]) /\ UNCHANGED <<tableVars, http, log, committed>>
  BY DEF Consume
<1>2. CASE Ignored(t, m)
  BY <1>1, <1>2, IgnoredKeeps DEF Consume
<1>3. CASE ~Ignored(t, m)
  <2> PICK j : j = JobFor(t, m)
    OBVIOUS
  <2> PICK d : d = m.driver
    OBVIOUS
  <2>1. job' = j /\ Starts /\ UNCHANGED pos
    BY <1>3 DEF Consume
  <2>2. m \in Messages(log[t]) /\ d \in Drivers /\ drivers[d].exists
    BY <1>1, <1>3, EventTypes DEF Ignored, IInv
  <2>3. CASE t = "user.photo.updated"
    <3>1. m.hasPhoto \in BOOLEAN /\ m \in PhotoEvent /\ j = PhotoJob(d, m.hasPhoto)
      BY <1>1, <1>3, <2>3, EventTypes DEF JobFor, IInv, PhotoEvent
    <3>2. /\ j.pc = "photoWrite" /\ j.topic = "user.photo.updated" /\ j.driver = d
          /\ j.status = "offline" /\ j.loc = drivers[d].loc /\ j.hasPhoto = m.hasPhoto
          /\ j.goOffline = (~m.hasPhoto /\ drivers[d].status = "available")
      BY <3>1 DEF PhotoJob
    <3>3. m.hasPhoto => PhotoSeen(d)
      <4>1. m.hasPhoto => m = [driver |-> d, hasPhoto |-> TRUE]
        BY <3>1 DEF PhotoEvent
      <4> QED BY <2>2, <2>3, <4>1 DEF PhotoSeen
    <3>4. JobOK(j)
      BY <1>1, <2>2, <2>3, <3>2, <3>3 DEF JobOK
    <3>5. InStep(d) => JobPhase(j)
      BY <3>2 DEF InStep, JobPhase
    <3> QED BY <1>1, <2>1, <2>2, <3>2, <3>4, <3>5, HandlerStarts
  <2>4. CASE t # "user.photo.updated"
    <3> PICK status : status = IF t = "driver.assigned" THEN "busy" ELSE StatusAfterRide(d)
      OBVIOUS
    <3>1. j = StatusJob(t, d, status)
      BY <2>4 DEF JobFor, DriverTopics
    <3>2. /\ j.pc = "statusWrite" /\ j.topic = t /\ j.driver = d /\ j.status = status
          /\ j.loc = drivers[d].loc /\ ~j.hasPhoto
      BY <3>1 DEF StatusJob
    <3>3. status = "available" => drivers[d].hasPhoto
      BY DEF StatusAfterRide
    <3>4. t # "driver.assigned" => status \in {"available", "offline"}
      BY DEF StatusAfterRide
    <3>5. t = "driver.assigned" => AssignedSeen(d) /\ PhotoSeen(d)
      <4>1. SUFFICES ASSUME t = "driver.assigned" PROVE AssignedSeen(d) /\ PhotoSeen(d)
        OBVIOUS
      <4>2. m \in AssignedEvent
        BY <1>1, <4>1, EventTypes DEF IInv
      <4>3. m.ride \in Rides /\ m = [ride |-> m.ride, driver |-> d]
        BY <4>2 DEF AssignedEvent
      <4>4. AssignedSeen(d)
        BY <2>2, <4>1, <4>3 DEF AssignedSeen
      <4> QED BY <2>2, <4>4 DEF IInv, RowsOK, RowOK
    <3>6. drivers[d].hasPhoto => PhotoSeen(d)
      BY <2>2 DEF IInv, RowsOK, RowOK
    <3>7. JobOK(j)
      BY <1>1, <2>2, <2>4, <3>2, <3>3, <3>4, <3>5, <3>6 DEF JobOK
    <3>8. InStep(d) => JobPhase(j)
      BY <3>2, <3>3 DEF InStep, JobPhase
    <3> QED BY <1>1, <2>1, <2>2, <3>2, <3>7, <3>8, HandlerStarts
  <2> QED BY <2>3, <2>4
<1> QED BY <1>2, <1>3

\* After a failure nothing is promised any more but what always holds.
LEMMA FailureKeeps ==
    ASSUME IInv, TypeOK', Fault, UNCHANGED <<tableVars, log>>,
           job' = NoJob \/ (job' = job /\ pos' = pos),
           \A s \in Slots : http'[s] = http[s] \/ http'[s] = NoRequest
    PROVE  IInv' /\ (InSerial => InSerial')
<1>1. UNCHANGED <<drivers, pool, held, announced>> /\ disturbed'
  BY DEF tableVars, Fault
<1>2. RowsOK'
  BY <1>1 DEF IInv, RowsOK, RowOK, PhotoSeen, AssignedSeen
<1>3. JobOK(job)'
  BY <1>1, NoJobType DEF IInv, HandlersOK, JobOK, PhotoSeen, AssignedSeen
<1>4. ASSUME NEW s \in Slots PROVE RequestOK(http[s])'
  BY <1>1, NoRequestType DEF IInv, HandlersOK, RequestOK, PhotoSeen
<1>5. InSerial'
  BY <1>1 DEF InSerial
<1> QED BY <1>2, <1>3, <1>4, <1>5 DEF IInv, HandlersOK

LEMMA TroubleKeeps ==
    ASSUME IInv, TypeOK', (\E s \in Slots : RequestFails(s)) \/ HandlerThrows \/ Crash \/ Rejoin
    PROVE  IInv' /\ (InSerial => InSerial')
<1>1. ASSUME NEW s \in Slots, RequestFails(s) PROVE IInv' /\ (InSerial => InSerial')
  <2>1. http'[s] = NoRequest /\ \A t \in Slots \ {s} : http'[t] = http[t]
    BY <1>1, RespondFields DEF RequestFails, IInv, TypeOK
  <2>2. \A t \in Slots : http'[t] = http[t] \/ http'[t] = NoRequest
    BY <2>1
  <2> QED BY <1>1, <2>2, FailureKeeps DEF RequestFails
<1>2. CASE HandlerThrows
  BY <1>2, FailureKeeps DEF HandlerThrows
<1>3. CASE Crash
  BY <1>3, FailureKeeps DEF Crash
<1>4. CASE Rejoin
  <2>1. /\ UNCHANGED <<drivers, pool, held, announced, http, job, log, disturbed>> /\ job.pc = "idle"
        /\ Handled(committed', pos', "driver.assigned") \subseteq Handled(committed, pos, "driver.assigned")
    BY <1>4, ResumeType DEF Rejoin, tableVars, IInv, Topics
  <2>2. RowsOK' /\ HandlersOK'
    BY <2>1 DEF IInv, RowsOK, RowOK, HandlersOK, RequestOK, JobOK, PhotoSeen, AssignedSeen
  <2>3. ASSUME NEW d \in Drivers, Claimed(d) PROVE Claimed(d)'
    <3>1. CASE d \in held
      BY <2>1, <3>1 DEF Claimed
    <3>2. CASE d \notin held
      <4>1. PICK i \in (1 .. Len(log["driver.assigned"])) \ Handled(committed, pos, "driver.assigned") :
                   log["driver.assigned"][i].driver = d
        BY <2>3, <3>2 DEF Claimed
      <4>2. i \in (1 .. Len(log["driver.assigned"])) \ Handled(committed', pos', "driver.assigned")
        BY <2>1, <4>1
      <4>3. log' = log
        BY <2>1
      <4> QED BY <4>1, <4>2, <4>3 DEF Claimed
    <3> QED BY <3>1, <3>2
  <2>4. \A d \in Drivers : Undisturbed(d)
    BY <2>1, <2>3 DEF Undisturbed
  <2>5. InSerial => InSerial'
    BY <2>1, <2>4, SerialStays
  <2> QED BY <2>2, <2>5 DEF IInv
<1> QED BY <1>1, <1>2, <1>3, <1>4

\* A new event at the end of a topic: the one that is handled is still the next.
LEMMA PublishedSeen ==
    ASSUME IInv, NEW t \in Topics, NEW m, log' = Published(log, t, m), pos' = pos, drivers' = drivers,
           \/ t = "user.photo.updated" /\ m \in PhotoEvent
           \/ t = "driver.assigned" /\ m \in AssignedEvent
           \/ t \in {"ride.status.updated", "ride.completed"} /\ m \in RideEvent
    PROVE  /\ SeenStays
           /\ JobOK(job) => JobOK(job)' \/ job' # job
           /\ Messages(log'[t]) = Messages(log[t]) \cup {m}
           /\ Len(log[t]) \in Nat /\ Len(log'[t]) = Len(log[t]) + 1
           /\ \A i \in 1 .. Len(log[t]) : log'[t][i] = log[t][i]
           /\ log'[t][Len(log[t]) + 1] = m
           /\ \A u \in Topics \ {t} : log'[u] = log[u]
<1>1. LogOK(log)
  BY DEF IInv, TypeOK
<1>2. PICK S : log[t] \in Seq(S) /\ m \in S
  BY <1>1 DEF LogOK, Topics
<1>a. log'[t] = Append(log[t], m)
  BY <1>1, PublishedTopics
<1>b. /\ Messages(Append(log[t], m)) = Messages(log[t]) \cup {m}
      /\ Len(Append(log[t], m)) = Len(log[t]) + 1
      /\ \A i \in 1 .. Len(log[t]) : Append(log[t], m)[i] = log[t][i]
      /\ Append(log[t], m)[Len(log[t]) + 1] = m
  BY <1>2, AppendFacts
<1>c. Len(log[t]) \in Nat
  BY <1>2
<1>3. /\ log'[t] = Append(log[t], m) /\ Messages(log'[t]) = Messages(log[t]) \cup {m}
      /\ Len(log[t]) \in Nat /\ Len(log'[t]) = Len(log[t]) + 1
      /\ \A i \in 1 .. Len(log[t]) : log'[t][i] = log[t][i]
      /\ log'[t][Len(log[t]) + 1] = m
  BY <1>a, <1>b, <1>c
<1>4. \A u \in Topics \ {t} : log'[u] = log[u]
  BY <1>1, PublishedTopics
<1>5. \A u \in Topics : Messages(log[u]) \subseteq Messages(log'[u])
  BY <1>3, <1>4
<1>6. SeenStays
  <2>1. "user.photo.updated" \in Topics /\ "driver.assigned" \in Topics
    BY DEF Topics
  <2> QED BY <1>5, <2>1 DEF SeenStays, PhotoSeen, AssignedSeen
<1>7. ASSUME JobOK(job), job' = job PROVE JobOK(job)'
  <2> PICK j : j = job
    OBVIOUS
  <2>1. ASSUME j.pc # "idle"
        PROVE  /\ HasNext(log'[j.topic], pos'[j.topic])
               /\ NextMessage(log'[j.topic], pos'[j.topic]) = NextMessage(log[j.topic], pos[j.topic])
    <3>1. j.topic \in Topics /\ HasNext(log[j.topic], pos[j.topic]) /\ pos[j.topic] \in Nat
      BY <1>7, <2>1 DEF JobOK, DriverTopics, Topics, IInv, TypeOK
    <3>2. CASE j.topic = t
      <4>1. pos[t] + 1 \in 1 .. Len(log[t]) /\ pos[t] < Len(log'[t])
        BY <1>3, <3>1, <3>2 DEF HasNext
      <4> QED BY <1>3, <3>2, <4>1 DEF HasNext, NextMessage
    <3>3. CASE j.topic # t
      BY <1>4, <3>1, <3>3
    <3> QED BY <3>2, <3>3
  <2>2. JobOK(j)'
    BY <1>6, <1>7, <2>1, JobStays
  <2> QED BY <1>7, <2>2 DEF JobOK
<1> QED BY <1>3, <1>4, <1>6, <1>7

\* A photo was confirmed or removed, or a ride has made progress.
LEMMA ReportKeeps ==
    ASSUME IInv, TypeOK', NEW t \in Topics, NEW m, log' = Published(log, t, m),
           \/ t = "user.photo.updated" /\ m \in PhotoEvent
           \/ t \in {"ride.status.updated", "ride.completed"} /\ m \in RideEvent,
           UNCHANGED <<tableVars, http, job, pos, committed, disturbed>>
    PROVE  IInv' /\ (InSerial => InSerial')
<1>1. UNCHANGED <<drivers, pool, held, announced>>
  BY DEF tableVars
<1>2. SeenStays /\ JobOK(job)' /\ \A u \in Topics \ {t} : log'[u] = log[u]
  BY <1>1, PublishedSeen DEF IInv, HandlersOK
<1>3. log'["driver.assigned"] = log["driver.assigned"]
  BY <1>2 DEF Topics
<1>4. RowsOK'
  BY <1>1, <1>2, <1>3 DEF IInv, RowsOK, RowOK, SeenStays, AssignedSeen
<1>5. ASSUME NEW s \in Slots PROVE RequestOK(http[s])'
  BY <1>1, <1>2 DEF IInv, HandlersOK, RequestOK, SeenStays
<1>6. \A d \in Drivers : Undisturbed(d)
  BY <1>1, <1>3 DEF Undisturbed, Claimed, Handled
<1>7. InSerial => InSerial'
  BY <1>6, SerialStays
<1> QED BY <1>2, <1>4, <1>5, <1>7 DEF IInv, HandlersOK

\* matching-service has taken driver d out of the pool, or lost it.
LEMMA ClaimKeeps ==
    ASSUME IInv, TypeOK', NEW d \in Drivers, Claim(d) \/ ClaimLost(d)
    PROVE  IInv' /\ (InSerial => InSerial')
<1>1. /\ UNCHANGED <<drivers, announced, http, job, log, pos, committed>>
      /\ \A e \in Drivers : pool'[e] = pool[e] \/ pool'[e] = NoPlace
      /\ \A e \in held' : e \in held \/ (e = d /\ pool[d] # NoPlace)
  BY DEF Claim, ClaimLost, IInv, TypeOK
<1>2. RowsOK'
  BY <1>1 DEF IInv, RowsOK, RowOK, PhotoSeen, AssignedSeen
<1>3. HandlersOK'
  BY <1>1 DEF IInv, HandlersOK, RequestOK, JobOK, PhotoSeen, AssignedSeen
<1>4. CASE Claim(d)
  <2>1. /\ \A e \in Drivers \ {d} : pool'[e] = pool[e]
        /\ d \in held' /\ held \subseteq held' /\ disturbed' = disturbed
    BY <1>4 DEF Claim, IInv, TypeOK
  <2>2. \A e \in Drivers : Undisturbed(e)
    BY <1>1, <2>1 DEF Undisturbed, Claimed, Handled
  <2>3. InSerial => InSerial'
    BY <1>1, <2>1, <2>2, SerialStays
  <2> QED BY <1>2, <1>3, <2>3 DEF IInv
<1>5. CASE ClaimLost(d)
  BY <1>2, <1>3, <1>5 DEF ClaimLost, InSerial, IInv
<1> QED BY <1>4, <1>5

\* A claim becomes an event; it stays a claim until the event is handled.
LEMMA AssignedKeeps ==
    ASSUME IInv, TypeOK', NEW d \in Drivers, NEW r \in Rides, Assigned(r, d)
    PROVE  IInv' /\ (InSerial => InSerial')
<1> PICK m : m = [ride |-> r, driver |-> d]
  OBVIOUS
<1>1. /\ UNCHANGED <<drivers, pool, announced, http, job, pos, committed, disturbed>>
      /\ d \in held /\ held' = held \ {d} /\ log' = Published(log, "driver.assigned", m)
  BY DEF Assigned
<1>2. m \in AssignedEvent /\ "driver.assigned" \in Topics /\ "user.photo.updated" \in Topics
  BY DEF AssignedEvent, Topics
<1>3. /\ SeenStays /\ JobOK(job)'
      /\ Messages(log'["driver.assigned"]) = Messages(log["driver.assigned"]) \cup {m}
      /\ Len(log["driver.assigned"]) \in Nat
      /\ Len(log'["driver.assigned"]) = Len(log["driver.assigned"]) + 1
      /\ \A i \in 1 .. Len(log["driver.assigned"]) : log'["driver.assigned"][i] = log["driver.assigned"][i]
      /\ log'["driver.assigned"][Len(log["driver.assigned"]) + 1] = m
      /\ \A u \in Topics \ {"driver.assigned"} : log'[u] = log[u]
  BY <1>1, <1>2, PublishedSeen DEF IInv, HandlersOK
<1>4. ASSUME NEW e \in Drivers PROVE RowOK(e)'
  <2>1. AssignedSeen(e)' => AssignedSeen(e) \/ e = d
    BY <1>3 DEF AssignedSeen
  <2>2. RowOK(e) /\ RowOK(d)
    BY DEF IInv, RowsOK
  <2> QED BY <1>1, <1>3, <2>1, <2>2 DEF RowOK, SeenStays
<1>5. ASSUME NEW s \in Slots PROVE RequestOK(http[s])'
  BY <1>1, <1>3 DEF IInv, HandlersOK, RequestOK, SeenStays
<1>6. ASSUME NEW e \in Drivers, Claimed(e) PROVE Claimed(e)'
  <2>1. /\ pos["driver.assigned"] \in Nat /\ pos["driver.assigned"] <= Len(log["driver.assigned"])
        /\ pos'["driver.assigned"] = pos["driver.assigned"]
    BY <1>1, <1>2 DEF IInv, TypeOK
  <2>2. CASE e = d
    <3>1. Len(log["driver.assigned"]) + 1 \in (1 .. Len(log'["driver.assigned"])) \ Handled(committed, pos', "driver.assigned")
      BY <1>3, <2>1 DEF Handled
    <3> QED BY <1>1, <1>3, <2>2, <3>1 DEF Claimed
  <2>3. CASE e # d /\ e \in held
    BY <1>1, <2>3 DEF Claimed, Handled
  <2>4. CASE e \notin held
    <3>1. PICK i \in (1 .. Len(log["driver.assigned"])) \ Handled(committed, pos, "driver.assigned") :
                 log["driver.assigned"][i].driver = e
      BY <1>6, <2>4 DEF Claimed
    <3>2. /\ i \in 1 .. Len(log["driver.assigned"])
          /\ i \in (1 .. Len(log'["driver.assigned"])) \ Handled(committed, pos', "driver.assigned")
      BY <1>3, <2>1, <3>1 DEF Handled
    <3> QED BY <1>1, <1>3, <3>1, <3>2 DEF Claimed
  <2> QED BY <2>2, <2>3, <2>4
<1>7. \A e \in Drivers : Undisturbed(e)
  BY <1>1, <1>6 DEF Undisturbed
<1>8. InSerial => InSerial'
  BY <1>1, <1>7, SerialStays
<1> QED BY <1>3, <1>4, <1>5, <1>8 DEF IInv, RowsOK, HandlersOK

LEMMA EnvironmentKeeps ==
    ASSUME IInv, TypeOK', Environment
    PROVE  IInv' /\ (InSerial => InSerial')
<1>1. ASSUME NEW m \in PhotoEvent, PhotoUpdated(m) PROVE IInv' /\ (InSerial => InSerial')
  BY <1>1, ReportKeeps DEF PhotoUpdated, Topics
<1>2. ASSUME NEW m \in RideEvent, RideReported(m) PROVE IInv' /\ (InSerial => InSerial')
  BY <1>2, ReportKeeps DEF RideReported, RideTopic, Topics
<1> QED BY <1>1, <1>2, ClaimKeeps, AssignedKeeps DEF Environment

-----------------------------------------------------------------------------
(* The theorems.                                                           *)

LEMMA InitInv == Init => IInv /\ InSerial
<1> SUFFICES ASSUME Init PROVE IInv /\ InSerial
  OBVIOUS
<1>1. RowsOK
  <2>1. Messages(log["driver.assigned"]) = {}
    BY DEF Init, EmptyLog, Messages, Topics
  <2> QED BY <2>1 DEF Init, NoProfile, RowsOK, RowOK, AssignedSeen
<1>2. HandlersOK
  BY NoRequestType, NoJobType DEF Init, HandlersOK, RequestOK, JobOK
<1>3. InSerial
  BY NoRequestType, NoJobType
     DEF Init, InSerial, OneAtATime, InStep, PhotoOK, AnnouncedOK, PoolAt, NoProfile
<1> QED BY <1>1, <1>2, <1>3, InitType DEF IInv

\* Every step keeps what always holds, and what holds while the handlers run one
\* by one and nothing fails.
THEOREM StepInv == IInv /\ InSerial /\ [Next]_vars => IInv' /\ InSerial'
<1> SUFFICES ASSUME IInv, InSerial, [Next]_vars PROVE IInv' /\ InSerial'
  OBVIOUS
<1>1. TypeOK'
  BY StepType DEF IInv
<1>2. CASE UNCHANGED vars
  <2>1. UNCHANGED <<drivers, pool, held, announced, http, job, log, pos, committed, disturbed>>
    BY <1>2 DEF vars, tableVars
  <2>2. RowsOK' /\ HandlersOK'
    BY <2>1 DEF IInv, RowsOK, RowOK, HandlersOK, RequestOK, JobOK, PhotoSeen, AssignedSeen
  <2>3. InSerial'
    BY <2>1, SerialStays DEF Undisturbed, Claimed, Handled
  <2> QED BY <1>1, <2>2, <2>3 DEF IInv
<1>3. CASE \E s \in Slots : Requests(s) \/ HttpStep(s)
  BY <1>1, <1>3, RequestsKeep, InsertKeeps, StatusWriteKeeps, StatusRedisKeeps, StatusPublishKeeps,
     LocRedisKeeps, LocWriteKeeps DEF HttpStep
<1>4. CASE ConsumerStep
  BY <1>1, <1>4, ConsumeKeeps, PhotoWriteKeeps, SystemWriteKeeps, SystemRedisKeeps, SystemPublishKeeps
     DEF ConsumerStep
<1> QED BY <1>1, <1>2, <1>3, <1>4, TroubleKeeps, EnvironmentKeeps DEF Next

THEOREM Invariance == Spec => [](IInv /\ InSerial)
  BY InitInv, StepInv, PTL DEF Spec

\* TypeOK: in particular an offset never overtakes its topic, which holds because
\* a handler moves the offset once, past the event it has handled.
THEOREM TypeCorrect == Spec => []TypeOK
<1>1. IInv => TypeOK
  BY DEF IInv
<1> QED BY <1>1, Invariance, PTL

\* NoPhotoNoWork: whatever handlers have read and however late they write, a
\* driver is put to work only on the word of a photo.
THEOREM PhotoFirst == Spec => []NoPhotoNoWork
<1>1. IInv => NoPhotoNoWork
  BY DEF IInv, RowsOK, RowOK, PhotoSeen, NoPhotoNoWork
<1> QED BY <1>1, Invariance, PTL

\* BusyWasAssigned: only matching-service makes a driver busy.
THEOREM BusyAssigned == Spec => []BusyWasAssigned
<1>1. IInv => BusyWasAssigned
  BY DEF IInv, RowsOK, RowOK, AssignedSeen, BusyWasAssigned
<1> QED BY <1>1, Invariance, PTL

\* Between handlers that ran one by one every driver is in step.
LEMMA SerialMeansInStep ==
    ASSUME InSerial, Serial, NEW d \in Drivers
    PROVE  InStep(d)
  BY DEF InSerial, Serial, Quiet, AtWork

\* PoolMatchesStatus: the pool and the table agree between handlers, although
\* each wrote them in two steps, from values that matching-service may have
\* changed meanwhile, and although the group may join anew at any time; a driver
\* whose assignment it jumped over counts as claimed.
THEOREM PoolInStep == Spec => []PoolMatchesStatus
<1>1. InSerial => PoolMatchesStatus
  BY SerialMeansInStep DEF InStep, PoolAt, PoolMatchesStatus
<1> QED BY <1>1, Invariance, PTL

\* OnlineHasPhoto: nobody is online without a photo between handlers.
THEOREM OnlineOnlyWithPhoto == Spec => []OnlineHasPhoto
<1>1. InSerial => OnlineHasPhoto
  BY SerialMeansInStep DEF InStep, PhotoOK, OnlineHasPhoto
<1> QED BY <1>1, Invariance, PTL

\* AnnouncedIsStatus: what the other services were told last is what the table says.
THEOREM AnnouncedInStep == Spec => []AnnouncedIsStatus
<1>1. InSerial => AnnouncedIsStatus
  BY SerialMeansInStep DEF InStep, AnnouncedOK, AnnouncedIsStatus
<1> QED BY <1>1, Invariance, PTL
=============================================================================
