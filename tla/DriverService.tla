--------------------------- MODULE DriverService ---------------------------
(***************************************************************************)
(* driver-service: the drivers table, the Redis GEO pool "drivers:available" *)
(* that matching-service claims drivers from, and the handlers that keep   *)
(* the two in step.                                                        *)
(*                                                                         *)
(* An HTTP request or a Kafka event is handled in steps, one for each      *)
(* await: it reads the driver once, then writes the database, writes Redis *)
(* and publishes, all from the values it read.  Node interleaves the steps *)
(* of concurrent handlers; http[s] and job hold their local variables.     *)
(* Requests that are refused (404, 409, 422) change nothing and are the    *)
(* absence of a step.                                                      *)
(***************************************************************************)
EXTENDS Broker, FiniteSets

CONSTANTS
    Places,       \* positions a driver may report
    NoPlace,      \* lat / lng null, or not a member of the GEO set
    Slots,        \* requests that may be in progress at the same time
    Reported,     \* the ride statuses ride-service reports
    ClaimsFail,   \* whether matching-service may lose a driver it has claimed
    MaxWork,      \* bound on the events in all topics and the requests in progress
    MaxTrouble    \* bound on failing calls, crashes and rejoins together

ASSUME DriverAssumption ==
    /\ NoPlace \notin Places
    /\ Reported \subseteq RideStatus
    /\ ClaimsFail \in BOOLEAN
    /\ MaxWork \in Nat /\ MaxTrouble \in Nat

VARIABLES
    drivers,    \* the table: exists, status, hasPhoto, loc
    pool,       \* the GEO set: where each member is, NoPlace for the others
    held,       \* drivers matching-service has claimed and not yet announced
    announced,  \* the last driver.status.updated event of each driver
    http,       \* requests in progress
    job,        \* the Kafka event in progress
    pos, committed,
    faults, rejoins,
    disturbed   \* history: handlers have overlapped, a call failed or a claim was lost

tableVars == <<drivers, pool, held, announced>>
vars == <<drivers, pool, held, announced, http, job, log, pos, committed, faults, rejoins, disturbed>>

DriverTopics == {"user.photo.updated", "driver.assigned", "ride.completed", "ride.status.updated"}

DriverStatus == {"available", "busy", "offline"}

Driver == [exists : BOOLEAN, status : DriverStatus, hasPhoto : BOOLEAN, loc : Places \cup {NoPlace}]

\* A profile that is not there, and one as createDriver stores it.
NoProfile == [exists |-> FALSE, status |-> "offline", hasPhoto |-> FALSE, loc |-> NoPlace]
NewProfile(loc) == [NoProfile EXCEPT !.exists = TRUE, !.loc = loc]

\* "status" is the new status; "loc" the position that goes to Redis.
Request == [pc : {"idle", "insert", "statusWrite", "statusRedis", "statusPublish", "locRedis", "locWrite"},
            driver : Drivers \cup {NoDriver}, status : DriverStatus, loc : Places \cup {NoPlace}]

NoRequest == [pc |-> "idle", driver |-> NoDriver, status |-> "offline", loc |-> NoPlace]

\* "goOffline": the event removes the photo of a driver who was read as available.
Job == [pc : {"idle", "photoWrite", "statusWrite", "statusRedis", "statusPublish"},
        topic : Topics, driver : Drivers \cup {NoDriver}, status : DriverStatus,
        loc : Places \cup {NoPlace}, hasPhoto : BOOLEAN, goOffline : BOOLEAN]

NoJob == [pc |-> "idle", topic |-> "driver.assigned", driver |-> NoDriver, status |-> "offline",
          loc |-> NoPlace, hasPhoto |-> FALSE, goOffline |-> FALSE]

Init ==
    /\ drivers = [d \in Drivers |-> NoProfile]
    /\ pool = [d \in Drivers |-> NoPlace]
    /\ held = {}
    /\ announced = [d \in Drivers |-> "offline"]
    /\ http = [s \in Slots |-> NoRequest]
    /\ job = NoJob
    /\ log = EmptyLog
    /\ pos = [t \in Topics |-> 0]
    /\ committed = FirstCommits
    /\ faults = 0
    /\ rejoins = 0
    /\ disturbed = FALSE

-----------------------------------------------------------------------------
(* Requests.                                                               *)

Quiet == job.pc = "idle" /\ \A s \in Slots : http[s].pc = "idle"

HasRoom == Sent(log) + Cardinality({s \in Slots : http[s].pc # "idle"}) < MaxWork

Starts == disturbed' = (disturbed \/ ~Quiet)

Accept(s, r) ==
    /\ http[s].pc = "idle"
    /\ HasRoom
    /\ Starts
    /\ http' = [http EXCEPT ![s] = r]
    /\ UNCHANGED <<tableVars, job, log, pos, committed, faults, rejoins>>

Goto(s, pc) == http' = [http EXCEPT ![s].pc = pc]
Respond(s) == http' = [http EXCEPT ![s] = NoRequest]

\* handleDriverStatusChange: GEOADD for an available driver with a position,
\* ZREM for all others.
PoolAfter(d, status, loc) ==
    [pool EXCEPT ![d] = IF status = "available" /\ loc # NoPlace THEN loc ELSE NoPlace]

\* createDriver found no driver with this e-mail.
createDriver(s, d, loc) ==
    /\ ~drivers[d].exists
    /\ Accept(s, [NoRequest EXCEPT !.pc = "insert", !.driver = d, !.loc = loc])

\* The insert; when a concurrent request was faster, the unique index refuses it.
Insert(s) ==
    /\ http[s].pc = "insert"
    /\ LET d == http[s].driver IN
        drivers' = IF drivers[d].exists THEN drivers
                   ELSE [drivers EXCEPT ![d] = NewProfile(http[s].loc)]
    /\ Respond(s)
    /\ UNCHANGED <<pool, held, announced, job, log, pos, committed, faults, rejoins, disturbed>>

\* Faulty: going online does not take a photo.
StatusAllowedNoPhoto(d, status) ==
    /\ drivers[d].exists
    /\ status # "busy"
    /\ drivers[d].status # "busy"

\* Faulty: a driver may set busy by hand.
StatusAllowedBusy(d, status) ==
    /\ drivers[d].exists
    /\ drivers[d].status # "busy"
    /\ status = "available" => drivers[d].hasPhoto

\* The checks of updateStatus: busy can neither be set nor left by hand, and
\* going online takes a photo.
StatusAllowed(d, status) ==
    /\ drivers[d].exists
    /\ status # "busy"
    /\ drivers[d].status # "busy"
    /\ status = "available" => drivers[d].hasPhoto

updateStatus(s, d, status) ==
    /\ StatusAllowed(d, status)
    /\ Accept(s, [pc |-> "statusWrite", driver |-> d, status |-> status, loc |-> drivers[d].loc])

StatusWrite(s) ==
    /\ http[s].pc = "statusWrite"
    /\ drivers' = [drivers EXCEPT ![http[s].driver].status = http[s].status]
    /\ Goto(s, "statusRedis")
    /\ UNCHANGED <<pool, held, announced, job, log, pos, committed, faults, rejoins, disturbed>>

StatusRedis(s) ==
    /\ http[s].pc = "statusRedis"
    /\ pool' = PoolAfter(http[s].driver, http[s].status, http[s].loc)
    /\ Goto(s, "statusPublish")
    /\ UNCHANGED <<drivers, held, announced, job, log, pos, committed, faults, rejoins, disturbed>>

StatusPublish(s) ==
    /\ http[s].pc = "statusPublish"
    /\ announced' = [announced EXCEPT ![http[s].driver] = http[s].status]
    /\ Respond(s)
    /\ UNCHANGED <<drivers, pool, held, job, log, pos, committed, faults, rejoins, disturbed>>

\* Faulty: every ping goes to the pool.
FirstStepOfPingAlways(d) == "locRedis"

\* updateLocation: the pool is touched only if the driver was read as available.
FirstStepOfPing(d) == IF drivers[d].status = "available" THEN "locRedis" ELSE "locWrite"

updateLocation(s, d, loc) ==
    /\ drivers[d].exists
    /\ Accept(s, [NoRequest EXCEPT !.pc = FirstStepOfPing(d), !.driver = d, !.loc = loc])

LocRedis(s) ==
    /\ http[s].pc = "locRedis"
    /\ pool' = [pool EXCEPT ![http[s].driver] = http[s].loc]
    /\ Goto(s, "locWrite")
    /\ UNCHANGED <<drivers, held, announced, job, log, pos, committed, faults, rejoins, disturbed>>

\* The update, and driver.location.updated, which no service consumes.
LocWrite(s) ==
    /\ http[s].pc = "locWrite"
    /\ drivers' = [drivers EXCEPT ![http[s].driver].loc = http[s].loc]
    /\ Respond(s)
    /\ UNCHANGED <<pool, held, announced, job, log, pos, committed, faults, rejoins, disturbed>>

Requests(s) ==
    \/ \E d \in Drivers, loc \in Places \cup {NoPlace} : createDriver(s, d, loc)
    \/ \E d \in Drivers, status \in DriverStatus : updateStatus(s, d, status)
    \/ \E d \in Drivers, loc \in Places : updateLocation(s, d, loc)

HttpStep(s) ==
    \/ Insert(s) \/ StatusWrite(s) \/ StatusRedis(s) \/ StatusPublish(s) \/ LocRedis(s) \/ LocWrite(s)

-----------------------------------------------------------------------------
(* Kafka events.                                                           *)

\* The handler returns, and the offset moves.
Ack(t) == pos' = [pos EXCEPT ![t] = @ + 1] /\ job' = NoJob

\* Faulty: cancellations are ignored with the other status updates.
IgnoredCancellations(t, m) ==
    \/ m.driver = NoDriver
    \/ ~drivers[m.driver].exists
    \/ t = "driver.assigned" /\ drivers[m.driver].status = "busy"
    \/ t = "ride.completed" /\ drivers[m.driver].status # "busy"
    \/ t = "ride.status.updated"

\* The events the handlers return from at once: of riders and unknown drivers,
\* an assignment of a driver who is busy already, the end of a ride of a
\* driver who is not, and status updates other than cancellations.
Ignored(t, m) ==
    \/ m.driver = NoDriver
    \/ ~drivers[m.driver].exists
    \/ t = "driver.assigned" /\ drivers[m.driver].status = "busy"
    \/ t \in {"ride.completed", "ride.status.updated"} /\ drivers[m.driver].status # "busy"
    \/ t = "ride.status.updated" /\ m.status # "cancelled"

\* handleRideFinished: back to the pool, or offline if the photo is gone.
StatusAfterRide(d) == IF drivers[d].hasPhoto THEN "available" ELSE "offline"

\* Faulty: a driver who loses the photo stays online.
PhotoJobFlagOnly(d, flag) ==
    [pc |-> "photoWrite", topic |-> "user.photo.updated", driver |-> d, status |-> "offline",
     loc |-> drivers[d].loc, hasPhoto |-> flag, goOffline |-> FALSE]

\* What handleUserPhotoUpdated, handleDriverAssigned and handleRideFinished do
\* first with an event of driver d they have read.
PhotoJob(d, flag) ==
    [pc |-> "photoWrite", topic |-> "user.photo.updated", driver |-> d, status |-> "offline",
     loc |-> drivers[d].loc, hasPhoto |-> flag,
     goOffline |-> ~flag /\ drivers[d].status = "available"]

StatusJob(t, d, status) ==
    [pc |-> "statusWrite", topic |-> t, driver |-> d, status |-> status,
     loc |-> drivers[d].loc, hasPhoto |-> FALSE, goOffline |-> FALSE]

JobFor(t, m) ==
    CASE t = "user.photo.updated" -> PhotoJob(m.driver, m.hasPhoto)
      [] t = "driver.assigned" -> StatusJob(t, m.driver, "busy")
      [] t \in {"ride.completed", "ride.status.updated"} -> StatusJob(t, m.driver, StatusAfterRide(m.driver))

\* eachMessage: one event at a time, in the order of its topic.
Consume(t) ==
    /\ job.pc = "idle"
    /\ HasNext(log[t], pos[t])
    /\ LET m == NextMessage(log[t], pos[t]) IN
        IF Ignored(t, m) THEN Ack(t) /\ UNCHANGED disturbed
        ELSE job' = JobFor(t, m) /\ Starts /\ UNCHANGED pos
    /\ UNCHANGED <<tableVars, http, log, committed, faults, rejoins>>

\* Faulty: the offset moves before the driver is taken offline, and again after.
PhotoWriteAcksEarly ==
    /\ job.pc = "photoWrite"
    /\ drivers' = [drivers EXCEPT ![job.driver].hasPhoto = job.hasPhoto]
    /\ pos' = [pos EXCEPT ![job.topic] = @ + 1]
    /\ job' = IF job.goOffline THEN [job EXCEPT !.pc = "statusWrite"] ELSE NoJob
    /\ UNCHANGED <<pool, held, announced, http, log, committed, faults, rejoins, disturbed>>

PhotoWrite ==
    /\ job.pc = "photoWrite"
    /\ drivers' = [drivers EXCEPT ![job.driver].hasPhoto = job.hasPhoto]
    /\ IF job.goOffline THEN job' = [job EXCEPT !.pc = "statusWrite"] /\ UNCHANGED pos
                        ELSE Ack(job.topic)
    /\ UNCHANGED <<pool, held, announced, http, log, committed, faults, rejoins, disturbed>>

\* setStatusFromSystem.
SystemWrite ==
    /\ job.pc = "statusWrite"
    /\ drivers' = [drivers EXCEPT ![job.driver].status = job.status]
    /\ job' = [job EXCEPT !.pc = "statusRedis"]
    /\ UNCHANGED <<pool, held, announced, http, log, pos, committed, faults, rejoins, disturbed>>

\* Faulty: the status change is not announced.
SystemRedisLast ==
    /\ job.pc = "statusRedis"
    /\ pool' = PoolAfter(job.driver, job.status, job.loc)
    /\ Ack(job.topic)
    /\ UNCHANGED <<drivers, held, announced, http, log, committed, faults, rejoins, disturbed>>

SystemRedis ==
    /\ job.pc = "statusRedis"
    /\ pool' = PoolAfter(job.driver, job.status, job.loc)
    /\ job' = [job EXCEPT !.pc = "statusPublish"]
    /\ UNCHANGED <<drivers, held, announced, http, log, pos, committed, faults, rejoins, disturbed>>

SystemPublish ==
    /\ job.pc = "statusPublish"
    /\ announced' = [announced EXCEPT ![job.driver] = job.status]
    /\ Ack(job.topic)
    /\ UNCHANGED <<drivers, pool, held, http, log, committed, faults, rejoins, disturbed>>

ConsumerStep ==
    \/ \E t \in DriverTopics : Consume(t)
    \/ PhotoWrite \/ SystemWrite \/ SystemRedis \/ SystemPublish

-----------------------------------------------------------------------------
(* What goes wrong.                                                        *)

TroubleLeft == faults + rejoins < MaxTrouble

Fault == TroubleLeft /\ faults' = faults + 1 /\ disturbed' = TRUE

\* A call fails: the request ends with 500, what it has written stays.
RequestFails(s) ==
    /\ Fault
    /\ http[s].pc # "idle"
    /\ Respond(s)
    /\ UNCHANGED <<tableVars, job, log, pos, committed, rejoins>>

\* Faulty: the consumer logs the error and goes on.
HandlerSwallows ==
    /\ Fault
    /\ job.pc # "idle"
    /\ Ack(job.topic)
    /\ UNCHANGED <<tableVars, http, log, committed, rejoins>>

\* The consumer rethrows: the same event is handled again from the start.
HandlerThrows ==
    /\ Fault
    /\ job.pc # "idle"
    /\ job' = NoJob
    /\ UNCHANGED <<tableVars, http, log, pos, committed, rejoins>>

\* The group reads its topics from its commits, or, where it has none, the end.
Resume ==
    \E k \in Rejoins(log, committed, pos, DriverTopics) :
        pos' = PosAfter(k, pos) /\ committed' = CommittedAfter(k, committed)

Crash ==
    /\ Fault
    /\ http' = [s \in Slots |-> NoRequest]
    /\ job' = NoJob
    /\ Resume
    /\ UNCHANGED <<tableVars, log, rejoins>>

\* The consumer leaves and joins the group between two events (a deployment,
\* a rebalance): nothing fails, but handled events may come again.
Rejoin ==
    /\ TroubleLeft
    /\ rejoins' = rejoins + 1
    /\ job.pc = "idle"
    /\ Resume
    /\ UNCHANGED <<tableVars, http, job, log, faults, disturbed>>

-----------------------------------------------------------------------------
(* The other services, as this one sees them.                              *)

\* auth-service confirms or removes a photo (of a rider, with NoDriver).
PhotoUpdated(m) ==
    /\ HasRoom
    /\ log' = Published(log, "user.photo.updated", m)
    /\ UNCHANGED <<tableVars, http, job, pos, committed, faults, rejoins, disturbed>>

\* matching-service takes a driver out of the pool ...
Claim(d) ==
    /\ pool[d] # NoPlace
    /\ pool' = [pool EXCEPT ![d] = NoPlace]
    /\ held' = held \cup {d}
    /\ UNCHANGED <<drivers, announced, http, job, log, pos, committed, faults, rejoins, disturbed>>

\* ... and says for which ride ...
Assigned(r, d) ==
    /\ d \in held
    /\ HasRoom
    /\ held' = held \ {d}
    /\ log' = Published(log, "driver.assigned", [ride |-> r, driver |-> d])
    /\ UNCHANGED <<drivers, pool, announced, http, job, pos, committed, faults, rejoins, disturbed>>

\* ... or loses the driver: its call of Redis or Kafka failed, or it crashed.
ClaimLost(d) ==
    /\ ClaimsFail
    /\ disturbed' = TRUE
    /\ \/ d \in held /\ held' = held \ {d} /\ UNCHANGED pool
       \/ pool[d] # NoPlace /\ pool' = [pool EXCEPT ![d] = NoPlace] /\ UNCHANGED held
    /\ UNCHANGED <<drivers, announced, http, job, log, pos, committed, faults, rejoins>>

\* The topic and status with which ride-service reports a ride's progress.
RideTopic(status) == IF status = "completed" THEN "ride.completed" ELSE "ride.status.updated"

\* ride-service reports on a ride, with the driver it was given, if any.
RideReported(m) ==
    /\ m.driver # NoDriver => [ride |-> m.ride, driver |-> m.driver] \in Messages(log["driver.assigned"])
    /\ HasRoom
    /\ log' = Published(log, RideTopic(m.status), m)
    /\ UNCHANGED <<tableVars, http, job, pos, committed, faults, rejoins, disturbed>>

\* (Events of riders are ignored whatever they say: those with a photo will do.)
Environment ==
    \/ \E m \in PhotoEvent : (m.driver = NoDriver => m.hasPhoto) /\ PhotoUpdated(m)
    \/ \E d \in Drivers : Claim(d) \/ ClaimLost(d) \/ \E r \in Rides : Assigned(r, d)
    \/ \E m \in RideEvent : m.status \in Reported /\ RideReported(m)

Next ==
    \/ \E s \in Slots : Requests(s) \/ HttpStep(s) \/ RequestFails(s)
    \/ ConsumerStep
    \/ HandlerThrows \/ Crash \/ Rejoin
    \/ Environment

Spec == Init /\ [][Next]_vars

-----------------------------------------------------------------------------
\* Types, and the offsets' order.
TypeOK ==
    /\ drivers \in [Drivers -> Driver]
    /\ pool \in [Drivers -> Places \cup {NoPlace}]
    /\ held \subseteq Drivers
    /\ announced \in [Drivers -> DriverStatus]
    /\ http \in [Slots -> Request]
    /\ job \in Job
    /\ LogOK(log)
    /\ pos \in [Topics -> Nat]
    /\ committed \in [Topics -> Commit]
    /\ \A t \in Topics : committed[t].from <= pos[t] + 1 /\ pos[t] <= Len(log[t])
    /\ \A t \in Topics : \A i \in committed[t].skipped : 0 < i /\ i < committed[t].from
    /\ faults \in Nat
    /\ rejoins \in Nat
    /\ disturbed \in BOOLEAN

\* Somebody who never had a photo never works: such a driver is offline, is
\* not in the pool, and no handler is about to change that, whatever fails
\* and however handlers interleave.  (The photo rule of updateStatus.)
NoPhotoNoWork ==
    \A d \in Drivers :
        (pool[d] # NoPlace \/ drivers[d].status # "offline")
            => [driver |-> d, hasPhoto |-> TRUE] \in Messages(log["user.photo.updated"])

\* Busy belongs to the system: a driver is busy only if matching has assigned
\* them a ride at some time.
BusyWasAssigned ==
    \A d \in Drivers :
        drivers[d].status = "busy" => \E r \in Rides : [ride |-> r, driver |-> d] \in Messages(log["driver.assigned"])

\* A claim that driver-service has not heard of, has not handled yet, or never
\* will, because its group jumped over the assignment.
Claimed(d) ==
    \/ d \in held
    \/ \E i \in (1 .. Len(log["driver.assigned"])) \ Handled(committed, pos, "driver.assigned") :
          log["driver.assigned"][i].driver = d

\* What the handlers were written for: they have run one by one, and nothing has
\* failed.  Events may still be delivered again.
Serial == Quiet /\ ~disturbed

\* Between handlers that ran one by one the pool and the table agree: exactly
\* the available drivers with a position are in the pool, at that position,
\* except those whom matching has claimed without driver-service's knowing.
PoolMatchesStatus ==
    Serial => \A d \in Drivers :
        /\ pool[d] # NoPlace => drivers[d].status = "available" /\ pool[d] = drivers[d].loc
        /\ drivers[d].status = "available" /\ drivers[d].loc # NoPlace /\ ~Claimed(d) => pool[d] # NoPlace

\* ... nobody is online without a photo, although photos come and go while a
\* driver is on a ride ...
OnlineHasPhoto ==
    Serial => \A d \in Drivers : drivers[d].status = "available" => drivers[d].hasPhoto

\* ... and the last status announced on driver.status.updated is the status in
\* the table.
AnnouncedIsStatus ==
    Serial => \A d \in Drivers : announced[d] = drivers[d].status
=============================================================================
