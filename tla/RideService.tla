---------------------------- MODULE RideService ----------------------------
(***************************************************************************)
(* ride-service: the rides table, the clients' requests that create and    *)
(* change rides, and the consumer of driver.assigned.                      *)
(*                                                                         *)
(* requestRide saves, then publishes.  updateStatus reads the ride, writes *)
(* it, and publishes an event built from what it read.  The consumer       *)
(* writes the driver, then publishes.  Nothing makes such a chain atomic:  *)
(* req[s] and assign hold the local variables of the chains in progress.   *)
(***************************************************************************)
EXTENDS Events, FiniteSets

CONSTANTS
    NoRide,       \* no event in progress
    NoPickup,     \* a request that has no pickup
    Clients,      \* requests that may be in progress at the same time
    MaxEvents,    \* bound on the events in all topics
    MaxFaults     \* bound on failing calls and crashes

ASSUME RideAssumption ==
    /\ NoRide \notin Rides
    /\ NoPickup \notin Pickups
    /\ IsFiniteSet(Clients)
    /\ MaxEvents \in Nat /\ MaxFaults \in Nat

VARIABLES
    rides,      \* the table: exists, status, driver, fare
    req,        \* requests in progress
    assign,     \* the driver.assigned event in progress
    log, pos, committed,
    faults

vars == <<rides, req, assign, log, pos, committed, faults>>

Ride == [exists : BOOLEAN, status : RideStatus, driver : Drivers \cup {NoDriver}, fare : Fares \cup {NoFare}]

NoRow == [exists |-> FALSE, status |-> "requested", driver |-> NoDriver, fare |-> NoFare]

\* "status" and "fare" are the request's; "read" is the ride as it was read.
Request == [pc : {"idle", "publishRequested", "write", "publishStatus"},
            ride : Rides \cup {NoRide}, pickup : Pickups \cup {NoPickup},
            status : RideStatus, fare : Fares \cup {NoFare}, read : Ride]

NoRequest == [pc |-> "idle", ride |-> NoRide, pickup |-> NoPickup,
              status |-> "requested", fare |-> NoFare, read |-> NoRow]

Assign == [pc : {"idle", "announce"}, ride : Rides \cup {NoRide}, driver : Drivers \cup {NoDriver}]

NoAssign == [pc |-> "idle", ride |-> NoRide, driver |-> NoDriver]

Init ==
    /\ rides = [r \in Rides |-> NoRow]
    /\ req = [s \in Clients |-> NoRequest]
    /\ assign = NoAssign
    /\ log = EmptyLog
    /\ pos = [t \in Topics |-> 0]
    /\ committed = FirstCommits
    /\ faults = 0

-----------------------------------------------------------------------------
(* Requests.                                                               *)

Respond(s) == req' = [req EXCEPT ![s] = NoRequest]

\* Faulty: the ride is announced and not saved.
requestRideUnsaved(s, r, pickup) ==
    /\ req[s].pc = "idle"
    /\ ~rides[r].exists
    /\ req' = [req EXCEPT ![s] = [NoRequest EXCEPT !.pc = "publishRequested", !.ride = r, !.pickup = pickup]]
    /\ UNCHANGED <<rides, assign, log, pos, committed, faults>>

\* Faulty: the ride is saved and not announced.
requestRideUnannounced(s, r, pickup) ==
    /\ req[s].pc = "idle"
    /\ ~rides[r].exists
    /\ rides' = [rides EXCEPT ![r].exists = TRUE]
    /\ UNCHANGED <<req, assign, log, pos, committed, faults>>

\* requestRide: the new row, with an id of its own ...
requestRide(s, r, pickup) ==
    /\ req[s].pc = "idle"
    /\ ~rides[r].exists
    /\ rides' = [rides EXCEPT ![r].exists = TRUE]
    /\ req' = [req EXCEPT ![s] = [NoRequest EXCEPT !.pc = "publishRequested", !.ride = r, !.pickup = pickup]]
    /\ UNCHANGED <<assign, log, pos, committed, faults>>

\* ... and its announcement.
PublishRequested(s) ==
    /\ req[s].pc = "publishRequested"
    /\ log' = Published(log, "ride.requested", [ride |-> req[s].ride, pickup |-> req[s].pickup])
    /\ Respond(s)
    /\ UNCHANGED <<rides, assign, pos, committed, faults>>

\* updateStatus: any status may follow any other.
updateStatus(s, r, status, fare) ==
    /\ req[s].pc = "idle"
    /\ rides[r].exists
    /\ req' = [req EXCEPT ![s] = [pc |-> "write", ride |-> r, pickup |-> NoPickup,
                                  status |-> status, fare |-> fare, read |-> rides[r]]]
    /\ UNCHANGED <<rides, assign, log, pos, committed, faults>>

\* "dto.fare && ..." writes a fare only if it is truthy; "dto.fare ?? ride.fare"
\* publishes it whenever it is there.
StoredFare(old, fare) == IF fare \in {NoFare, 0} THEN old ELSE fare
PublishedFare(read, fare) == IF fare = NoFare THEN read ELSE fare

\* Faulty: the entity that was read is saved whole.
WriteStatusWhole(s) ==
    /\ req[s].pc = "write"
    /\ rides' = [rides EXCEPT ![req[s].ride] =
                    [req[s].read EXCEPT !.status = req[s].status, !.fare = StoredFare(@, req[s].fare)]]
    /\ req' = [req EXCEPT ![s].pc = "publishStatus"]
    /\ UNCHANGED <<assign, log, pos, committed, faults>>

WriteStatus(s) ==
    /\ req[s].pc = "write"
    /\ LET r == req[s].ride IN
        rides' = [rides EXCEPT ![r].status = req[s].status, ![r].fare = StoredFare(@, req[s].fare)]
    /\ req' = [req EXCEPT ![s].pc = "publishStatus"]
    /\ UNCHANGED <<assign, log, pos, committed, faults>>

TopicOf(status) == IF status = "completed" THEN "ride.completed" ELSE "ride.status.updated"

\* The event carries the driver the ride had when it was read.
PublishStatus(s) ==
    /\ req[s].pc = "publishStatus"
    /\ log' = Published(log, TopicOf(req[s].status),
                 [ride |-> req[s].ride, driver |-> req[s].read.driver, status |-> req[s].status,
                  fare |-> PublishedFare(req[s].read.fare, req[s].fare)])
    /\ Respond(s)
    /\ UNCHANGED <<rides, assign, pos, committed, faults>>

Requests(s) ==
    /\ Room(log, MaxEvents)
    /\ \E r \in Rides :
        \/ \E pickup \in Pickups : requestRide(s, r, pickup)
        \/ \E status \in RideStatus, fare \in Fares \cup {NoFare} : updateStatus(s, r, status, fare)

RequestStep(s) == PublishRequested(s) \/ WriteStatus(s) \/ PublishStatus(s)

-----------------------------------------------------------------------------
(* driver.assigned.                                                        *)

\* handleDriverAssigned writes the driver and "matched" whatever the ride is
\* doing (that the row is there is AssignedExists below) ...
AssignDriver ==
    /\ assign.pc = "idle"
    /\ HasNext(log["driver.assigned"], pos["driver.assigned"])
    /\ LET m == NextMessage(log["driver.assigned"], pos["driver.assigned"]) IN
        /\ rides' = [rides EXCEPT ![m.ride].status = "matched", ![m.ride].driver = m.driver]
        /\ assign' = [pc |-> "announce", ride |-> m.ride, driver |-> m.driver]
    /\ UNCHANGED <<req, log, pos, committed, faults>>

\* ... and reads the ride for the rider's id and publishes.
AnnounceMatch ==
    /\ assign.pc = "announce"
    /\ log' = Published(log, "ride.status.updated",
                 [ride |-> assign.ride, driver |-> assign.driver, status |-> "matched", fare |-> NoFare])
    /\ pos' = [pos EXCEPT !["driver.assigned"] = @ + 1]
    /\ assign' = NoAssign
    /\ UNCHANGED <<rides, req, committed, faults>>

AssignStep == AssignDriver \/ AnnounceMatch

-----------------------------------------------------------------------------
(* What goes wrong.                                                        *)

Fault == faults < MaxFaults /\ faults' = faults + 1

\* A call fails: the client gets a 500, what was written stays.
RequestFails(s) ==
    /\ Fault
    /\ req[s].pc # "idle"
    /\ Respond(s)
    /\ UNCHANGED <<rides, assign, log, pos, committed>>

\* Faulty: the consumer logs the error and goes on.
HandlerSwallows ==
    /\ Fault
    /\ assign.pc # "idle"
    /\ assign' = NoAssign
    /\ pos' = [pos EXCEPT !["driver.assigned"] = @ + 1]
    /\ UNCHANGED <<rides, req, log, committed>>

\* The consumer rethrows: the event is handled again from the start.
HandlerThrows ==
    /\ Fault
    /\ assign.pc # "idle"
    /\ assign' = NoAssign
    /\ UNCHANGED <<rides, req, log, pos, committed>>

\* The topic is read from the group's commit or, if it has none, from the end.
Resume ==
    \E k \in Rejoins(log, committed, pos, {"driver.assigned"}) :
        pos' = PosAfter(k, pos) /\ committed' = CommittedAfter(k, committed)

Crash ==
    /\ Fault
    /\ req' = [s \in Clients |-> NoRequest]
    /\ assign' = NoAssign
    /\ Resume
    /\ UNCHANGED <<rides, log>>

-----------------------------------------------------------------------------
\* matching-service assigns a driver to a ride it has heard of.
DriverAssigned(m) ==
    /\ Room(log, MaxEvents)
    /\ \E n \in Messages(log["ride.requested"]) : n.ride = m.ride
    /\ log' = Published(log, "driver.assigned", m)
    /\ UNCHANGED <<rides, req, assign, pos, committed, faults>>

Next ==
    \/ \E s \in Clients : Requests(s) \/ RequestStep(s) \/ RequestFails(s)
    \/ AssignStep \/ HandlerThrows \/ Crash
    \/ \E m \in AssignedEvent : DriverAssigned(m)

Spec == Init /\ [][Next]_vars

-----------------------------------------------------------------------------
\* Types, and the offsets' order.
TypeOK ==
    /\ rides \in [Rides -> Ride]
    /\ req \in [Clients -> Request]
    /\ assign \in Assign
    /\ LogOK(log)
    /\ pos \in [Topics -> Nat]
    /\ committed \in [Topics -> Commit]
    /\ \A t \in Topics : committed[t].from <= pos[t] + 1 /\ pos[t] <= Len(log[t])
    /\ \A t \in Topics : \A i \in committed[t].skipped : 0 < i /\ i < committed[t].from
    /\ faults \in Nat

\* Only rides that were announced are assigned, and only saved rides are
\* announced: the consumer's getRide never meets a ride that is not there,
\* which it would retry for ever.
AssignedExists ==
    /\ \A m \in Messages(log["driver.assigned"]) : rides[m.ride].exists
    /\ assign.pc = "announce" => rides[assign.ride].exists

\* The i-th assignment has been announced to the rider as a match.
Announced(i) ==
    LET m == log["driver.assigned"][i] IN
    [ride |-> m.ride, driver |-> m.driver, status |-> "matched", fare |-> NoFare]
        \in Messages(log["ride.status.updated"])

\* Each assignment the consumer has moved past has been announced, through
\* failures and crashes, unless a group without an offset jumped over it.
MatchAnnounced == \A i \in Handled(committed, pos, "driver.assigned") : Announced(i)

\* Driver d is the one whom the first n assignments leave with ride r.
LastAssigned(r, n, d) ==
    LET given == log["driver.assigned"] IN
    \/ d = NoDriver /\ \A i \in 1 .. n : given[i].ride # r
    \/ \E i \in 1 .. n : /\ given[i].ride = r /\ given[i].driver = d
                        /\ \A j \in (i + 1) .. n : given[j].ride # r

\* Rides whose assignment the group has jumped over: nobody has told the rider,
\* and the row may have no driver, or an earlier one.
Forgotten == {log["driver.assigned"][i].ride : i \in committed["driver.assigned"].skipped}

\* With all assignments handled, a ride's driver is the last one assigned to
\* it; crashes, retries and clients' updates do not bring an earlier one back.
DriverIsLastAssigned ==
    (assign.pc = "idle" /\ Drained(log, pos, {"driver.assigned"})) =>
        \A r \in Rides \ Forgotten : LastAssigned(r, Len(log["driver.assigned"]), rides[r].driver)

\* Rides that are saved and that nobody has announced or is about to.
Unannounced ==
    {r \in Rides : /\ rides[r].exists
                   /\ \A m \in Messages(log["ride.requested"]) : m.ride # r
                   /\ \A s \in Clients : req[s].pc = "publishRequested" => req[s].ride # r}

\* A saved ride that nobody announces stays "requested" for ever.  Each one is
\* due to a failure between the save and the publish: a failed call costs one
\* ride, a crash those of the requests in progress.
UnannouncedCostFaults == Cardinality(Unannounced) <= faults * Cardinality(Clients)
=============================================================================
