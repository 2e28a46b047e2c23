------------------------------ MODULE RideFlow ------------------------------
(***************************************************************************)
(* ride-, matching- and driver-service together: a ride from its request   *)
(* to its end.  The three share Kafka (log) and the Redis pool, and        *)
(* nothing else; each has its own offsets.  An action is an action of one  *)
(* of the services: those of ride-service, which this module extends, and  *)
(* of the instances M and D.  The environment actions of the component     *)
(* modules are replaced by the services they stood for, and DriverSteps    *)
(* and RideSteps say that this keeps to what the modules assume.           *)
(*                                                                         *)
(* It starts with every driver registered, with a photo, and online; the   *)
(* photo events that led there are handled and committed, and left out.    *)
(* There is one client per ride, and one instance of each service, as      *)
(* docker-compose starts them.                                             *)
(***************************************************************************)
EXTENDS RideService

CONSTANTS
    Places, NoPlace, Home,  \* positions; where the drivers are at first
    Slots,                  \* requests to driver-service at the same time
    Matcher,                \* the instance of matching-service
    Updates,                \* the ride statuses clients set
    Patient,                \* clients wait for the driver, as the load test does
    Pings,                  \* drivers report their position
    MatchingFaults,         \* bound on faults of matching-service,
    MaxTrouble              \* and on those of all services

ASSUME FlowAssumption ==
    /\ Clients = Rides
    /\ Home \in Places /\ NoPlace \notin Places /\ Updates \subseteq RideStatus
    /\ Patient \in BOOLEAN /\ Pings \in BOOLEAN
    /\ MatchingFaults \in Nat /\ MaxTrouble \in Nat

VARIABLES
    pool,
    drivers, announced, dreq, djob, dpos, dcommitted, dfaults, rejoins, disturbed,
    match, unmatched, failed, owner, mpos, mcommitted, mfaults

driverVars == <<drivers, announced, dreq, djob, dpos, dcommitted, dfaults, rejoins, disturbed>>
matchingVars == <<match, unmatched, failed, owner, mpos, mcommitted, mfaults>>
rideVars == <<rides, req, assign, pos, committed, faults>>
flowVars == <<log, pool, driverVars, matchingVars, rideVars>>

\* What driver-service's module calls the claimed drivers is in the local
\* variables of matching-service.
Held == IF match[Matcher].pc = "publish" THEN {match[Matcher].driver} ELSE {}

Only(topics) == [t \in Topics |-> IF t \in topics THEN log[t] ELSE << >>]

D == INSTANCE DriverService WITH
        held <- Held, http <- dreq, job <- djob, pos <- dpos, committed <- dcommitted, faults <- dfaults,
        ClaimsFail <- TRUE, Reported <- RideStatus, MaxWork <- MaxEvents

M == INSTANCE MatchingService WITH
        joined <- [d \in Drivers |-> 0], pos <- mpos, committed <- mcommitted, faults <- mfaults,
        Distance <- [x \in Pickups \X Places |-> 0], Radius <- 0,
        Matchers <- {Matcher},
        MaxJoins <- MaxEvents, MaxFaults <- MatchingFaults

-----------------------------------------------------------------------------
Offsets == [t \in Topics |-> 0]

FlowInit ==
    /\ Init
    /\ pool = [d \in Drivers |-> Home]
    /\ drivers = [d \in Drivers |-> [exists |-> TRUE, status |-> "available", hasPhoto |-> TRUE, loc |-> Home]]
    /\ announced = [d \in Drivers |-> "available"]
    /\ dreq = [s \in Slots |-> D!NoRequest] /\ djob = D!NoJob
    /\ dpos = Offsets /\ dcommitted = FirstCommits /\ dfaults = 0 /\ rejoins = 0
    /\ disturbed = TRUE  \* not a history from the beginning
    /\ match = [w \in {Matcher} |-> M!NoMatch] /\ unmatched = {} /\ failed = {}
    /\ owner = [t \in M!MatchingTopics |-> Matcher]
    /\ mpos = Offsets /\ mcommitted = FirstCommits /\ mfaults = 0

-----------------------------------------------------------------------------
(* The services.                                                           *)

DriverDoes(A) == UNCHANGED <<matchingVars, rideVars>> /\ A
MatchingDoes(A) == UNCHANGED <<driverVars, rideVars>> /\ A
RideDoes(A) == UNCHANGED <<pool, driverVars, matchingVars>> /\ A

Ping(s) == DriverDoes(Pings /\ \E d \in Drivers, loc \in Places : D!updateLocation(s, d, loc))
DriverRequestStep(s) == DriverDoes(D!HttpStep(s))
DriverConsumes == DriverDoes(D!ConsumerStep)
TroubleAllowed == dfaults + faults + mfaults + rejoins < MaxTrouble

DriverTrouble ==
    TroubleAllowed /\ DriverDoes(D!HandlerThrows \/ D!Crash \/ D!Rejoin \/ \E s \in Slots : D!RequestFails(s))

MatcherWorks == MatchingDoes(M!MatcherStep(Matcher))
MatcherTrouble ==
    TroubleAllowed /\ MatchingDoes(M!CallFails(Matcher) \/ M!Crash(Matcher))

RideRequestStep(r) == RideDoes(RequestStep(r))
RideConsumes == RideDoes(AssignStep)
RideTrouble ==
    TroubleAllowed /\ RideDoes(HandlerThrows \/ Crash \/ \E r \in Rides : RequestFails(r))

-----------------------------------------------------------------------------
(* The clients.                                                            *)

Open(r) == rides[r].exists /\ rides[r].status \notin {"completed", "cancelled"}

\* The load test goes on only after it has seen the ride matched and its
\* driver busy; any other client may cancel or complete when it likes.
MayUpdate(r) ==
    /\ Open(r)
    /\ Patient => /\ rides[r].driver # NoDriver
                  /\ drivers[rides[r].driver].status = "busy"

ClientRequests(r) == RideDoes(\E pickup \in Pickups : requestRide(r, r, pickup))

ClientUpdates(r) ==
    /\ MayUpdate(r)
    /\ RideDoes(\E status \in Updates :
                    status # rides[r].status /\ updateStatus(r, r, status, NoFare))

FlowNext ==
    \/ \E s \in Slots : Ping(s) \/ DriverRequestStep(s)
    \/ DriverConsumes \/ DriverTrouble
    \/ MatcherWorks \/ MatcherTrouble
    \/ \E r \in Rides : ClientRequests(r) \/ ClientUpdates(r) \/ RideRequestStep(r)
    \/ RideConsumes \/ RideTrouble

FlowSpec == FlowInit /\ [][FlowNext]_flowVars

\* Consumers keep polling and started requests go on; clients and faults are free.
Fairness ==
    /\ \A s \in Slots : WF_flowVars(DriverRequestStep(s))
    /\ WF_flowVars(DriverConsumes) /\ WF_flowVars(MatcherWorks) /\ WF_flowVars(RideConsumes)
    /\ \A r \in Rides : WF_flowVars(RideRequestStep(r))

FairFlow == FlowSpec /\ Fairness

-----------------------------------------------------------------------------
\* All events handled, nothing in progress.
Settled ==
    /\ djob.pc = "idle" /\ (\A s \in Slots : dreq[s].pc = "idle")
    /\ match[Matcher].pc = "idle" /\ assign.pc = "idle" /\ (\A r \in Rides : req[r].pc = "idle")
    /\ Drained(log, dpos, D!DriverTopics) /\ Drained(log, mpos, M!MatchingTopics)
    /\ Drained(log, pos, {"driver.assigned"})

RidesOf(d) == {r \in Rides : Open(r) /\ rides[r].driver = d}

\* "BUSY --> AVAILABLE: ride.completed or cancelled": with everything handled, a
\* busy driver has a ride to end; without one nothing would ever free them.
BusyHasOpenRide ==
    Settled => \A d \in Drivers : drivers[d].status = "busy" => RidesOf(d) # {}

\* "A driver on a ride never gets another request."
OneOpenRidePerDriver == \A d \in Drivers : \A r1, r2 \in RidesOf(d) : r1 = r2

\* The end of a ride frees its driver, unless the next ride has taken them
\* by then.
EndOfRideFreesDriver ==
    \A r \in Rides, d \in Drivers :
        (\E t \in {"ride.completed", "ride.status.updated"} : \E m \in Messages(log[t]) :
            m.ride = r /\ m.driver = d /\ m.status \in {"completed", "cancelled"})
        ~> (drivers[d].status # "busy" \/ RidesOf(d) # {})

\* Rides whose request matching-service's group has jumped over.
Overlooked == {log["ride.requested"][i].ride : i \in mcommitted["ride.requested"].skipped}

\* A ride that was announced is matched, counted as unmatched or logged as a
\* failure in the end, whatever its client does and whichever service fails or
\* crashes on the way: a request is lost without a trace only by a group that
\* has no offset yet and restarts, and it is never stuck.
AnnouncedRideIsAnswered ==
    \A r \in Rides :
        (\E m \in Messages(log["ride.requested"]) : m.ride = r)
            ~> (rides[r].driver # NoDriver \/ r \in unmatched \cup failed \cup Overlooked \cup Forgotten)

-----------------------------------------------------------------------------
(* The composition keeps to what the component modules assume of their      *)
(* environments.                                                           *)

DView == INSTANCE DriverService WITH
            log <- Only(D!DriverTopics),
            held <- Held, http <- dreq, job <- djob, pos <- dpos, committed <- dcommitted, faults <- dfaults,
            ClaimsFail <- TRUE, Reported <- RideStatus, MaxWork <- MaxEvents

\* Every step is one of driver-service's module: in particular matching takes
\* drivers out of the pool before it announces them, and a ride event names
\* only a driver who was assigned to that ride.
DriverSteps == [][DView!Next]_(DView!vars)

\* Every step is one that ride-service's module has by itself: in particular
\* drivers are assigned only to rides that were announced.
RideSteps == [][Next]_vars
=============================================================================
