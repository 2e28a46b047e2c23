-------------------------- MODULE MatchingService --------------------------
(***************************************************************************)
(* matching-service: for every ride.requested event, claim the nearest     *)
(* driver of the Redis pool and publish driver.assigned.  The service has  *)
(* no database: what it knows is in the pool, in Kafka, and in the local   *)
(* variables of the handler, match[w].                                     *)
(*                                                                         *)
(* The claim is one Lua script, hence one step; publishing is the next.    *)
(* handleRideRequested catches every error and returns, so a failed call   *)
(* moves the offset like a successful one.                                 *)
(***************************************************************************)
EXTENDS Events, FiniteSets

CONSTANTS
    Places, NoPlace,   \* positions of drivers, as in DriverService
    Distance,          \* distance of a pickup and a place
    Radius,            \* searchRadiusKm
    Matchers,          \* instances of matching-service
    NoRide, NoPickup,  \* no event in progress
    MaxEvents,         \* bound on the events in all topics
    MaxJoins,          \* bound on how often each driver enters the pool
    MaxFaults          \* bound on failing calls, crashes and rebalances

ASSUME MatchingAssumption ==
    /\ NoPlace \notin Places
    /\ NoRide \notin Rides /\ NoPickup \notin Pickups
    /\ Distance \in [Pickups \X Places -> Nat]
    /\ Radius \in Nat
    /\ IsFiniteSet(Matchers)
    /\ MaxEvents \in Nat /\ MaxJoins \in Nat /\ MaxFaults \in Nat

VARIABLES
    pool,        \* the GEO set, as in DriverService
    joined,      \* how often a driver has entered the pool
    match,       \* the event each instance works on
    unmatched,   \* rides counted by matchingFailedTotal
    failed,      \* rides logged as "Failed to match ride with driver"
    owner,       \* the instance that reads each topic
    log, pos, committed,
    faults

vars == <<pool, joined, match, unmatched, failed, owner, log, pos, committed, faults>>

MatchingTopics == {"ride.requested", "driver.declined"}

Match == [pc : {"idle", "claim", "publish"}, topic : MatchingTopics, ride : Rides \cup {NoRide},
          pickup : Pickups \cup {NoPickup}, driver : Drivers \cup {NoDriver}]

NoMatch == [pc |-> "idle", topic |-> "ride.requested", ride |-> NoRide, pickup |-> NoPickup,
            driver |-> NoDriver]

Init ==
    /\ pool = [d \in Drivers |-> NoPlace]
    /\ joined = [d \in Drivers |-> 0]
    /\ match = [w \in Matchers |-> NoMatch]
    /\ unmatched = {}
    /\ failed = {}
    /\ owner \in [MatchingTopics -> Matchers]
    /\ log = EmptyLog
    /\ pos = [t \in Topics |-> 0]
    /\ committed = FirstCommits
    /\ faults = 0

-----------------------------------------------------------------------------
(* The handler of ride.requested, which that of driver.declined calls with *)
(* the ride and the pickup alone.                                          *)

\* Faulty: the offset moves when the event arrives.
ReceiveAndAck(w, t) ==
    /\ match[w].pc = "idle"
    /\ owner[t] = w
    /\ HasNext(log[t], pos[t])
    /\ LET m == NextMessage(log[t], pos[t]) IN
        match' = [match EXCEPT ![w] = [pc |-> "claim", topic |-> t, ride |-> m.ride,
                                       pickup |-> m.pickup, driver |-> NoDriver]]
    /\ pos' = [pos EXCEPT ![t] = @ + 1]
    /\ UNCHANGED <<pool, joined, unmatched, failed, owner, log, committed, faults>>

Receive(w, t) ==
    /\ match[w].pc = "idle"
    /\ owner[t] = w
    /\ HasNext(log[t], pos[t])
    /\ LET m == NextMessage(log[t], pos[t]) IN
        match' = [match EXCEPT ![w] = [pc |-> "claim", topic |-> t, ride |-> m.ride,
                                       pickup |-> m.pickup, driver |-> NoDriver]]
    /\ UNCHANGED <<pool, joined, unmatched, failed, owner, log, pos, committed, faults>>

\* Faulty: an instance moves the offset of a topic it has lost.
ReturnsUnfenced(w) ==
    /\ match' = [match EXCEPT ![w] = NoMatch]
    /\ pos' = [pos EXCEPT ![match[w].topic] = @ + 1]

\* Faulty: the offset never moves.
ReturnsInPlace(w) ==
    /\ match' = [match EXCEPT ![w] = NoMatch]
    /\ UNCHANGED pos

\* The handler returns; the offset moves if the topic is still read by w.
Returns(w) ==
    /\ match' = [match EXCEPT ![w] = NoMatch]
    /\ LET t == match[w].topic IN
        pos' = IF owner[t] = w THEN [pos EXCEPT ![t] = @ + 1] ELSE pos

\* GEOSEARCH BYRADIUS ... ASC COUNT 1: the nearest members in range.
InRange(pickup) == {d \in Drivers : pool[d] # NoPlace /\ Distance[pickup, pool[d]] <= Radius}

Nearest(pickup) ==
    {d \in InRange(pickup) : \A e \in InRange(pickup) : Distance[pickup, pool[d]] <= Distance[pickup, pool[e]]}

\* Faulty: the search leaves the driver in the pool.
NotRemoved(d) == UNCHANGED pool

\* ... and ZREM of the one that was found.
Removed(d) == pool' = [pool EXCEPT ![d] = NoPlace]

Claim(w) ==
    /\ match[w].pc = "claim"
    /\ \E d \in Nearest(match[w].pickup) :
        /\ Removed(d)
        /\ match' = [match EXCEPT ![w].pc = "publish", ![w].driver = d]
    /\ UNCHANGED <<joined, unmatched, failed, owner, log, pos, committed, faults>>

\* Faulty: a request without a driver in range is retried.
NobodyInRangeRetried(w) ==
    /\ match[w].pc = "claim"
    /\ InRange(match[w].pickup) = {}
    /\ match' = [match EXCEPT ![w] = NoMatch]
    /\ UNCHANGED <<pool, joined, unmatched, failed, owner, log, pos, committed, faults>>

\* Nobody in range: counted, and the request is done with.
NobodyInRange(w) ==
    /\ match[w].pc = "claim"
    /\ InRange(match[w].pickup) = {}
    /\ unmatched' = unmatched \cup {match[w].ride}
    /\ Returns(w)
    /\ UNCHANGED <<pool, joined, failed, owner, log, committed, faults>>

\* Faulty: the assignment goes to the wrong topic.
PublishAssignedAsStatus(w) ==
    /\ match[w].pc = "publish"
    /\ log' = Published(log, "ride.status.updated",
                 [ride |-> match[w].ride, driver |-> match[w].driver, status |-> "matched", fare |-> NoFare])
    /\ Returns(w)
    /\ UNCHANGED <<pool, joined, unmatched, failed, owner, committed, faults>>

PublishAssigned(w) ==
    /\ match[w].pc = "publish"
    /\ log' = Published(log, "driver.assigned", [ride |-> match[w].ride, driver |-> match[w].driver])
    /\ Returns(w)
    /\ UNCHANGED <<pool, joined, unmatched, failed, owner, committed, faults>>

MatcherStep(w) ==
    \/ \E t \in MatchingTopics : Receive(w, t)
    \/ Claim(w) \/ NobodyInRange(w) \/ PublishAssigned(w)

-----------------------------------------------------------------------------
(* What goes wrong.                                                        *)

Fault == faults < MaxFaults /\ faults' = faults + 1

\* Redis fails, or loses its answer after the script has run; or Kafka fails.
\* The error is logged and the handler returns.
CallFails(w) ==
    /\ Fault
    /\ \/ match[w].pc \in {"claim", "publish"} /\ UNCHANGED pool
       \/ match[w].pc = "claim" /\ \E d \in Nearest(match[w].pickup) : Removed(d)
    /\ failed' = failed \cup {match[w].ride}
    /\ Returns(w)
    /\ UNCHANGED <<joined, unmatched, owner, log, committed>>

\* Topics are read anew, from their commits or, where there is none, the end.
Resume(topics) ==
    \E k \in Rejoins(log, committed, pos, topics) :
        pos' = PosAfter(k, pos) /\ committed' = CommittedAfter(k, committed)

Crash(w) ==
    /\ Fault
    /\ match' = [match EXCEPT ![w] = NoMatch]
    /\ Resume({t \in MatchingTopics : owner[t] = w})
    /\ UNCHANGED <<pool, joined, unmatched, failed, owner, log>>

\* A topic moves to an instance that is free; its old owner may be at work.
Rebalance(w, t) ==
    /\ Fault
    /\ owner[t] # w
    /\ match[w].pc = "idle"
    /\ owner' = [owner EXCEPT ![t] = w]
    /\ Resume({t})
    /\ UNCHANGED <<pool, joined, match, unmatched, failed, log>>

Trouble(w) ==
    \/ CallFails(w) \/ Crash(w)
    \/ \E t \in MatchingTopics : Rebalance(w, t)

-----------------------------------------------------------------------------
(* The other services, as this one sees them.                              *)

\* ride-service announces a ride, once.
RideRequested(m) ==
    /\ Room(log, MaxEvents)
    /\ \A n \in Messages(log["ride.requested"]) : n.ride # m.ride
    /\ log' = Published(log, "ride.requested", m)
    /\ UNCHANGED <<pool, joined, match, unmatched, failed, owner, pos, committed, faults>>

\* A driver declines a ride.  The event is consumed here but no service
\* produces it yet; this is the payload its handler expects.
DriverDeclined(m) ==
    /\ Room(log, MaxEvents)
    /\ [ride |-> m.ride, driver |-> m.declined] \in Messages(log["driver.assigned"])
    /\ [ride |-> m.ride, pickup |-> m.pickup] \in Messages(log["ride.requested"])
    /\ log' = Published(log, "driver.declined", m)
    /\ UNCHANGED <<pool, joined, match, unmatched, failed, owner, pos, committed, faults>>

\* driver-service adds a driver to the pool or moves one that is there.
Geoadd(d, p) ==
    /\ pool[d] # p
    /\ pool[d] = NoPlace => joined[d] < MaxJoins
    /\ pool' = [pool EXCEPT ![d] = p]
    /\ joined' = [joined EXCEPT ![d] = IF pool[d] = NoPlace THEN @ + 1 ELSE @]
    /\ UNCHANGED <<match, unmatched, failed, owner, log, pos, committed, faults>>

\* ... or takes one out.
Zrem(d) ==
    /\ pool[d] # NoPlace
    /\ pool' = [pool EXCEPT ![d] = NoPlace]
    /\ UNCHANGED <<joined, match, unmatched, failed, owner, log, pos, committed, faults>>

Environment ==
    \/ \E m \in RequestEvent : RideRequested(m)
    \/ \E m \in DeclinedEvent : DriverDeclined(m)
    \/ \E d \in Drivers : Zrem(d) \/ \E p \in Places : Geoadd(d, p)

Next ==
    \/ \E w \in Matchers : MatcherStep(w) \/ Trouble(w)
    \/ Environment

Spec == Init /\ [][Next]_vars

-----------------------------------------------------------------------------
\* Types, and the offsets' order.
TypeOK ==
    /\ pool \in [Drivers -> Places \cup {NoPlace}]
    /\ joined \in [Drivers -> Nat]
    /\ match \in [Matchers -> Match]
    /\ unmatched \subseteq Rides
    /\ failed \subseteq Rides
    /\ owner \in [MatchingTopics -> Matchers]
    /\ LogOK(log)
    /\ pos \in [Topics -> Nat]
    /\ committed \in [Topics -> Commit]
    /\ \A t \in MatchingTopics : committed[t].from <= pos[t] + 1 /\ pos[t] <= Len(log[t])
    /\ \A t \in MatchingTopics : \A i \in committed[t].skipped : 0 < i /\ i < committed[t].from
    /\ faults \in Nat

\* The driver.assigned events that give a ride to driver d, and those of ride r.
AssignedTo(d) == {i \in 1 .. Len(log["driver.assigned"]) : log["driver.assigned"][i].driver = d}
AssignedFor(r) == {i \in 1 .. Len(log["driver.assigned"]) : log["driver.assigned"][i].ride = r}

\* Instances that have claimed driver d and have yet to say so.
Holding(d) == {w \in Matchers : match[w].pc = "publish" /\ match[w].driver = d}

\* "Two rides (or two matching instances) can never claim the same driver":
\* each time a driver enters the pool, at most one claim takes them out,
\* through redeliveries, crashes and instances that lost their topic.
NoDoubleClaim ==
    \A d \in Drivers :
        Cardinality(AssignedTo(d)) + Cardinality(Holding(d)) + (IF pool[d] = NoPlace THEN 0 ELSE 1) <= joined[d]

\* Events that ask for a driver for ride r.
RequestsFor(r) ==
    Cardinality({i \in 1 .. Len(log["ride.requested"]) : log["ride.requested"][i].ride = r})
        + Cardinality({i \in 1 .. Len(log["driver.declined"]) : log["driver.declined"][i].ride = r})

\* A ride gets a second driver only when asked again, or after a failure that
\* made Kafka deliver its requests once more.
ExtraDriversCostFaults ==
    \A r \in Rides : Cardinality(AssignedFor(r)) <= RequestsFor(r) * (1 + faults)

\* The request was answered: a driver was assigned, or the ride was counted as
\* unmatched.
Answered(r) == AssignedFor(r) # {} \/ r \in unmatched

\* A request the group has moved past was answered, or its failure was at least
\* logged.  Crashes and rebalances lose none, but those that a group without an
\* offset jumps over.
RequestsAccountedFor ==
    \A i \in Handled(committed, pos, "ride.requested") :
        LET r == log["ride.requested"][i].ride IN Answered(r) \/ r \in failed
=============================================================================
