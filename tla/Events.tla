------------------------------- MODULE Events -------------------------------
(***************************************************************************)
(* The topics and events that ride-, matching-, driver- and auth-service   *)
(* exchange.  An event keeps the fields its consumers branch on or store;  *)
(* names, timestamps and coordinates nobody compares are left out.         *)
(***************************************************************************)
EXTENDS Kafka

CONSTANTS
    Rides, Drivers,
    Pickups,    \* positions at which a rider may ask for a ride
    Fares,      \* fares a client may send
    NoDriver,   \* driverId: null, or an event about somebody who is no driver
    NoFare      \* fare: null or absent

ASSUME EventsAssumption == NoDriver \notin Drivers /\ NoFare \notin Fares

Topics == {"user.photo.updated", "ride.requested", "driver.declined",
           "driver.assigned", "ride.status.updated", "ride.completed"}

RideStatus == {"requested", "matched", "in_progress", "completed", "cancelled"}

PhotoEvent == [driver : Drivers \cup {NoDriver}, hasPhoto : BOOLEAN]
RequestEvent == [ride : Rides, pickup : Pickups]
DeclinedEvent == [ride : Rides, pickup : Pickups, declined : Drivers]
AssignedEvent == [ride : Rides, driver : Drivers]
RideEvent == [ride : Rides, driver : Drivers \cup {NoDriver}, status : RideStatus,
              fare : Fares \cup {NoFare}]

\* What each topic carries.
LogOK(log) ==
    /\ DOMAIN log = Topics
    /\ log["user.photo.updated"] \in Seq(PhotoEvent)
    /\ log["ride.requested"] \in Seq(RequestEvent)
    /\ log["driver.declined"] \in Seq(DeclinedEvent)
    /\ log["driver.assigned"] \in Seq(AssignedEvent)
    /\ log["ride.status.updated"] \in Seq(RideEvent)
    /\ log["ride.completed"] \in Seq(RideEvent)

EmptyLog == [t \in Topics |-> << >>]

\* The log after the event m was sent to topic t.
Published(log, t, m) == [log EXCEPT ![t] = Append(@, m)]

\* The bound that keeps runs finite: at most max events in all topics together.
Sent(log) ==
    Len(log["user.photo.updated"]) + Len(log["ride.requested"]) + Len(log["driver.declined"])
        + Len(log["driver.assigned"]) + Len(log["ride.status.updated"]) + Len(log["ride.completed"])

Room(log, max) == Sent(log) < max

\* Ways in which a group may join anew, topic by topic, in those it reads.  (In an
\* empty one there is but one way.)
Rejoins(log, committed, pos, topics) ==
    LET used == {t \in topics : log[t] # << >>}
        ways == [t \in used |-> Rejoined(committed[t], pos[t], Len(log[t]))] IN
    {k \in [used -> UNION {ways[t] : t \in used}] : \A t \in used : k[t] \in ways[t]}

\* Where it stands after it has joined in the way k.
PosAfter(k, pos) == [t \in Topics |-> IF t \in DOMAIN k THEN k[t].pos ELSE pos[t]]
CommittedAfter(k, committed) == [t \in Topics |-> IF t \in DOMAIN k THEN k[t].committed ELSE committed[t]]

\* A group at first.
FirstCommits == [t \in Topics |-> FirstCommit]

\* Events the group has moved past and not jumped over.
Handled(committed, pos, t) == (1 .. pos[t]) \ committed[t].skipped

\* A service that handles a set of topics has read all of them.
Drained(log, pos, topics) == \A t \in topics : pos[t] = Len(log[t])
=============================================================================
