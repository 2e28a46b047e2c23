------------------------ MODULE NotificationService ------------------------
(***************************************************************************)
(* notification-service: instances that share one Kafka group and, through *)
(* the Redis adapter of Socket.io, the rooms of their sockets.             *)
(*                                                                         *)
(* An instance that handles an event emits it to the rooms of the people   *)
(* it concerns: at once to its own sockets, through Redis to those of the  *)
(* other instances.  A handler has no await between reading its event and  *)
(* its last emit, so it is one step.  Pushes are best effort: what cannot  *)
(* be handled is counted and skipped.                                      *)
(***************************************************************************)
EXTENDS Kafka, FiniteSets, FiniteSetsExt

CONSTANTS
    Servers, Clients,
    Ids,         \* users' and drivers' ids
    IdOf,        \* the userId each client connects with: a rider's, a driver's or none
    NoId,        \* undefined, or null
    Nowhere,
    UsedTopics,  \* the topics that carry something in this instance
    EventSet,    \* what they carry: riderId, driverId, and whether it can be read
    MaxEvents,
    MaxTrouble   \* bound on crashes, rebalances and losses of Redis

\* NotificationTopics are those of onModuleInit.
NotificationTopics ==
    {"driver.assigned", "ride.status.updated", "ride.completed", "payment.completed", "payment.failed"}

ASSUME NotificationAssumption ==
    /\ IsFiniteSet(Clients)
    /\ Nowhere \notin Servers /\ NoId \notin Ids
    /\ IdOf \in [Clients -> Ids \cup {NoId}]
    /\ UsedTopics \subseteq NotificationTopics
    /\ EventSet \subseteq [rider : Ids \cup {NoId}, driver : Ids \cup {NoId}, junk : BOOLEAN]
    /\ MaxEvents \in Nat /\ MaxTrouble \in Nat

VARIABLES
    log, pos, committed,  \* of each topic
    owner,      \* the instance that has the partition of a topic
    socket,     \* the connection of each client
    bus,        \* what Redis has still to bring to each instance
    gauge,      \* socket_connections_active of each instance
    lost,       \* history: pushes that did not reach an instance,
    moves,      \* crashes and rebalances,
    drops       \* losses of Redis

kafkaVars == <<log, pos, committed, owner>>
vars == <<kafkaVars, socket, bus, gauge, lost, moves, drops>>

\* An event is pushed to two people; the names of the two pushes differ, or what
\* they say.
Parties == {"rider", "driver"}

Push == [to : Ids, as : Parties, topic : UsedTopics, index : Nat]

\* "refused": disconnect() was called, the event of it is still to come.  "got"
\* is what the client has received, "since" where the topics ended when it
\* connected.
Socket == [pc : {"closed", "open", "refused"}, at : Servers \cup {Nowhere}, got : Seq(Push),
           since : [UsedTopics -> Nat]]

Closed == [pc |-> "closed", at |-> Nowhere, got |-> << >>, since |-> [t \in UsedTopics |-> 0]]

Init ==
    /\ log = [t \in UsedTopics |-> << >>]
    /\ pos = [t \in UsedTopics |-> 0]
    /\ committed = [t \in UsedTopics |-> FirstCommit]
    /\ owner \in [UsedTopics -> Servers]
    /\ socket = [c \in Clients |-> Closed]
    /\ bus = [n \in Servers |-> << >>]
    /\ gauge = [n \in Servers |-> 0]
    /\ lost = {}
    /\ moves = 0 /\ drops = 0

history == <<lost, moves, drops>>

-----------------------------------------------------------------------------
(* The sockets.                                                            *)

\* handleConnection: the client joins the room of its userId, or is thrown out.
handleConnection(c, n) ==
    /\ socket[c].pc = "closed"
    /\ LET s == [Closed EXCEPT !.at = n, !.since = [t \in UsedTopics |-> Len(log[t])]] IN
        IF IdOf[c] = NoId
        THEN socket' = [socket EXCEPT ![c] = [s EXCEPT !.pc = "refused"]] /\ UNCHANGED gauge
        ELSE /\ socket' = [socket EXCEPT ![c] = [s EXCEPT !.pc = "open"]]
             /\ gauge' = [gauge EXCEPT ![n] = @ + 1]
    /\ UNCHANGED <<kafkaVars, bus, history>>

\* Faulty: every disconnect is counted.
CountedAlways(c) == TRUE

\* "rejected connections were never counted, so don't decrement for them".
Counted(c) == socket[c].pc = "open"

handleDisconnect(c) ==
    /\ socket[c].pc # "closed"
    /\ gauge' = IF Counted(c) THEN [gauge EXCEPT ![socket[c].at] = @ - 1] ELSE gauge
    /\ socket' = [socket EXCEPT ![c] = Closed]
    /\ UNCHANGED <<kafkaVars, bus, history>>

-----------------------------------------------------------------------------
(* The events.                                                             *)

Published == MapThenSumSet(LAMBDA t : Len(log[t]), UsedTopics)

Publish(t, e) ==
    /\ Published < MaxEvents
    /\ log' = [log EXCEPT ![t] = Append(@, e)]
    /\ UNCHANGED <<pos, committed, owner, socket, bus, gauge, history>>

Party(e, who) == IF who = "rider" THEN e.rider ELSE e.driver

\* Whom the handlers of NotificationService emit to; emitToUser drops who is
\* nobody.
Concerns(t, e, who) ==
    /\ t \in {"payment.completed", "payment.failed"} => who = "rider"
    /\ Party(e, who) # NoId

PushTo(t, i, who) == [to |-> Party(log[t][i], who), as |-> who, topic |-> t, index |-> i]

\* The sockets of instance n after it has emitted p to the room of p.to.
Delivered(sockets, n, p) ==
    [c \in Clients |->
        IF sockets[c].pc = "open" /\ sockets[c].at = n /\ IdOf[c] = p.to
        THEN [sockets[c] EXCEPT !.got = Append(@, p)]
        ELSE sockets[c]]

\* Faulty: an instance hears its own broadcasts.
BusAfterEchoed(queues, n, p) == [k \in Servers |-> Append(queues[k], p)]

\* Faulty: without the Redis adapter.
BusAfterAlone(queues, n, p) == queues

BusAfter(queues, n, p) == [k \in Servers |-> IF k = n THEN queues[k] ELSE Append(queues[k], p)]

\* emitToUser: at once to the sockets of instance n, through Redis to the others.
Emitted(rooms, n, t, i, who) ==
    IF Concerns(t, log[t][i], who)
    THEN [socket |-> Delivered(rooms.socket, n, PushTo(t, i, who)),
          bus |-> BusAfter(rooms.bus, n, PushTo(t, i, who))]
    ELSE rooms

\* Faulty: the events of a topic are spread over partitions of several instances.
ReadsSpread(n, t) == TRUE

Reads(n, t) == owner[t] = n

\* eachMessage with an event that can be handled.
Handle(n, t) ==
    /\ Reads(n, t)
    /\ HasNext(log[t], pos[t])
    /\ ~NextMessage(log[t], pos[t]).junk
    /\ LET i == pos[t] + 1
           toRider == Emitted([socket |-> socket, bus |-> bus], n, t, i, "rider")
           toBoth == Emitted(toRider, n, t, i, "driver") IN
        socket' = toBoth.socket /\ bus' = toBoth.bus
    /\ pos' = [pos EXCEPT ![t] = @ + 1]
    /\ UNCHANGED <<log, committed, owner, gauge, history>>

\* Faulty: the error is thrown, and kafkajs delivers the message again.
SkipBadThrows(n, t) ==
    /\ Reads(n, t)
    /\ HasNext(log[t], pos[t])
    /\ NextMessage(log[t], pos[t]).junk
    /\ UNCHANGED vars

\* eachMessage with one that cannot: "move on instead of blocking the partition".
SkipBad(n, t) ==
    /\ Reads(n, t)
    /\ HasNext(log[t], pos[t])
    /\ NextMessage(log[t], pos[t]).junk
    /\ pos' = [pos EXCEPT ![t] = @ + 1]
    /\ UNCHANGED <<log, committed, owner, socket, bus, gauge, history>>

\* The adapter of instance n hears the next push of another one.
BusDelivers(n) ==
    /\ bus[n] # << >>
    /\ socket' = Delivered(socket, n, Head(bus[n]))
    /\ bus' = [bus EXCEPT ![n] = Tail(@)]
    /\ UNCHANGED <<kafkaVars, gauge, history>>

-----------------------------------------------------------------------------
(* What goes wrong.                                                        *)

TroubleLeft == moves + drops < MaxTrouble

\* Ways in which the group may have joined anew, topic by topic.
Joins ==
    LET ways == [t \in UsedTopics |-> Rejoined(committed[t], pos[t], Len(log[t]))] IN
    {k \in [UsedTopics -> UNION {ways[t] : t \in UsedTopics}] : \A t \in UsedTopics : k[t] \in ways[t]}

\* The partitions are assigned anew: each topic resumes where the broker knows
\* the group to be, or, if it knows nothing, at the end (fromBeginning: false).
Reassign ==
    /\ moves' = moves + 1
    /\ owner' \in [UsedTopics -> Servers]
    /\ \E k \in Joins :
        /\ pos' = [t \in UsedTopics |-> k[t].pos]
        /\ committed' = [t \in UsedTopics |-> k[t].committed]

Rebalance ==
    /\ TroubleLeft
    /\ Reassign
    /\ UNCHANGED <<log, socket, bus, gauge, lost, drops>>

\* An instance dies, with its sockets, and another or its successor takes over.
Crash(n) ==
    /\ TroubleLeft
    /\ Reassign
    /\ socket' = [c \in Clients |-> IF socket[c].at = n THEN Closed ELSE socket[c]]
    /\ bus' = [bus EXCEPT ![n] = << >>]
    /\ gauge' = [gauge EXCEPT ![n] = 0]
    /\ UNCHANGED <<log, lost, drops>>

\* Pub/sub keeps nothing for a subscriber that is reconnecting.
BusLoses(n) ==
    /\ TroubleLeft
    /\ bus[n] # << >>
    /\ drops' = drops + 1
    /\ lost' = lost \cup {[at |-> n, push |-> Head(bus[n])]}
    /\ bus' = [bus EXCEPT ![n] = Tail(@)]
    /\ UNCHANGED <<kafkaVars, socket, gauge, moves>>

Trouble == Rebalance \/ \E n \in Servers : Crash(n) \/ BusLoses(n)

-----------------------------------------------------------------------------
Consumes(t) == \E n \in Servers : Handle(n, t) \/ SkipBad(n, t)

Next ==
    \/ \E c \in Clients : handleDisconnect(c) \/ \E n \in Servers : handleConnection(c, n)
    \/ \E t \in UsedTopics : Consumes(t) \/ \E e \in EventSet : Publish(t, e)
    \/ \E n \in Servers : BusDelivers(n)
    \/ Trouble

Spec == Init /\ [][Next]_vars

\* kafkajs polls, and Redis passes on.
Fairness ==
    /\ \A t \in UsedTopics : WF_vars(Consumes(t))
    /\ \A n \in Servers : WF_vars(BusDelivers(n))

FairSpec == Spec /\ Fairness

-----------------------------------------------------------------------------
\* Types.
TypeOK ==
    /\ log \in [UsedTopics -> Seq(EventSet)]
    /\ pos \in [UsedTopics -> Nat] /\ committed \in [UsedTopics -> Commit]
    /\ \A t \in UsedTopics : committed[t].from <= pos[t] + 1 /\ pos[t] <= Len(log[t])
    /\ owner \in [UsedTopics -> Servers]
    /\ socket \in [Clients -> Socket]
    /\ bus \in [Servers -> Seq(Push)]
    /\ gauge \in [Servers -> Int]
    /\ lost \subseteq [at : Servers, push : Push]
    /\ moves \in Nat /\ drops \in Nat

\* socket_connections_active is the number of accepted connections that are
\* open, through refusals, disconnects and crashes.
GaugeCountsSockets ==
    \A n \in Servers : gauge[n] = Cardinality({c \in Clients : socket[c].pc = "open" /\ socket[c].at = n})

\* The i-th event of t is about client c, as the ride's rider or driver.
Addressed(c, t, i, who) ==
    ~log[t][i].junk /\ Concerns(t, log[t][i], who) /\ Party(log[t][i], who) = IdOf[c]

\* A client that was connected when an event about it was published gets the
\* push of it, on whichever instance the event is handled: it has it, Redis is
\* bringing it, or the event is still to be handled.  It misses only what Redis
\* dropped and what a group without an offset jumped over.
NoPushLost ==
    \A c \in Clients : socket[c].pc = "open" =>
        \A t \in UsedTopics, who \in Parties : \A i \in socket[c].since[t] + 1 .. Len(log[t]) :
            Addressed(c, t, i, who) =>
                LET p == PushTo(t, i, who) IN
                \/ p \in Messages(socket[c].got) \cup Messages(bus[socket[c].at])
                \/ i > pos[t] \/ i \in committed[t].skipped
                \/ [at |-> socket[c].at, push |-> p] \in lost

\* The order of the topic, and of the two emits of a handler.
Before(p, q) ==
    p.topic = q.topic => p.index < q.index \/ (p.index = q.index /\ p.as = "rider" /\ q.as = "driver")

\* What a client hears of one topic comes in the topic's order, although two
\* instances may have a part in it; to hear otherwise takes a crash or a
\* rebalance.
PushesInOrder ==
    moves = 0 =>
        \A c \in Clients : LET got == socket[c].got IN
            \A i, j \in DOMAIN got : i < j => Before(got[i], got[j])

Copies(queue, p) == Cardinality({i \in 1 .. Len(queue) : queue[i] = p})

\* Nobody gets the push of an event twice, but for crashes and rebalances: once
\* more for each.
CopiesCostMoves ==
    \A c \in Clients : \A p \in Messages(socket[c].got) : Copies(socket[c].got, p) <= 1 + moves

\* The service catches up with its topics, whatever they carry: an event that
\* cannot be read does not keep others waiting.
EventsNeverBlock == []<>(\A t \in UsedTopics : pos[t] = Len(log[t]))
=============================================================================
