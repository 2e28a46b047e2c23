----------------------------- MODULE RideProofs -----------------------------
(***************************************************************************)
(* Proofs about RideService, for any rides, clients and bounds, and about  *)
(* the life of a ride in RideFlow.                                         *)
(*                                                                         *)
(* The consumer of driver.assigned is taken back by crashes and failures   *)
(* to events it has handled, or jumps over some it has not.  What survives *)
(* is that the driver in a ride's row is the one that some first n         *)
(* assignments leave there, and that n does not lie behind the consumer's  *)
(* offset unless an assignment of that ride was jumped over (DriversOK).   *)
(* The budget of UnannouncedCostFaults is an induction of its own: only a  *)
(* request that ends between its save and its publish leaves a ride        *)
(* unannounced.                                                            *)
(***************************************************************************)
EXTENDS RideFlow, EventsProofs, FiniteSetTheorems

Assigned == log["driver.assigned"]
Offset == pos["driver.assigned"]

RequestOK(r) ==
    /\ r.pc # "idle" => r.ride \in Rides /\ rides[r.ride].exists
    /\ r.pc = "publishRequested" => r.pickup \in Pickups

RequestsOK == \A s \in Clients : RequestOK(req[s])

RequestedExist == \A m \in Messages(log["ride.requested"]) : rides[m.ride].exists

\* The event that is handled is the next one, and its driver is in the table.
AssignOK ==
    assign.pc = "announce" =>
        /\ HasNext(Assigned, Offset)
        /\ NextMessage(Assigned, Offset) = [ride |-> assign.ride, driver |-> assign.driver]
        /\ rides[assign.ride].driver = assign.driver

RowAfter(r, n) == (Offset <= n \/ r \in Forgotten) /\ LastAssigned(r, n, rides[r].driver)
DriversOK == \A r \in Rides : \E n \in 0 .. Len(Assigned) : RowAfter(r, n)

IInv == TypeOK /\ RequestsOK /\ RequestedExist /\ AssignedExists /\ AssignOK /\ MatchAnnounced /\ DriversOK

-----------------------------------------------------------------------------
(* Types.                                                                  *)

LEMMA RowTypes == NoRow \in Ride /\ NoRequest \in Request /\ NoRequest.pc = "idle"
                  /\ NoAssign \in Assign /\ NoAssign.pc = "idle"
  BY DEF NoRow, Ride, NoRequest, Request, NoAssign, Assign, RideStatus

LEMMA TypeFacts ==
    ASSUME TypeOK
    PROVE  /\ Assigned \in Seq(AssignedEvent) /\ Offset \in Nat /\ Len(Assigned) \in Nat
           /\ Offset <= Len(Assigned)
           /\ log["ride.requested"] \in Seq(RequestEvent)
           /\ log["ride.status.updated"] \in Seq(RideEvent)
           /\ "driver.assigned" \in Topics /\ "ride.requested" \in Topics /\ "ride.status.updated" \in Topics
  BY DEF TypeOK, LogOK, Topics, Assigned, Offset

LEMMA RespondFields ==
    ASSUME req \in [Clients -> Request], NEW s \in Clients, Respond(s)
    PROVE  req' \in [Clients -> Request] /\ req'[s] = NoRequest /\ \A t \in Clients \ {s} : req'[t] = req[t]
  BY RowTypes DEF Respond

\* The types of a step that leaves the log and the offsets alone.
LEMMA QuietType ==
    ASSUME TypeOK, UNCHANGED <<log, pos, committed>>, rides' \in [Rides -> Ride],
           req' \in [Clients -> Request], assign' \in Assign, faults' \in Nat
    PROVE  TypeOK'
  BY DEF TypeOK

\* ... and of one that publishes.
LEMMA PublishType ==
    ASSUME TypeOK, UNCHANGED <<rides, committed, faults>>, NEW t \in Topics, NEW m, log' = Published(log, t, m), Carries(t, m),
           req' \in [Clients -> Request], assign' \in Assign,
           pos' \in [Topics -> Nat], \A u \in Topics : pos[u] <= pos'[u] /\ pos'[u] <= Len(log[u])
    PROVE  TypeOK'
<1>1. LogOK(log') /\ \A u \in Topics : Len(log[u]) \in Nat /\ Len(log[u]) <= Len(log'[u])
  BY PublishedFacts DEF TypeOK
<1>2. ASSUME NEW u \in Topics PROVE committed'[u].from <= pos'[u] + 1 /\ pos'[u] <= Len(log'[u])
  <2>1. committed[u].from <= pos[u] + 1 /\ committed'[u] = committed[u]
        /\ committed[u].from \in Nat /\ pos[u] \in Nat /\ pos'[u] \in Nat /\ pos[u] <= pos'[u] /\ pos'[u] <= Len(log[u])
    BY DEF TypeOK, Commit
  <2>2. Len(log[u]) \in Nat /\ Len(log[u]) <= Len(log'[u]) /\ Len(log'[u]) \in Nat
    <3>1. PICK S : log'[u] \in Seq(S)
      BY <1>1 DEF LogOK, Topics
    <3> QED BY <3>1, <1>1
  <2> QED BY <2>1, <2>2
<1> QED BY <1>1, <1>2 DEF TypeOK

LEMMA SameOffsets ==
    ASSUME TypeOK, pos' = pos
    PROVE  pos' \in [Topics -> Nat] /\ \A u \in Topics : pos[u] <= pos'[u] /\ pos'[u] <= Len(log[u])
  BY DEF TypeOK

\* What was jumped over lies behind the offset, and is history.
LEMMA ForgottenStays ==
    ASSUME TypeOK, committed' = committed, \A i \in 1 .. Len(Assigned) : Assigned'[i] = Assigned[i]
    PROVE  Forgotten' = Forgotten
<1> DEFINE skipped == committed["driver.assigned"].skipped
<1>1. ASSUME NEW i \in skipped PROVE i \in 1 .. Len(Assigned)
  <2>1. committed["driver.assigned"] \in Commit /\ 0 < i /\ i < committed["driver.assigned"].from
        /\ committed["driver.assigned"].from <= Offset + 1
    BY TypeFacts DEF TypeOK, Offset
  <2>2. i \in Nat /\ committed["driver.assigned"].from \in Nat
    BY <2>1 DEF Commit
  <2> QED BY <2>1, <2>2, TypeFacts
<1>2. ASSUME NEW i \in skipped PROVE Assigned'[i].ride = Assigned[i].ride
  BY <1>1
<1> QED BY <1>2 DEF Forgotten, Assigned

LEMMA InitInv ==
    ASSUME Init
    PROVE  IInv
<1>1. TypeOK
  <2>1. \A t \in Topics : Len(EmptyLog[t]) = 0
    BY DEF EmptyLog
  <2> QED BY <2>1, RowTypes, EmptyLogOK, FirstCommitsOK DEF Init, TypeOK
<1>2. /\ Assigned = << >> /\ Offset = 0 /\ log["ride.requested"] = << >>
      /\ \A s \in Clients : req[s].pc = "idle"
      /\ assign.pc = "idle"
      /\ \A r \in Rides : rides[r].driver = NoDriver
  BY RowTypes DEF Init, EmptyLog, Topics, Assigned, Offset, NoRow
<1>3. RequestsOK /\ AssignOK
  BY <1>2 DEF RequestsOK, RequestOK, AssignOK
<1>4. RequestedExist /\ AssignedExists
  BY <1>2 DEF RequestedExist, AssignedExists, Messages, Assigned
<1>5. MatchAnnounced
  BY <1>2 DEF MatchAnnounced, Handled, Offset
<1>6. DriversOK
  <2>1. ASSUME NEW r \in Rides PROVE RowAfter(r, 0)
    BY <1>2 DEF LastAssigned, RowAfter
  <2> QED BY <1>2, <2>1 DEF DriversOK
<1> QED BY <1>1, <1>3, <1>4, <1>5, <1>6 DEF IInv
-----------------------------------------------------------------------------
(* Steps.                                                                  *)

RowsGrow == \A r \in Rides : rides[r].exists => rides'[r].exists
DriversStay == \A r \in Rides : rides'[r].driver = rides[r].driver

LEMMA RequestsStay ==
    ASSUME IInv, RowsGrow, \A t \in Clients : req'[t] = req[t] \/ RequestOK(req[t])'
    PROVE  RequestsOK'
<1>1. ASSUME NEW t \in Clients, req'[t] = req[t] PROVE RequestOK(req[t])'
  BY <1>1 DEF IInv, RequestsOK, RequestOK, RowsGrow
<1> QED BY <1>1 DEF RequestsOK

\* A step of a request that writes the table or reads it.
LEMMA TableStep ==
    ASSUME IInv, TypeOK', RowsGrow, DriversStay, UNCHANGED <<assign, log, pos, committed>>,
           \A t \in Clients : req'[t] = req[t] \/ RequestOK(req[t])'
    PROVE  IInv'
<1>1. RequestsOK'
  BY RequestsStay
<1>2. RequestedExist'
  <2>1. ASSUME NEW m \in Messages(log["ride.requested"]) PROVE m.ride \in Rides
    BY <2>1, TypeFacts, MessagesType DEF IInv, RequestEvent
  <2> QED BY <2>1 DEF IInv, RequestedExist, RowsGrow
<1>3. AssignedExists' /\ AssignOK'
  <2>1. ASSUME NEW m \in Messages(Assigned) PROVE m.ride \in Rides
    BY <2>1, TypeFacts, MessagesType DEF IInv, AssignedEvent
  <2>2. ASSUME assign.pc = "announce" PROVE assign.ride \in Rides
    <3>1. HasNext(Assigned, Offset) /\ NextMessage(Assigned, Offset).ride = assign.ride
      BY <2>2 DEF IInv, AssignOK
    <3> QED BY <2>1, <3>1, TypeFacts, NextIsMessage DEF IInv
  <2> QED BY <2>1, <2>2 DEF IInv, AssignedExists, AssignOK, RowsGrow, DriversStay, Assigned, Offset
<1>4. MatchAnnounced' /\ DriversOK'
  BY DEF IInv, MatchAnnounced, Handled, Announced, DriversOK, RowAfter, Forgotten, LastAssigned, DriversStay, Assigned, Offset
<1> QED BY <1>1, <1>2, <1>3, <1>4 DEF IInv

LEMMA RequestRideInv ==
    ASSUME IInv, NEW s \in Clients, NEW r \in Rides, NEW pickup \in Pickups, requestRide(s, r, pickup)
    PROVE  IInv'
<1> PICK g : g = [NoRequest EXCEPT !.pc = "publishRequested", !.ride = r, !.pickup = pickup]
  OBVIOUS
<1>1. g \in Request /\ g.pc = "publishRequested" /\ g.ride = r /\ g.pickup = pickup
  BY RowTypes DEF NoRequest, Request
<1>2. req' = [req EXCEPT ![s] = g] /\ rides' = [rides EXCEPT ![r].exists = TRUE]
      /\ UNCHANGED <<assign, log, pos, committed, faults>>
  BY DEF requestRide
<1>3. rides' \in [Rides -> Ride] /\ RowsGrow /\ DriversStay /\ rides'[r].exists
  BY <1>2 DEF IInv, TypeOK, Ride, RowsGrow, DriversStay
<1>4. TypeOK'
  BY <1>1, <1>2, <1>3, QuietType DEF IInv, TypeOK
<1>5. ASSUME NEW t \in Clients PROVE req'[t] = req[t] \/ RequestOK(req[t])'
  <2>1. CASE t = s
    <3>1. req'[t] = g
      BY <1>2, <2>1 DEF IInv, TypeOK
    <3> QED BY <3>1, <1>1, <1>3 DEF RequestOK
  <2>2. CASE t # s
    BY <1>2, <2>2 DEF IInv, TypeOK
  <2> QED BY <2>1, <2>2
<1> QED BY <1>2, <1>3, <1>4, <1>5, TableStep

LEMMA UpdateStatusInv ==
    ASSUME IInv, NEW s \in Clients, NEW r \in Rides, NEW status \in RideStatus,
           NEW fare \in Fares \cup {NoFare}, updateStatus(s, r, status, fare)
    PROVE  IInv'
<1>1. rides[r] \in Ride /\ rides[r].exists
  BY DEF IInv, TypeOK, updateStatus
<1> PICK g : g = [pc |-> "write", ride |-> r, pickup |-> NoPickup,
                  status |-> status, fare |-> fare, read |-> rides[r]]
  OBVIOUS
<1>2. g \in Request /\ g.pc = "write" /\ g.ride = r
  BY <1>1 DEF Request
<1>3. req' = [req EXCEPT ![s] = g] /\ UNCHANGED <<rides, assign, log, pos, committed, faults>>
  BY DEF updateStatus
<1>4. RowsGrow /\ DriversStay
  BY <1>3 DEF RowsGrow, DriversStay
<1>5. TypeOK'
  BY <1>2, <1>3, QuietType DEF IInv, TypeOK
<1>6. ASSUME NEW t \in Clients PROVE req'[t] = req[t] \/ RequestOK(req[t])'
  <2>1. CASE t = s
    <3>1. req'[t] = g
      BY <1>3, <2>1 DEF IInv, TypeOK
    <3> QED BY <3>1, <1>1, <1>2, <1>3 DEF RequestOK
  <2>2. CASE t # s
    BY <1>3, <2>2 DEF IInv, TypeOK
  <2> QED BY <2>1, <2>2
<1> QED BY <1>3, <1>4, <1>5, <1>6, TableStep

LEMMA WriteStatusInv ==
    ASSUME IInv, NEW s \in Clients, WriteStatus(s)
    PROVE  IInv'
<1>1. req[s] \in Request /\ req[s].pc = "write" /\ req[s].ride \in Rides /\ rides[req[s].ride].exists
  BY DEF IInv, TypeOK, WriteStatus, RequestsOK, RequestOK
<1> PICK q : q = req[s]
  OBVIOUS
<1> PICK g : g = [q EXCEPT !.pc = "publishStatus"]
  OBVIOUS
<1>2. g \in Request /\ g.pc = "publishStatus" /\ g.ride = req[s].ride
  BY <1>1 DEF Request
<1> PICK w : w = [rides[q.ride] EXCEPT !.status = q.status, !.fare = StoredFare(@, q.fare)]
  OBVIOUS
<1>3. rides[q.ride] \in Ride /\ q.status \in RideStatus /\ q.fare \in Fares \cup {NoFare}
  BY <1>1 DEF IInv, TypeOK, Request
<1>4. w \in Ride /\ w.driver = rides[q.ride].driver /\ w.exists = rides[q.ride].exists
  BY <1>3 DEF Ride, StoredFare
<1>5. req' = [req EXCEPT ![s] = g] /\ rides' = [rides EXCEPT ![q.ride] = w]
      /\ UNCHANGED <<assign, log, pos, committed, faults>>
  BY <1>1, <1>3 DEF WriteStatus, IInv, TypeOK
<1>6. rides' \in [Rides -> Ride] /\ RowsGrow /\ DriversStay
  BY <1>1, <1>4, <1>5 DEF IInv, TypeOK, RowsGrow, DriversStay
<1>7. TypeOK'
  BY <1>2, <1>5, <1>6, QuietType DEF IInv, TypeOK
<1>8. ASSUME NEW t \in Clients PROVE req'[t] = req[t] \/ RequestOK(req[t])'
  <2>1. CASE t = s
    <3>1. req'[t] = g
      BY <1>5, <2>1 DEF IInv, TypeOK
    <3>2. rides'[g.ride].exists
      BY <1>1, <1>2, <1>6 DEF RowsGrow
    <3> QED BY <3>1, <3>2, <1>1, <1>2 DEF RequestOK
  <2>2. CASE t # s
    BY <1>5, <2>2 DEF IInv, TypeOK
  <2> QED BY <2>1, <2>2
<1> QED BY <1>5, <1>6, <1>7, <1>8, TableStep

\* A new event leaves what the earlier ones say.
LEMMA HistoryStays ==
    ASSUME TypeOK, NEW r, NEW n \in 0 .. Len(Assigned), NEW d,
           \A i \in 1 .. Len(Assigned) : Assigned'[i] = Assigned[i], LastAssigned(r, n, d)
    PROVE  LastAssigned(r, n, d)'
<1>1. Len(Assigned) \in Nat
  BY TypeFacts
<1>2. ASSUME NEW i \in 1 .. n PROVE Assigned'[i] = Assigned[i]
  BY <1>1
<1>3. CASE d = NoDriver /\ \A i \in 1 .. n : Assigned[i].ride # r
  BY <1>2, <1>3 DEF LastAssigned, Assigned
<1>4. CASE \E i \in 1 .. n : /\ Assigned[i].ride = r /\ Assigned[i].driver = d
                             /\ \A j \in (i + 1) .. n : Assigned[j].ride # r
  <2>1. PICK i \in 1 .. n : /\ Assigned[i].ride = r /\ Assigned[i].driver = d
                            /\ \A j \in (i + 1) .. n : Assigned[j].ride # r
    BY <1>4
  <2>2. \A j \in (i + 1) .. n : j \in 1 .. n
    OBVIOUS
  <2> QED BY <2>1, <2>2, <1>2 DEF LastAssigned, Assigned
<1> QED BY <1>3, <1>4 DEF LastAssigned, Assigned

LEMMA LogGrows ==
    ASSUME LogOK(log), NEW t \in Topics, NEW m, Carries(t, m), log' = Published(log, t, m)
    PROVE  /\ Messages(log'[t]) = Messages(log[t]) \cup {m}
           /\ Len(log'[t]) = Len(log[t]) + 1 /\ log'[t][Len(log[t]) + 1] = m
           /\ \A i \in 1 .. Len(log[t]) : log'[t][i] = log[t][i]
           /\ \A u \in Topics \ {t} : log'[u] = log[u]
           /\ \A u \in Topics : Len(log[u]) \in Nat /\ Len(log[u]) <= Len(log'[u])
<1>1. log'[t] = Append(log[t], m)
  BY PublishedTopics
<1>2. PICK S : log[t] \in Seq(S) /\ m \in S
  BY DEF LogOK, Topics, Carries
<1>3. Messages(Append(log[t], m)) = Messages(log[t]) \cup {m}
  BY <1>2, AppendFacts
<1>4. Messages(log'[t]) = Messages(log[t]) \cup {m}
  BY <1>1, <1>3
<1>5. /\ Len(log'[t]) = Len(log[t]) + 1 /\ log'[t][Len(log[t]) + 1] = m
      /\ \A u \in Topics \ {t} : log'[u] = log[u]
      /\ \A u \in Topics : Len(log[u]) \in Nat /\ Len(log[u]) <= Len(log'[u])
  BY PublishedFacts
<1>6. \A i \in 1 .. Len(log[t]) : log'[t][i] = log[t][i]
  BY PublishedFacts
<1> QED BY <1>4, <1>5, <1>6

\* A step that publishes, and leaves the table and the consumer alone.
LEMMA PublishStep ==
    ASSUME IInv, TypeOK', UNCHANGED <<rides, assign, pos, committed>>,
           NEW t \in Topics, NEW m, log' = Published(log, t, m), Carries(t, m),
           t \in {"ride.requested", "driver.assigned"} => rides[m.ride].exists,
           \A u \in Clients : req'[u] = req[u] \/ req'[u] = NoRequest
    PROVE  IInv'
<1>1. LogOK(log)
  BY DEF IInv, TypeOK
<1>2. /\ Messages(log'[t]) = Messages(log[t]) \cup {m}
      /\ Len(log'[t]) = Len(log[t]) + 1 /\ log'[t][Len(log[t]) + 1] = m
      /\ \A i \in 1 .. Len(log[t]) : log'[t][i] = log[t][i]
      /\ \A u \in Topics \ {t} : log'[u] = log[u]
      /\ \A u \in Topics : Len(log[u]) \in Nat /\ Len(log[u]) <= Len(log'[u])
  BY <1>1, LogGrows
<1>3. Offset \in Nat /\ Len(Assigned) \in Nat /\ Len(Assigned') \in Nat /\ Offset <= Len(Assigned)
      /\ Len(Assigned) <= Len(Assigned')
  <2>1. "driver.assigned" \in Topics
    BY DEF Topics
  <2>2. Assigned' \in Seq(AssignedEvent)
    BY DEF TypeOK, LogOK, Assigned
  <2> QED BY <1>2, <2>1, <2>2, TypeFacts DEF IInv, Assigned
<1>4. \A i \in 1 .. Len(Assigned) : Assigned'[i] = Assigned[i]
  BY <1>2, TypeFacts DEF Assigned, IInv
<1>5. \A u \in Topics : Messages(log[u]) \subseteq Messages(log'[u])
  BY <1>2
<1>6. RequestsOK'
  <2>1. RequestOK(NoRequest)'
    BY RowTypes DEF RequestOK, NoRequest
  <2>2. \A u \in Clients : req'[u] = req[u] \/ RequestOK(req[u])'
    BY <2>1 DEF RequestOK
  <2>3. RowsGrow
    BY DEF RowsGrow
  <2> QED BY <2>2, <2>3, RequestsStay
<1>7. RequestedExist'
  BY <1>2, TypeFacts DEF IInv, RequestedExist
<1>8. AssignedExists'
  BY <1>2, TypeFacts DEF IInv, AssignedExists
<1>9. AssignOK'
  <2>1. CASE assign.pc = "announce"
    <3>1. Offset + 1 \in 1 .. Len(Assigned)
      BY <2>1, <1>3 DEF IInv, AssignOK, HasNext
    <3>2. Assigned'[Offset + 1] = Assigned[Offset + 1] /\ Offset' = Offset
      BY <3>1, <1>4 DEF Offset
    <3>3. HasNext(Assigned, Offset)' /\ NextMessage(Assigned, Offset)' = NextMessage(Assigned, Offset)
      BY <1>3, <3>1, <3>2 DEF HasNext, NextMessage
    <3> QED BY <2>1, <3>3 DEF IInv, AssignOK
  <2>2. CASE assign.pc # "announce"
    BY <2>2 DEF AssignOK
  <2> QED BY <2>1, <2>2
<1>10. MatchAnnounced'
  <2> DEFINE old == Handled(committed, pos, "driver.assigned")
  <2>1. old' = old /\ \A i \in old : i \in 1 .. Len(Assigned)
    BY <1>3 DEF Handled, Offset
  <2>2. ASSUME NEW i \in old PROVE Assigned'[i] = Assigned[i] /\ Announced(i)
    BY <2>1, <1>4 DEF IInv, MatchAnnounced
  <2>3. "ride.status.updated" \in Topics
    BY DEF Topics
  <2>4. ASSUME NEW i \in old PROVE Announced(i)'
    BY <2>2, <2>3, <1>5 DEF Announced, Assigned
  <2> QED BY <2>1, <2>4 DEF MatchAnnounced
<1>11. DriversOK'
  <2>0. Forgotten' = Forgotten
    BY <1>4, ForgottenStays DEF IInv
  <2>1. ASSUME NEW r \in Rides PROVE \E n \in 0 .. Len(Assigned') : RowAfter(r, n)'
    <3>1. PICK n \in 0 .. Len(Assigned) : RowAfter(r, n)
      BY DEF IInv, DriversOK
    <3> PICK d : d = rides[r].driver
      OBVIOUS
    <3>2. n \in 0 .. Len(Assigned')
      BY <1>3
    <3>3. LastAssigned(r, n, d)'
      BY <1>4, <3>1, HistoryStays DEF IInv, RowAfter
    <3>4. RowAfter(r, n)'
      BY <2>0, <3>1, <3>3 DEF RowAfter, Offset
    <3> QED BY <3>2, <3>4
  <2> QED BY <2>1 DEF DriversOK
<1> QED BY <1>6, <1>7, <1>8, <1>9, <1>10, <1>11 DEF IInv

LEMMA PublishRequestedInv ==
    ASSUME IInv, NEW s \in Clients, PublishRequested(s)
    PROVE  IInv'
<1>1. req[s] \in Request /\ req[s].ride \in Rides /\ rides[req[s].ride].exists /\ req[s].pickup \in Pickups
  BY DEF IInv, TypeOK, PublishRequested, RequestsOK, RequestOK
<1> PICK m : m = [ride |-> req[s].ride, pickup |-> req[s].pickup]
  OBVIOUS
<1>2. Carries("ride.requested", m) /\ rides[m.ride].exists
  BY <1>1 DEF RequestEvent, Carries
<1>3. log' = Published(log, "ride.requested", m) /\ UNCHANGED <<rides, assign, pos, committed, faults>>
  BY DEF PublishRequested
<1>4. req' \in [Clients -> Request] /\ \A u \in Clients : req'[u] = req[u] \/ req'[u] = NoRequest
  BY RespondFields DEF PublishRequested, IInv, TypeOK
<1>5. TypeOK'
  BY <1>2, <1>3, <1>4, SameOffsets, PublishType, TypeFacts DEF IInv, TypeOK
<1> QED BY <1>2, <1>3, <1>4, <1>5, PublishStep, TypeFacts DEF IInv

LEMMA PublishStatusInv ==
    ASSUME IInv, NEW s \in Clients, PublishStatus(s)
    PROVE  IInv'
<1>1. req[s] \in Request /\ req[s].ride \in Rides
  BY DEF IInv, TypeOK, PublishStatus, RequestsOK, RequestOK
<1> PICK m : m = [ride |-> req[s].ride, driver |-> req[s].read.driver, status |-> req[s].status,
                  fare |-> PublishedFare(req[s].read.fare, req[s].fare)]
  OBVIOUS
<1> PICK t : t = TopicOf(req[s].status)
  OBVIOUS
<1>a. m \in RideEvent
  BY <1>1 DEF RideEvent, Request, Ride, PublishedFare
<1>2. Carries(t, m) /\ t \in {"ride.status.updated", "ride.completed"}
  BY <1>a DEF Carries, TopicOf
<1>3. log' = Published(log, t, m) /\ UNCHANGED <<rides, assign, pos, committed, faults>>
  BY DEF PublishStatus
<1>4. req' \in [Clients -> Request] /\ \A u \in Clients : req'[u] = req[u] \/ req'[u] = NoRequest
  BY RespondFields DEF PublishStatus, IInv, TypeOK
<1>5. t \in Topics
  BY <1>2 DEF Topics
<1>6. TypeOK'
  BY <1>2, <1>3, <1>4, <1>5, SameOffsets, PublishType, TypeFacts DEF IInv, TypeOK
<1> QED BY <1>2, <1>3, <1>4, <1>5, <1>6, PublishStep

\* An assignment to a ride that was asked for, whoever publishes it.
LEMMA AssignmentInv ==
    ASSUME IInv, NEW m \in AssignedEvent, \E n \in Messages(log["ride.requested"]) : n.ride = m.ride,
           log' = Published(log, "driver.assigned", m), UNCHANGED <<rides, req, assign, pos, committed, faults>>
    PROVE  IInv'
<1>1. rides[m.ride].exists /\ Carries("driver.assigned", m)
  BY DEF IInv, RequestedExist, Carries
<1>2. TypeOK'
  BY <1>1, SameOffsets, PublishType, TypeFacts DEF IInv, TypeOK
<1> QED BY <1>1, <1>2, PublishStep, TypeFacts DEF IInv

LEMMA DriverAssignedInv ==
    ASSUME IInv, NEW m \in AssignedEvent, DriverAssigned(m)
    PROVE  IInv'
  BY AssignmentInv DEF DriverAssigned

\* The driver of the event that is handled is the last one up to that event.
LEMMA HandledIsLast ==
    ASSUME TypeOK, HasNext(Assigned, Offset), NEW r, NEW d,
           NextMessage(Assigned, Offset).ride = r, NextMessage(Assigned, Offset).driver = d
    PROVE  LastAssigned(r, Offset + 1, d) /\ Offset + 1 \in 1 .. Len(Assigned)
<1>1. Offset \in Nat /\ Len(Assigned) \in Nat /\ Offset + 1 \in 1 .. Len(Assigned)
  BY TypeFacts DEF HasNext
<1>2. /\ Assigned[Offset + 1].ride = r /\ Assigned[Offset + 1].driver = d
      /\ Offset + 1 \in 1 .. (Offset + 1)
      /\ \A j \in (Offset + 1 + 1) .. (Offset + 1) : Assigned[j].ride # r
  BY <1>1 DEF NextMessage
<1>3. LastAssigned(r, Offset + 1, d)
  BY <1>2 DEF LastAssigned, Assigned
<1> QED BY <1>1, <1>3

\* An assignment that leaves a driver with a ride does so until the next one.
LEMMA StillLast ==
    ASSUME NEW r, NEW d, NEW m \in Nat, NEW len \in Nat, NEW n \in m .. len,
           \A i \in (m + 1) .. len : Assigned[i].ride # r, LastAssigned(r, n, d)
    PROVE  LastAssigned(r, len, d)
<1>1. \A i \in (n + 1) .. len : Assigned[i].ride # r
  OBVIOUS
<1>2. CASE d = NoDriver /\ \A i \in 1 .. n : Assigned[i].ride # r
  <2>1. \A i \in 1 .. len : Assigned[i].ride # r
    BY <1>1, <1>2
  <2> QED BY <1>2, <2>1 DEF LastAssigned, Assigned
<1>3. CASE \E i \in 1 .. n : /\ Assigned[i].ride = r /\ Assigned[i].driver = d
                             /\ \A j \in (i + 1) .. n : Assigned[j].ride # r
  <2>1. PICK i \in 1 .. n : /\ Assigned[i].ride = r /\ Assigned[i].driver = d
                            /\ \A j \in (i + 1) .. n : Assigned[j].ride # r
    BY <1>3
  <2>2. i \in 1 .. len /\ \A j \in (i + 1) .. len : Assigned[j].ride # r
    BY <1>1, <2>1
  <2> QED BY <2>1, <2>2 DEF LastAssigned, Assigned
<1> QED BY <1>2, <1>3 DEF LastAssigned, Assigned

LEMMA AssignDriverInv ==
    ASSUME IInv, AssignDriver
    PROVE  IInv'
<1> PICK m : m = NextMessage(Assigned, Offset)
  OBVIOUS
<1>1. HasNext(Assigned, Offset) /\ assign.pc = "idle"
  BY DEF AssignDriver, Assigned, Offset
<1>2. m \in AssignedEvent /\ m \in Messages(Assigned)
  BY <1>1, TypeFacts, NextIsMessage DEF IInv
<1>3. m.ride \in Rides /\ m.driver \in Drivers /\ rides[m.ride].exists /\ m = [ride |-> m.ride, driver |-> m.driver]
  BY <1>2 DEF AssignedEvent, IInv, AssignedExists, Assigned
<1> PICK w : w = [rides[m.ride] EXCEPT !.status = "matched", !.driver = m.driver]
  OBVIOUS
<1> PICK g : g = [pc |-> "announce", ride |-> m.ride, driver |-> m.driver]
  OBVIOUS
<1>4. rides[m.ride] \in Ride
  BY <1>3 DEF IInv, TypeOK
<1>5. w \in Ride /\ w.driver = m.driver /\ w.exists = rides[m.ride].exists
  BY <1>3, <1>4 DEF Ride, RideStatus
<1>6. g \in Assign /\ g.pc = "announce" /\ g.ride = m.ride /\ g.driver = m.driver
  BY <1>3 DEF Assign
<1>7. rides' = [rides EXCEPT ![m.ride] = w] /\ assign' = g /\ UNCHANGED <<req, log, pos, committed, faults>>
  BY <1>3 DEF AssignDriver, Assigned, Offset, IInv, TypeOK
<1>8. /\ rides' \in [Rides -> Ride] /\ rides'[m.ride] = w
      /\ \A r \in Rides \ {m.ride} : rides'[r] = rides[r]
      /\ RowsGrow
  BY <1>3, <1>5, <1>7 DEF IInv, TypeOK, RowsGrow
<1>9. TypeOK'
  BY <1>6, <1>7, <1>8, QuietType DEF IInv, TypeOK
<1>10. RequestsOK'
  BY <1>7, <1>8, RequestsStay
<1>11. RequestedExist'
  <2>1. ASSUME NEW n \in Messages(log["ride.requested"]) PROVE n.ride \in Rides
    BY <2>1, TypeFacts, MessagesType DEF IInv, RequestEvent
  <2> QED BY <2>1, <1>7, <1>8 DEF IInv, RequestedExist, RowsGrow
<1>12. AssignedExists'
  <2>1. ASSUME NEW n \in Messages(Assigned) PROVE n.ride \in Rides
    BY <2>1, TypeFacts, MessagesType DEF IInv, AssignedEvent
  <2>2. rides'[g.ride].exists
    BY <1>3, <1>5, <1>6, <1>8
  <2> QED BY <2>1, <2>2, <1>6, <1>7, <1>8 DEF IInv, AssignedExists, RowsGrow, Assigned
<1>13. AssignOK'
  <2>1. Assigned' = Assigned /\ Offset' = Offset
    BY <1>7 DEF Assigned, Offset
  <2>2. rides'[g.ride].driver = g.driver
    BY <1>5, <1>6, <1>8
  <2> QED BY <2>1, <2>2, <1>1, <1>3, <1>6, <1>7 DEF AssignOK
<1>14. MatchAnnounced'
  BY <1>7 DEF IInv, MatchAnnounced, Handled, Announced
<1>15. DriversOK'
  <2>0. Forgotten' = Forgotten
    BY <1>7 DEF Forgotten
  <2>1. ASSUME NEW r \in Rides, NEW n, NEW d PROVE LastAssigned(r, n, d)' <=> LastAssigned(r, n, d)
    BY <1>7 DEF LastAssigned
  <2>2. ASSUME NEW r \in Rides
        PROVE  \E n \in 0 .. Len(Assigned) :
                   (Offset <= n \/ r \in Forgotten) /\ LastAssigned(r, n, rides'[r].driver)
    <3>1. CASE r = m.ride
      <4>1. LastAssigned(r, Offset + 1, m.driver) /\ Offset + 1 \in 1 .. Len(Assigned)
        BY <1>1, <3>1, HandledIsLast DEF IInv
      <4>2. rides'[r].driver = m.driver
        BY <1>5, <1>8, <3>1
      <4>3. Offset + 1 \in 0 .. Len(Assigned) /\ Offset <= Offset + 1
        BY <4>1, TypeFacts DEF IInv
      <4> QED BY <4>1, <4>2, <4>3
    <3>2. CASE r # m.ride
      BY <3>2, <1>8 DEF IInv, DriversOK, RowAfter
    <3> QED BY <3>1, <3>2
  <2>3. Assigned' = Assigned /\ Offset' = Offset
    BY <1>7 DEF Assigned, Offset
  <2>4. ASSUME NEW r \in Rides PROVE \E n \in 0 .. Len(Assigned') : RowAfter(r, n)'
    <3> PICK d : d = rides'[r].driver
      OBVIOUS
    <3>1. PICK n \in 0 .. Len(Assigned) : (Offset <= n \/ r \in Forgotten) /\ LastAssigned(r, n, d)
      BY <2>2
    <3>2. LastAssigned(r, n, d)'
      BY <2>1, <3>1
    <3>3. RowAfter(r, n)'
      BY <2>0, <2>3, <3>1, <3>2 DEF RowAfter
    <3> QED BY <3>1, <3>3, <2>3
  <2> QED BY <2>4 DEF DriversOK
<1> QED BY <1>9, <1>10, <1>11, <1>12, <1>13, <1>14, <1>15 DEF IInv

LEMMA AnnounceMatchInv ==
    ASSUME IInv, AnnounceMatch
    PROVE  IInv'
<1> PICK m : m = [ride |-> assign.ride, driver |-> assign.driver, status |-> "matched", fare |-> NoFare]
  OBVIOUS
<1>1. /\ HasNext(Assigned, Offset) /\ rides[assign.ride].driver = assign.driver
      /\ NextMessage(Assigned, Offset) = [ride |-> assign.ride, driver |-> assign.driver]
  BY DEF IInv, AssignOK, AnnounceMatch
<1>2. [ride |-> assign.ride, driver |-> assign.driver] \in AssignedEvent
  BY <1>1, TypeFacts, NextIsMessage DEF IInv
<1>3. assign.ride \in Rides /\ assign.driver \in Drivers
  BY <1>2 DEF AssignedEvent
<1>4. Carries("ride.status.updated", m)
  BY <1>3 DEF RideEvent, RideStatus, Carries
<1>5. /\ log' = Published(log, "ride.status.updated", m) /\ assign' = NoAssign
      /\ pos' = [pos EXCEPT !["driver.assigned"] = @ + 1] /\ UNCHANGED <<rides, req, committed, faults>>
  BY DEF AnnounceMatch
<1>6. LogOK(log) /\ Offset \in Nat /\ Len(Assigned) \in Nat /\ Offset + 1 \in 1 .. Len(Assigned)
  BY <1>1, TypeFacts DEF IInv, TypeOK, HasNext
<1>7. /\ Messages(log'["ride.status.updated"]) = Messages(log["ride.status.updated"]) \cup {m}
      /\ Assigned' = Assigned /\ log'["ride.requested"] = log["ride.requested"]
  BY <1>4, <1>5, <1>6, LogGrows DEF Topics, Assigned
<1>8. Offset' = Offset + 1
  BY <1>5, TypeFacts DEF Offset, IInv, TypeOK
<1>9. TypeOK'
  <2>1. pos' \in [Topics -> Nat] /\ \A u \in Topics : pos[u] <= pos'[u] /\ pos'[u] <= Len(log[u])
    <3>a. pos' = [pos EXCEPT !["driver.assigned"] = Offset + 1] /\ Offset + 1 \in Nat /\ pos \in [Topics -> Nat]
      BY <1>5, <1>6 DEF Offset, IInv, TypeOK
    <3>1. pos' \in [Topics -> Nat] /\ \A u \in Topics \ {"driver.assigned"} : pos'[u] = pos[u]
      BY <3>a
    <3>2. \A u \in Topics : pos[u] \in Nat /\ pos[u] <= Len(log[u])
      BY DEF IInv, TypeOK
    <3>3. pos["driver.assigned"] <= pos'["driver.assigned"] /\ pos'["driver.assigned"] <= Len(log["driver.assigned"])
      BY <1>6, <1>8 DEF Offset, Assigned
    <3>4. ASSUME NEW u \in Topics PROVE pos[u] <= pos'[u] /\ pos'[u] <= Len(log[u])
      BY <3>1, <3>2, <3>3
    <3> QED BY <3>1, <3>4
  <2> QED BY <2>1, <1>4, <1>5, PublishType, TypeFacts, RowTypes DEF IInv, TypeOK
<1>10. RequestsOK'
  BY <1>5 DEF IInv, RequestsOK, RequestOK
<1>11. RequestedExist' /\ AssignedExists' /\ AssignOK'
  BY <1>5, <1>7, RowTypes DEF IInv, RequestedExist, AssignedExists, AssignOK, Assigned
<1>12. MatchAnnounced'
  <2>1. Assigned[Offset + 1].ride = assign.ride /\ Assigned[Offset + 1].driver = assign.driver
    BY <1>1 DEF NextMessage
  <2>2. ASSUME NEW i \in 1 .. (Offset + 1)
        PROVE  i \in committed["driver.assigned"].skipped \/ Announced(i)'
    <3>1. CASE i = Offset + 1
      <4>1. Announced(i)' = ([ride |-> assign.ride, driver |-> assign.driver, status |-> "matched", fare |-> NoFare]
                               \in Messages(log'["ride.status.updated"]))
        BY <1>7, <2>1, <3>1 DEF Announced, Assigned
      <4> QED BY <1>7, <4>1
    <3>2. CASE i \in 1 .. Offset /\ i \notin committed["driver.assigned"].skipped
      <4>1. Announced(i)
        BY <3>2 DEF IInv, MatchAnnounced, Handled, Offset
      <4> QED BY <4>1, <1>7 DEF Announced, Assigned
    <3> QED BY <3>1, <3>2, <1>6
  <2>3. committed' = committed
    BY <1>5
  <2>4. Handled(committed, pos, "driver.assigned")' = (1 .. (Offset + 1)) \ committed["driver.assigned"].skipped
    BY <2>3, <1>8 DEF Handled, Offset
  <2> QED BY <2>2, <2>4 DEF MatchAnnounced
<1>13. DriversOK'
  <2>0. Forgotten' = Forgotten
    BY <1>5, <1>7 DEF Forgotten, Assigned
  <2>1. ASSUME NEW r \in Rides
        PROVE  \E n \in 0 .. Len(Assigned) :
                   (Offset + 1 <= n \/ r \in Forgotten) /\ LastAssigned(r, n, rides[r].driver)
    <3>1. CASE r = assign.ride
      <4>1. LastAssigned(r, Offset + 1, assign.driver)
        BY <1>1, <3>1, HandledIsLast DEF IInv
      <4> QED BY <4>1, <1>1, <1>6, <3>1
    <3>2. CASE r # assign.ride
      <4>1. PICK n \in 0 .. Len(Assigned) : RowAfter(r, n)
        BY DEF IInv, DriversOK
      <4>2. CASE n = Offset
        <5>1. Assigned[Offset + 1].ride # r
          BY <1>1, <3>2 DEF NextMessage
        <5>2. LastAssigned(r, Offset + 1, rides[r].driver)
          <6>1. \A i \in (Offset + 1) .. (Offset + 1) : Assigned[i].ride # r
            BY <5>1, <1>6
          <6>2. Offset \in Nat /\ Offset + 1 \in Nat /\ n \in Offset .. (Offset + 1) /\ LastAssigned(r, n, rides[r].driver)
            BY <4>1, <4>2, <1>6 DEF RowAfter
          <6> QED BY <6>1, <6>2, StillLast
        <5> QED BY <5>2, <1>6
      <4>3. CASE n # Offset
        BY <4>1, <4>3, <1>6 DEF RowAfter
      <4> QED BY <4>2, <4>3
    <3> QED BY <3>1, <3>2
  <2>2. ASSUME NEW r \in Rides, NEW n, NEW d PROVE LastAssigned(r, n, d)' <=> LastAssigned(r, n, d)
    BY <1>7 DEF LastAssigned, Assigned
  <2>3. ASSUME NEW r \in Rides PROVE \E n \in 0 .. Len(Assigned') : RowAfter(r, n)'
    <3> PICK d : d = rides[r].driver
      OBVIOUS
    <3>1. PICK n \in 0 .. Len(Assigned) : (Offset + 1 <= n \/ r \in Forgotten) /\ LastAssigned(r, n, d)
      BY <2>1
    <3>2. LastAssigned(r, n, d)'
      BY <2>2, <3>1
    <3>3. RowAfter(r, n)'
      BY <2>0, <3>1, <3>2, <1>5, <1>8 DEF RowAfter
    <3> QED BY <3>1, <3>3, <1>7
  <2> QED BY <2>3 DEF DriversOK
<1> QED BY <1>9, <1>10, <1>11, <1>12, <1>13 DEF IInv

\* The consumer goes back to an event or jumps to the end, requests end; the
\* table and the log stay.
LEMMA StartsAnew ==
    ASSUME IInv, UNCHANGED <<rides, log>>, req' \in [Clients -> Request],
           \A u \in Clients : req'[u] = req[u] \/ req'[u] = NoRequest,
           \/ assign' = assign /\ pos' = pos
           \/ assign' = NoAssign,
           OffsetsOK(log, committed', pos', Topics),
           Moved(log, committed, pos, committed', pos', {"driver.assigned"}),
           faults' \in Nat
    PROVE  IInv'
<1>1. TypeOK'
  BY RowTypes DEF IInv, TypeOK, OffsetsOK
<1>2. Assigned' = Assigned /\ Offset' \in Nat /\ Offset \in Nat /\ Len(Assigned) \in Nat /\ Offset' <= Len(Assigned)
  BY <1>1, TypeFacts DEF Assigned, Offset, IInv, TypeOK
<1>3. RequestsOK'
  <2>1. RequestOK(NoRequest)'
    BY RowTypes DEF RequestOK, NoRequest
  <2>2. RowsGrow /\ \A u \in Clients : req'[u] = req[u] \/ RequestOK(req[u])'
    BY <2>1 DEF RequestOK, RowsGrow
  <2> QED BY <2>2, RequestsStay
<1>4. RequestedExist' /\ AssignedExists' /\ AssignOK'
  BY RowTypes DEF IInv, RequestedExist, AssignedExists, AssignOK, Assigned, Offset
<1>5. MatchAnnounced'
  <2>1. /\ {"driver.assigned"} \subseteq Topics /\ LogOK(log)
        /\ OffsetsOK(log, committed, pos, {"driver.assigned"})
        /\ OffsetsOK(log, committed', pos', {"driver.assigned"})
    BY TypeFacts DEF IInv, TypeOK, OffsetsOK
  <2>2. Handled(committed', pos', "driver.assigned") \subseteq Handled(committed, pos, "driver.assigned")
    BY <2>1, HandledAfter
  <2>3. ASSUME NEW i, Announced(i) PROVE Announced(i)'
    BY <2>3 DEF Announced
  <2> QED BY <2>2, <2>3 DEF IInv, MatchAnnounced, Handled
<1>6. DriversOK'
  <2>2. ASSUME NEW r, NEW n, NEW d PROVE LastAssigned(r, n, d)' <=> LastAssigned(r, n, d)
    BY DEF LastAssigned
  <2>3. ASSUME NEW r \in Rides
        PROVE  \E n \in 0 .. Len(Assigned) :
                   (Offset' <= n \/ r \in Forgotten') /\ LastAssigned(r, n, rides[r].driver)
    <3>0. PICK n \in 0 .. Len(Assigned) : RowAfter(r, n)
      BY DEF IInv, DriversOK
    <3>1. CASE /\ Offset' <= Offset
               /\ committed'["driver.assigned"].skipped = committed["driver.assigned"].skipped
      <4>1. Forgotten' = Forgotten
        BY <3>1 DEF Forgotten
      <4> QED BY <3>0, <3>1, <4>1, <1>2 DEF RowAfter
    <3>2. CASE /\ Offset' = Len(Assigned)
               /\ committed'["driver.assigned"].skipped
                    = committed["driver.assigned"].skipped \cup ((Offset + 1) .. Len(Assigned))
      <4>1. CASE r \in Forgotten'
        BY <3>0, <4>1 DEF RowAfter
      <4>2. CASE r \notin Forgotten'
        <5>1. r \notin Forgotten /\ \A i \in (Offset + 1) .. Len(Assigned) : Assigned[i].ride # r
          BY <3>2, <4>2 DEF Forgotten, Assigned
        <5>2. n \in Offset .. Len(Assigned) /\ LastAssigned(r, n, rides[r].driver)
          BY <3>0, <5>1, <1>2 DEF RowAfter
        <5>3. LastAssigned(r, Len(Assigned), rides[r].driver)
          BY <5>1, <5>2, <1>2, StillLast
        <5> QED BY <3>2, <5>3, <1>2
      <4> QED BY <4>1, <4>2
    <3> QED BY <3>1, <3>2 DEF Moved, Offset, Assigned
  <2>4. ASSUME NEW r \in Rides PROVE \E n \in 0 .. Len(Assigned') : RowAfter(r, n)'
    <3> PICK d : d = rides[r].driver
      OBVIOUS
    <3>1. PICK n \in 0 .. Len(Assigned) : (Offset' <= n \/ r \in Forgotten') /\ LastAssigned(r, n, d)
      BY <2>3
    <3>2. LastAssigned(r, n, d)'
      BY <2>2, <3>1
    <3>3. RowAfter(r, n)'
      BY <3>1, <3>2 DEF RowAfter
    <3> QED BY <1>2, <3>1, <3>3
  <2> QED BY <2>4 DEF DriversOK
<1> QED BY <1>1, <1>3, <1>4, <1>5, <1>6 DEF IInv

LEMMA OffsetsStay ==
    ASSUME TypeOK, UNCHANGED <<pos, committed>>
    PROVE  OffsetsOK(log, committed', pos', Topics) /\ Moved(log, committed, pos, committed', pos', {"driver.assigned"})
<1>1. \A u \in Topics : pos[u] \in Nat
  BY DEF TypeOK
<1> QED BY <1>1, TypeFacts DEF TypeOK, OffsetsOK, Moved

LEMMA RequestFailsInv ==
    ASSUME IInv, NEW s \in Clients, RequestFails(s)
    PROVE  IInv'
<1>1. req' \in [Clients -> Request] /\ \A u \in Clients : req'[u] = req[u] \/ req'[u] = NoRequest
  BY RespondFields DEF RequestFails, IInv, TypeOK
<1>2. UNCHANGED <<rides, assign, log, pos, committed>> /\ faults' \in Nat
  BY DEF RequestFails, Fault, IInv, TypeOK
<1> QED BY <1>1, <1>2, OffsetsStay, StartsAnew DEF IInv

LEMMA HandlerThrowsInv ==
    ASSUME IInv, HandlerThrows
    PROVE  IInv'
<1>1. UNCHANGED <<rides, req, log, pos, committed>> /\ assign' = NoAssign /\ faults' \in Nat
      /\ req \in [Clients -> Request]
  BY DEF HandlerThrows, Fault, IInv, TypeOK
<1> QED BY <1>1, OffsetsStay, StartsAnew DEF IInv

\* The ways to resume.
LEMMA ResumeFacts ==
    ASSUME TypeOK, Resume
    PROVE  OffsetsOK(log, committed', pos', Topics) /\ Moved(log, committed, pos, committed', pos', {"driver.assigned"})
<1> DEFINE mine == {"driver.assigned"}
<1>1. PICK k : /\ k \in Rejoins(log, committed, pos, mine)
               /\ pos' = PosAfter(k, pos) /\ committed' = CommittedAfter(k, committed)
  BY DEF Resume
<1>2. mine \subseteq Topics /\ LogOK(log) /\ OffsetsOK(log, committed, pos, mine)
      /\ OffsetsOK(log, committed, pos, Topics)
  BY TypeFacts DEF TypeOK, OffsetsOK
<1>3. OffsetsOK(log, committed', pos', mine) /\ Moved(log, committed, pos, committed', pos', mine)
  BY <1>1, <1>2, RejoinsFacts
<1>4. ASSUME NEW t \in Topics
      PROVE  /\ committed'[t].from <= pos'[t] + 1 /\ pos'[t] <= Len(log[t])
             /\ \A i \in committed'[t].skipped : 0 < i /\ i < committed'[t].from
  <2>1. CASE t \in mine
    BY <1>3, <2>1 DEF OffsetsOK
  <2>2. CASE t \notin mine
    BY <1>2, <1>3, <2>2 DEF OffsetsOK, Moved
  <2> QED BY <2>1, <2>2
<1> QED BY <1>3, <1>4 DEF OffsetsOK

LEMMA CrashInv ==
    ASSUME IInv, Crash
    PROVE  IInv'
<1>1. /\ Resume /\ assign' = NoAssign /\ UNCHANGED <<rides, log>> /\ faults' \in Nat
      /\ req' = [s \in Clients |-> NoRequest]
  BY DEF Crash, Fault, IInv, TypeOK
<1>2. req' \in [Clients -> Request] /\ \A u \in Clients : req'[u] = NoRequest
  BY <1>1, RowTypes
<1> QED BY <1>1, <1>2, ResumeFacts, StartsAnew DEF IInv

LEMMA StutterInv ==
    ASSUME IInv, UNCHANGED vars
    PROVE  IInv'
<1>1. UNCHANGED <<rides, req, assign, log, pos, committed, faults>>
  BY DEF vars
<1>2. req' \in [Clients -> Request] /\ faults' \in Nat
  BY <1>1 DEF IInv, TypeOK
<1> QED BY <1>1, <1>2, OffsetsStay, StartsAnew DEF IInv

\* IInv is inductive.
THEOREM StepInv == IInv /\ [Next]_vars => IInv'
<1> SUFFICES ASSUME IInv, [Next]_vars PROVE IInv'
  OBVIOUS
<1>1. ASSUME NEW s \in Clients, Requests(s) PROVE IInv'
  BY <1>1, RequestRideInv, UpdateStatusInv DEF Requests
<1>2. ASSUME NEW s \in Clients, RequestStep(s) PROVE IInv'
  BY <1>2, PublishRequestedInv, WriteStatusInv, PublishStatusInv DEF RequestStep
<1>3. ASSUME NEW s \in Clients, RequestFails(s) PROVE IInv'
  BY <1>3, RequestFailsInv
<1>4. CASE AssignStep
  BY <1>4, AssignDriverInv, AnnounceMatchInv DEF AssignStep
<1>5. CASE HandlerThrows
  BY <1>5, HandlerThrowsInv
<1>6. CASE Crash
  BY <1>6, CrashInv
<1>7. ASSUME NEW m \in AssignedEvent, DriverAssigned(m) PROVE IInv'
  BY <1>7, DriverAssignedInv
<1>8. CASE UNCHANGED vars
  BY <1>8, StutterInv
<1> QED BY <1>1, <1>2, <1>3, <1>4, <1>5, <1>6, <1>7, <1>8 DEF Next

THEOREM Invariance == Spec => []IInv
<1>1. Init => IInv
  BY InitInv
<1>2. IInv /\ [Next]_vars => IInv'
  BY StepInv
<1> QED BY <1>1, <1>2, PTL DEF Spec

\* AssignedExists: the consumer never meets an assignment of a ride that was
\* not saved, at which getRide would throw and be retried for ever.
THEOREM AssignedRidesExist == Spec => []AssignedExists
<1>1. IInv => AssignedExists
  BY DEF IInv
<1> QED BY <1>1, Invariance, PTL

\* MatchAnnounced: no assignment the consumer has moved past goes unannounced,
\* but for those that a group without an offset has jumped over.
THEOREM MatchesAnnounced == Spec => []MatchAnnounced
<1>1. IInv => MatchAnnounced
  BY DEF IInv
<1> QED BY <1>1, Invariance, PTL

LEMMA IInvLast == IInv => DriverIsLastAssigned
<1> SUFFICES ASSUME IInv, Drained(log, pos, {"driver.assigned"}), NEW r \in Rides \ Forgotten
             PROVE  LastAssigned(r, Len(Assigned), rides[r].driver)
  BY DEF DriverIsLastAssigned, Assigned
<1>1. Offset = Len(Assigned) /\ Len(Assigned) \in Nat
  BY TypeFacts DEF Drained, Offset, Assigned, IInv
<1>2. PICK n \in 0 .. Len(Assigned) : RowAfter(r, n)
  BY DEF IInv, DriversOK
<1>3. n = Len(Assigned)
  BY <1>1, <1>2 DEF RowAfter
<1> QED BY <1>2, <1>3 DEF RowAfter

\* DriverIsLastAssigned: once the consumer is at the end of its topic, neither a
\* crash nor a retry nor a client's update has left an earlier driver in a ride's
\* row, unless the group has jumped over an assignment of that ride.
THEOREM LastDriverStays == Spec => []DriverIsLastAssigned
  BY IInvLast, Invariance, PTL

-----------------------------------------------------------------------------
(* The price of an unannounced ride.                                       *)

Budget == IsFiniteSet(Unannounced) /\ UnannouncedCostFaults

BInv == IInv /\ Budget

LEMMA ClientsFinite == IsFiniteSet(Clients) /\ Cardinality(Clients) \in Nat
  BY RideAssumption, FS_CardinalityType

LEMMA TimesMonotone ==
    ASSUME NEW a \in Nat, NEW b \in Nat, NEW n \in Nat, a <= b
    PROVE  a * n <= b * n
<1>1. PICK k \in Nat : b = a + k
  <2>1. b - a \in Nat /\ b = a + (b - a)
    OBVIOUS
  <2> QED BY <2>1
<1>2. (a + k) * n = a * n + k * n /\ a * n \in Nat /\ k * n \in Nat
  OBVIOUS
<1> QED BY <1>1, <1>2

\* No fault, no new unannounced ride.
LEMMA BudgetKept ==
    ASSUME BInv, Unannounced' \subseteq Unannounced, faults' \in Nat, faults <= faults'
    PROVE  Budget'
<1>1. /\ IsFiniteSet(Unannounced') /\ Cardinality(Unannounced') <= Cardinality(Unannounced)
      /\ Cardinality(Unannounced') \in Nat /\ Cardinality(Unannounced) \in Nat
  BY FS_Subset, FS_CardinalityType DEF BInv, Budget
<1> PICK n : n = Cardinality(Clients)
  OBVIOUS
<1>2. n \in Nat /\ faults \in Nat /\ faults' \in Nat
  BY ClientsFinite DEF BInv, IInv, TypeOK
<1>3. faults * n <= faults' * n
  BY <1>2, TimesMonotone
<1>4. Cardinality(Unannounced) <= faults * n /\ faults * n \in Nat /\ faults' * n \in Nat
  BY <1>2 DEF BInv, Budget, UnannouncedCostFaults
<1>5. Cardinality(Unannounced') <= faults' * n
  BY <1>1, <1>3, <1>4
<1> QED BY <1>1, <1>5 DEF Budget, UnannouncedCostFaults

\* A fault leaves at most one unannounced ride per request in progress.
LEMMA BudgetSpent ==
    ASSUME BInv, faults' = faults + 1,
           Unannounced' \subseteq Unannounced \cup {req[s].ride : s \in Clients}
    PROVE  Budget'
<1> DEFINE G == {req[s].ride : s \in Clients}
<1>1. IsFiniteSet(G) /\ Cardinality(G) <= Cardinality(Clients)
  <2> DEFINE f == [s \in Clients |-> req[s].ride]
  <2>1. f \in Surjection(Clients, G)
    BY DEF Surjection
  <2> QED BY <2>1, ClientsFinite, FS_Surjection
<1> HIDE DEF G
<1>2. /\ IsFiniteSet(Unannounced \cup G)
      /\ Cardinality(Unannounced \cup G) = Cardinality(Unannounced) + Cardinality(G) - Cardinality(Unannounced \cap G)
      /\ Cardinality(Unannounced \cap G) \in Nat
      /\ Cardinality(Unannounced) \in Nat /\ Cardinality(G) \in Nat
  BY <1>1, FS_Union, FS_Intersection, FS_CardinalityType DEF BInv, Budget
<1>3. /\ IsFiniteSet(Unannounced') /\ Cardinality(Unannounced') <= Cardinality(Unannounced \cup G)
      /\ Cardinality(Unannounced') \in Nat
  BY <1>2, FS_Subset, FS_CardinalityType DEF G
<1> PICK n : n = Cardinality(Clients)
  OBVIOUS
<1>4. n \in Nat /\ faults \in Nat /\ Cardinality(Unannounced) <= faults * n
  BY ClientsFinite DEF BInv, IInv, TypeOK, Budget, UnannouncedCostFaults
<1>5. (faults + 1) * n = faults * n + n /\ faults * n \in Nat
  BY <1>4
<1>6. Cardinality(Unannounced') <= (faults + 1) * n
  BY <1>1, <1>2, <1>3, <1>4, <1>5
<1> QED BY <1>3, <1>6 DEF Budget, UnannouncedCostFaults

\* A step that saves no ride and ends no request before its announcement.
LEMMA QuietBudget ==
    ASSUME BInv, IInv', faults' = faults \/ faults' = faults + 1,
           \A r \in Rides : rides'[r].exists => rides[r].exists,
           Messages(log["ride.requested"]) \subseteq Messages(log'["ride.requested"]),
           \A s \in Clients : req[s].pc = "publishRequested" => req'[s] = req[s]
    PROVE  Budget'
<1>1. Unannounced' \subseteq Unannounced
  BY DEF Unannounced
<1>2. faults' \in Nat /\ faults <= faults'
  BY DEF BInv, IInv, TypeOK
<1> QED BY <1>1, <1>2, BudgetKept

\* Requests end, and the rides of those that were to be announced stay behind.
LEMMA LostBudget ==
    ASSUME BInv, faults' = faults + 1, UNCHANGED <<rides, log>>,
           \A s \in Clients : req'[s] = req[s] \/ req'[s] = NoRequest
    PROVE  Budget'
<1>1. ASSUME NEW r \in Unannounced', r \notin Unannounced PROVE r \in {req[s].ride : s \in Clients}
  BY <1>1 DEF Unannounced
<1> QED BY <1>1, BudgetSpent

LEMMA RequestBudget ==
    ASSUME BInv, IInv', NEW s \in Clients, Requests(s) \/ RequestStep(s)
    PROVE  Budget'
<1>1. ASSUME NEW r \in Rides, NEW pickup \in Pickups, requestRide(s, r, pickup) PROVE Budget'
  <2> PICK g : g = [NoRequest EXCEPT !.pc = "publishRequested", !.ride = r, !.pickup = pickup]
    OBVIOUS
  <2>1. g.pc = "publishRequested" /\ g.ride = r
    BY DEF NoRequest
  <2>2. /\ req[s].pc = "idle" /\ req'[s] = g /\ \A t \in Clients \ {s} : req'[t] = req[t]
        /\ \A x \in Rides \ {r} : rides'[x] = rides[x]
        /\ UNCHANGED <<log, faults>>
    BY <1>1 DEF requestRide, BInv, IInv, TypeOK
  <2>3. r \notin Unannounced'
    BY <2>1, <2>2 DEF Unannounced
  <2>4. ASSUME NEW x \in Rides \ {r}, x \in Unannounced' PROVE x \in Unannounced
    <3>1. rides[x].exists /\ \A m \in Messages(log["ride.requested"]) : m.ride # x
      BY <2>2, <2>4 DEF Unannounced
    <3>2. ASSUME NEW t \in Clients, req[t].pc = "publishRequested" PROVE req[t].ride # x
      BY <2>2, <2>4, <3>2 DEF Unannounced
    <3> QED BY <3>1, <3>2 DEF Unannounced
  <2>5. Unannounced' \subseteq Unannounced
    BY <2>3, <2>4 DEF Unannounced
  <2>6. faults' \in Nat /\ faults <= faults'
    BY <2>2 DEF BInv, IInv, TypeOK
  <2> QED BY <2>5, <2>6, BudgetKept
<1>2. ASSUME NEW r \in Rides, NEW status \in RideStatus, NEW fare \in Fares \cup {NoFare},
             updateStatus(s, r, status, fare)
      PROVE  Budget'
  <2>1. /\ req[s].pc = "idle" /\ \A t \in Clients \ {s} : req'[t] = req[t]
        /\ UNCHANGED <<rides, log, faults>>
    BY <1>2 DEF updateStatus, BInv, IInv, TypeOK
  <2> QED BY <2>1, QuietBudget
<1>3. CASE PublishRequested(s)
  <2> PICK m : m = [ride |-> req[s].ride, pickup |-> req[s].pickup]
    OBVIOUS
  <2>1. req[s] \in Request /\ req[s].ride \in Rides /\ req[s].pickup \in Pickups
    BY <1>3 DEF BInv, IInv, TypeOK, PublishRequested, RequestsOK, RequestOK
  <2>2. Carries("ride.requested", m) /\ m.ride = req[s].ride
    BY <2>1 DEF RequestEvent, Carries
  <2>3. log' = Published(log, "ride.requested", m) /\ UNCHANGED <<rides, faults>>
        /\ \A t \in Clients \ {s} : req'[t] = req[t]
    BY <1>3, RespondFields DEF PublishRequested, BInv, IInv, TypeOK
  <2>4. Messages(log'["ride.requested"]) = Messages(log["ride.requested"]) \cup {m}
    <3>1. LogOK(log) /\ "ride.requested" \in Topics
      BY DEF BInv, IInv, TypeOK, Topics
    <3> QED BY <2>2, <2>3, <3>1, LogGrows
  <2>5. ASSUME NEW x \in Unannounced' PROVE x \in Unannounced
    <3>1. x \in Rides /\ rides[x].exists /\ x # req[s].ride
          /\ \A n \in Messages(log["ride.requested"]) : n.ride # x
      BY <2>2, <2>3, <2>4 DEF Unannounced
    <3>2. ASSUME NEW t \in Clients, req[t].pc = "publishRequested" PROVE req[t].ride # x
      BY <2>3, <3>1, <3>2 DEF Unannounced
    <3> QED BY <3>1, <3>2 DEF Unannounced
  <2>6. faults' \in Nat /\ faults <= faults'
    BY <2>3 DEF BInv, IInv, TypeOK
  <2> QED BY <2>5, <2>6, BudgetKept
<1>4. CASE WriteStatus(s)
  <2>1. /\ req[s].pc = "write" /\ UNCHANGED <<log, faults>> /\ rides \in [Rides -> Ride]
        /\ \A t \in Clients \ {s} : req'[t] = req[t]
    BY <1>4 DEF WriteStatus, BInv, IInv, TypeOK
  <2>2. ASSUME NEW x \in Rides PROVE rides'[x].exists = rides[x].exists
    <3>1. rides[x] \in Ride
      BY <2>1
    <3> QED BY <1>4, <2>1, <3>1 DEF WriteStatus, Ride
  <2> QED BY <2>1, <2>2, QuietBudget
<1>5. CASE PublishStatus(s)
  <2> PICK m : m = [ride |-> req[s].ride, driver |-> req[s].read.driver, status |-> req[s].status,
                    fare |-> PublishedFare(req[s].read.fare, req[s].fare)]
    OBVIOUS
  <2> PICK t : t = TopicOf(req[s].status)
    OBVIOUS
  <2>1. /\ req[s].pc = "publishStatus" /\ log' = Published(log, t, m) /\ UNCHANGED <<rides, faults>>
        /\ \A u \in Clients \ {s} : req'[u] = req[u]
    BY <1>5, RespondFields DEF PublishStatus, BInv, IInv, TypeOK
  <2>2. t \in Topics /\ t # "ride.requested" /\ "ride.requested" \in Topics
    BY DEF TopicOf, Topics
  <2>3. log'["ride.requested"] = log["ride.requested"]
    BY <2>1, <2>2, PublishedTopics DEF BInv, IInv, TypeOK
  <2> QED BY <2>1, <2>3, QuietBudget
<1> QED BY <1>1, <1>2, <1>3, <1>4, <1>5 DEF Requests, RequestStep

LEMMA AssignBudget ==
    ASSUME BInv, IInv', AssignStep \/ \E m \in AssignedEvent : DriverAssigned(m)
    PROVE  Budget'
<1>1. /\ LogOK(log) /\ rides \in [Rides -> Ride]
      /\ "driver.assigned" \in Topics /\ "ride.status.updated" \in Topics
      /\ "ride.requested" \in Topics \ {"driver.assigned"} /\ "ride.requested" \in Topics \ {"ride.status.updated"}
  BY DEF BInv, IInv, TypeOK, Topics
<1>2. CASE AssignDriver
  <2>1. UNCHANGED <<req, log, faults>>
    BY <1>2 DEF AssignDriver
  <2>2. ASSUME NEW x \in Rides PROVE rides'[x].exists = rides[x].exists
    <3>1. rides[x] \in Ride
      BY <1>1
    <3> QED BY <1>1, <1>2, <3>1 DEF AssignDriver, Ride
  <2> QED BY <2>1, <2>2, QuietBudget
<1>3. CASE AnnounceMatch
  <2> PICK m : m = [ride |-> assign.ride, driver |-> assign.driver, status |-> "matched", fare |-> NoFare]
    OBVIOUS
  <2>a. UNCHANGED <<rides, req, faults>> /\ log' = Published(log, "ride.status.updated", m)
    BY <1>3 DEF AnnounceMatch
  <2>1. UNCHANGED <<rides, req, faults>> /\ log'["ride.requested"] = log["ride.requested"]
    BY <1>1, <2>a, PublishedTopics
  <2> QED BY <2>1, QuietBudget
<1>4. ASSUME NEW m \in AssignedEvent, DriverAssigned(m) PROVE Budget'
  <2>a. UNCHANGED <<rides, req, faults>> /\ log' = Published(log, "driver.assigned", m)
    BY <1>4 DEF DriverAssigned
  <2>1. UNCHANGED <<rides, req, faults>> /\ log'["ride.requested"] = log["ride.requested"]
    BY <1>1, <2>a, PublishedTopics
  <2> QED BY <2>1, QuietBudget
<1> QED BY <1>2, <1>3, <1>4 DEF AssignStep

\* BInv is inductive: only a fault can leave a ride unannounced.
THEOREM StepBudget == BInv /\ [Next]_vars => BInv'
<1> SUFFICES ASSUME BInv, [Next]_vars PROVE Budget'
  BY StepInv DEF BInv
<1>1. IInv'
  BY StepInv DEF BInv
<1>2. ASSUME NEW s \in Clients, Requests(s) \/ RequestStep(s) PROVE Budget'
  BY <1>1, <1>2, RequestBudget
<1>3. ASSUME NEW s \in Clients, RequestFails(s) PROVE Budget'
  <2>1. /\ faults' = faults + 1 /\ UNCHANGED <<rides, log>>
        /\ \A t \in Clients : req'[t] = req[t] \/ req'[t] = NoRequest
    BY <1>3, RespondFields DEF RequestFails, Fault, BInv, IInv, TypeOK
  <2> QED BY <2>1, LostBudget
<1>4. CASE AssignStep \/ \E m \in AssignedEvent : DriverAssigned(m)
  BY <1>1, <1>4, AssignBudget
<1>5. CASE HandlerThrows
  BY <1>5, LostBudget DEF HandlerThrows, Fault
<1>6. CASE Crash
  <2>1. /\ faults' = faults + 1 /\ UNCHANGED <<rides, log>>
        /\ \A t \in Clients : req'[t] = NoRequest
    BY <1>6 DEF Crash, Fault
  <2> QED BY <2>1, LostBudget
<1>7. CASE UNCHANGED vars
  BY <1>1, <1>7, QuietBudget DEF vars
<1> QED BY <1>2, <1>3, <1>4, <1>5, <1>6, <1>7 DEF Next

\* UnannouncedCostFaults: a saved ride that nobody announces was left by a
\* request that a fault ended between its save and its publish.
THEOREM UnannouncedPaid == Spec => []UnannouncedCostFaults
<1>1. Init => BInv
  <2> SUFFICES ASSUME Init PROVE BInv
    OBVIOUS
  <2>1. \A r \in Rides : ~rides[r].exists
    BY DEF Init, NoRow
  <2>2. Unannounced = {} /\ faults = 0
    BY <2>1 DEF Unannounced, Init
  <2>3. Cardinality(Unannounced) = 0 /\ IsFiniteSet(Unannounced)
    BY <2>2, FS_EmptySet
  <2>4. 0 * Cardinality(Clients) = 0
    BY ClientsFinite
  <2> QED BY <2>2, <2>3, <2>4, InitInv DEF BInv, Budget, UnannouncedCostFaults
<1>2. BInv /\ [Next]_vars => BInv'
  BY StepBudget
<1>3. BInv => UnannouncedCostFaults
  BY DEF BInv, Budget
<1> QED BY <1>1, <1>2, <1>3, PTL DEF Spec

-----------------------------------------------------------------------------
(* The life of a ride, for clients that wait and services that do not fail. *)

EndTopics == {"ride.completed", "ride.status.updated"}
EndStatus == {"completed", "cancelled"}

\* The events that driver-service acts on.
Tells(t, m) == t \in {"driver.assigned", "ride.completed"} \/ (t = "ride.status.updated" /\ m.status = "cancelled")

\* One of the first n events of topic t is one of these, about ride r.
Among(t, n, r) == \E i \in 1 .. n : Tells(t, log[t][i]) /\ log[t][i].ride = r

\* How many events of topic t have had their effect: an assignment once it is in
\* the table, an end once it is in the pool as well.
Done(t) ==
    IF djob.topic = t /\ (djob.pc = "statusPublish" \/ (djob.pc = "statusRedis" /\ t = "driver.assigned"))
    THEN dpos[t] + 1 ELSE dpos[t]

Given(r, d) == \E i \in 1 .. Len(Assigned) : Assigned[i].ride = r /\ Assigned[i].driver = d
Started(r) == Among("driver.assigned", Done("driver.assigned"), r)
Ended(r) == \E t \in EndTopics : Among(t, Len(log[t]), r)
Freed(r) == \E t \in EndTopics : Among(t, Done(t), r)

\* The rides that keep driver d from others.
Work(d) == {r \in Rides : Given(r, d) /\ ~Freed(r)}

FlowTypes ==
    /\ drivers \in [Drivers -> D!Driver] /\ pool \in [Drivers -> {Home, NoPlace}]
    /\ djob \in D!Job /\ dpos \in [Topics -> Nat] /\ \A t \in Topics : dpos[t] <= Len(log[t])
    /\ match \in [{Matcher} -> M!Match] /\ owner = [t \in M!MatchingTopics |-> Matcher]
    /\ mpos \in [Topics -> Nat] /\ mpos["ride.requested"] <= Len(log["ride.requested"])
    /\ dfaults \in Nat /\ rejoins \in Nat /\ mfaults \in Nat

\* Every driver may work, and nobody asks driver-service for anything.
AllFit ==
    /\ \A d \in Drivers : drivers[d].exists /\ drivers[d].hasPhoto /\ drivers[d].loc = Home
    /\ \A s \in Slots : dreq[s].pc = "idle"
    /\ log["user.photo.updated"] = << >> /\ log["driver.declined"] = << >>

RequestedOnce ==
    LET asked == log["ride.requested"] IN
    /\ \A i, j \in 1 .. Len(asked) : asked[i].ride = asked[j].ride => i = j
    /\ \A i \in 1 .. Len(Assigned) : \E j \in 1 .. mpos["ride.requested"] : asked[j].ride = Assigned[i].ride
AssignedOnce == \A i, j \in 1 .. Len(Assigned) : Assigned[i].ride = Assigned[j].ride => i = j
EndsOnce ==
    \A t, u \in EndTopics : \A i \in 1 .. Len(log[t]), j \in 1 .. Len(log[u]) :
        Tells(t, log[t][i]) /\ Tells(u, log[u][j]) /\ log[t][i].ride = log[u][j].ride => t = u /\ i = j

MatchOK ==
    LET q == match[Matcher] IN
    q.pc # "idle" =>
        /\ q.topic = "ride.requested" /\ mpos["ride.requested"] < Len(log["ride.requested"])
        /\ q.ride = log["ride.requested"][mpos["ride.requested"] + 1].ride
        /\ q.pc = "publish" => q.driver \in Drivers

ClientOK(r) ==
    LET q == req[r] IN
    /\ q.pc # "idle" => q.ride = r
    /\ q.pc = "publishRequested" => \A i \in 1 .. Len(log["ride.requested"]) : log["ride.requested"][i].ride # r
    /\ q.pc \in {"write", "publishStatus"} =>
         /\ Given(r, q.read.driver) /\ Started(r) /\ ~Ended(r)
         /\ rides[r].driver # NoDriver
    /\ q.pc = "write" => rides[r].status \notin EndStatus
    /\ q.pc = "publishStatus" => rides[r].status = q.status

RowOK(r) == rides[r].status \in EndStatus => Ended(r) \/ req[r].pc = "publishStatus"

EndsOK ==
    \A t \in EndTopics : \A i \in 1 .. Len(log[t]) :
        LET m == log[t][i] IN
        Tells(t, m) => /\ Given(m.ride, m.driver) /\ Started(m.ride)
                       /\ rides[m.ride].status \in EndStatus /\ rides[m.ride].driver # NoDriver

NotYet ==
    \A i \in (Offset + 1) .. Len(Assigned) :
        (i = Offset + 1 /\ assign.pc = "announce") \/ rides[Assigned[i].ride].driver = NoDriver

WorkJobOK ==
    djob.pc # "idle" =>
        LET t == djob.topic
            m == log[t][dpos[t] + 1] IN
        /\ t \in {"driver.assigned"} \cup EndTopics /\ dpos[t] < Len(log[t]) /\ Tells(t, m)
        /\ djob.driver \in Drivers /\ m.driver = djob.driver
        /\ djob.loc = Home /\ djob.pc # "photoWrite"
        /\ djob.status = (IF t = "driver.assigned" THEN "busy" ELSE "available")
        /\ djob.pc = "statusRedis" => drivers[djob.driver].status = djob.status

Placed ==
    \A d \in Drivers :
        /\ pool[d] # NoPlace => Work(d) = {} /\ d \notin Held
        /\ d \in Held => Work(d) = {}
        /\ \A r1, r2 \in Work(d) : r1 = r2

StatusOK ==
    \A d \in Drivers :
        /\ drivers[d].status = "busy" => \E r \in Work(d) : Started(r)
        /\ \A r \in Work(d) : Started(r) =>
             \/ drivers[d].status = "busy"
             \/ djob.pc = "statusRedis" /\ djob.status = "available" /\ djob.driver = d

ClientsOK == \A r \in Rides : ClientOK(r) /\ RowOK(r)
OnceEach == RequestedOnce /\ AssignedOnce /\ EndsOnce
RideSide == ClientsOK /\ EndsOK /\ NotYet
DriverSide == WorkJobOK /\ Placed /\ StatusOK

CalmInv == IInv /\ FlowTypes /\ AllFit /\ OnceEach /\ MatchOK /\ RideSide /\ DriverSide

LEMMA FlowLens ==
    ASSUME IInv, FlowTypes
    PROVE  /\ LogOK(log)
           /\ \A t \in Topics : Len(log[t]) \in Nat /\ dpos[t] \in Nat /\ dpos[t] <= Len(log[t])
           /\ EndTopics \subseteq Topics /\ "driver.assigned" \in Topics /\ "ride.requested" \in Topics
<1>1. LogOK(log)
  BY DEF IInv, TypeOK
<1>2. \A t \in Topics : Len(log[t]) \in Nat
  BY <1>1 DEF LogOK, Topics
<1> QED BY <1>1, <1>2 DEF FlowTypes, EndTopics, Topics

LEMMA AssignedTypes ==
    ASSUME IInv
    PROVE  \A i \in 1 .. Len(Assigned) :
               Assigned[i] \in AssignedEvent /\ Assigned[i].ride \in Rides /\ Assigned[i].driver \in Drivers
<1>1. \A i \in 1 .. Len(Assigned) : Assigned[i] \in AssignedEvent
  BY TypeFacts DEF IInv
<1> QED BY <1>1 DEF AssignedEvent

LEMMA DoneBounds ==
    ASSUME IInv, FlowTypes, WorkJobOK, NEW t \in Topics
    PROVE  Done(t) \in Nat /\ dpos[t] <= Done(t) /\ Done(t) <= Len(log[t])
<1>1. CASE Done(t) = dpos[t]
  BY <1>1, FlowLens
<1>2. CASE Done(t) # dpos[t]
  <2>1. djob.topic = t /\ djob.pc # "idle" /\ Done(t) = dpos[t] + 1
    BY <1>2 DEF Done
  <2>2. dpos[t] < Len(log[t])
    BY <2>1 DEF WorkJobOK
  <2> QED BY <2>1, <2>2, FlowLens
<1> QED BY <1>1, <1>2

\* What an event behind the others changes.
LEMMA PublishView ==
    ASSUME IInv, FlowTypes, WorkJobOK, NEW t \in Topics, NEW m, Carries(t, m),
           log' = Published(log, t, m), UNCHANGED <<dpos, djob>>
    PROVE  /\ \A r : (Started(r)' <=> Started(r)) /\ (Freed(r)' <=> Freed(r))
           /\ \A r, d : Given(r, d)' <=> Given(r, d) \/ (t = "driver.assigned" /\ m.ride = r /\ m.driver = d)
           /\ \A r : Ended(r)' <=> Ended(r) \/ (t \in EndTopics /\ Tells(t, m) /\ m.ride = r)
           /\ \A u \in Topics : Done(u)' = Done(u)
<1>1. /\ Len(log'[t]) = Len(log[t]) + 1 /\ log'[t][Len(log[t]) + 1] = m
      /\ \A i \in 1 .. Len(log[t]) : log'[t][i] = log[t][i]
      /\ \A u \in Topics \ {t} : log'[u] = log[u]
  BY FlowLens, PublishedFacts
<1>2. \A u \in Topics : Done(u)' = Done(u)
  BY DEF Done
<1>3. \A u \in Topics : \A i \in 1 .. Len(log[u]) : log'[u][i] = log[u][i]
  BY <1>1
<1>4. ASSUME NEW u \in Topics, NEW i \in 1 .. Done(u) PROVE log'[u][i] = log[u][i]
  <2>1. Done(u) \in Nat /\ Len(log[u]) \in Nat /\ Done(u) <= Len(log[u])
    BY DoneBounds, FlowLens
  <2> QED BY <1>3, <2>1
<1>5. ASSUME NEW r PROVE (Started(r)' <=> Started(r)) /\ (Freed(r)' <=> Freed(r))
  <2>1. ASSUME NEW u \in Topics PROVE Among(u, Done(u), r)' <=> Among(u, Done(u), r)
    BY <1>2, <1>4 DEF Among
  <2> QED BY <2>1, FlowLens DEF Started, Freed
<1>6. ASSUME NEW r, NEW d PROVE Given(r, d)' <=> Given(r, d) \/ (t = "driver.assigned" /\ m.ride = r /\ m.driver = d)
  <2>1. CASE t = "driver.assigned"
    <3>1. Len(Assigned) \in Nat /\ Len(Assigned') = Len(Assigned) + 1 /\ Assigned'[Len(Assigned) + 1] = m
          /\ \A i \in 1 .. Len(Assigned) : Assigned'[i] = Assigned[i]
      BY <1>1, <2>1, FlowLens DEF Assigned
    <3>2. \A i \in 1 .. Len(Assigned') : i \in 1 .. Len(Assigned) \/ i = Len(Assigned) + 1
      BY <3>1
    <3>3. Len(Assigned) + 1 \in 1 .. Len(Assigned') /\ \A i \in 1 .. Len(Assigned) : i \in 1 .. Len(Assigned')
      BY <3>1
    <3> QED BY <2>1, <3>1, <3>2, <3>3 DEF Given
  <2>2. CASE t # "driver.assigned"
    BY <1>1, <2>2, FlowLens DEF Given, Assigned
  <2> QED BY <2>1, <2>2
<1>7. ASSUME NEW r PROVE Ended(r)' <=> Ended(r) \/ (t \in EndTopics /\ Tells(t, m) /\ m.ride = r)
  <2>1. ASSUME NEW u \in EndTopics, u # t PROVE Among(u, Len(log[u]), r)' <=> Among(u, Len(log[u]), r)
    BY <1>1, <2>1, FlowLens DEF Among
  <2>2. ASSUME t \in EndTopics
        PROVE  Among(t, Len(log[t]), r)' <=> Among(t, Len(log[t]), r) \/ (Tells(t, m) /\ m.ride = r)
    <3>1. Len(log[t]) \in Nat
      BY FlowLens
    <3>2. \A i \in 1 .. Len(log'[t]) : i \in 1 .. Len(log[t]) \/ i = Len(log[t]) + 1
      BY <1>1, <3>1
    <3>3. Len(log[t]) + 1 \in 1 .. Len(log'[t]) /\ \A i \in 1 .. Len(log[t]) : i \in 1 .. Len(log'[t])
      BY <1>1, <3>1
    <3> QED BY <1>1, <3>2, <3>3 DEF Among
  <2> QED BY <2>1, <2>2 DEF Ended
<1> QED BY <1>2, <1>5, <1>6, <1>7

LEMMA SameView ==
    ASSUME UNCHANGED log, \A u \in Topics : Done(u)' = Done(u)
    PROVE  /\ \A r : (Started(r)' <=> Started(r)) /\ (Freed(r)' <=> Freed(r)) /\ (Ended(r)' <=> Ended(r))
           /\ \A r, d : Given(r, d)' <=> Given(r, d)
<1>1. ASSUME NEW u \in Topics, NEW r PROVE Among(u, Done(u), r)' <=> Among(u, Done(u), r)
  BY DEF Among
<1>2. EndTopics \subseteq Topics /\ "driver.assigned" \in Topics
  BY DEF EndTopics, Topics
<1> QED BY <1>1, <1>2 DEF Started, Freed, Ended, Among, Given, Assigned

\* What the effect of one more event of t, m, changes.
LEMMA DoneView ==
    ASSUME IInv, FlowTypes, WorkJobOK, UNCHANGED log, NEW t \in Topics, NEW m, m = log[t][Done(t) + 1],
           \A u \in Topics \ {t} : Done(u)' = Done(u), Done(t)' = Done(t) + 1
    PROVE  /\ \A r : Started(r)' <=> Started(r) \/ (t = "driver.assigned" /\ m.ride = r)
           /\ \A r : Freed(r)' <=> Freed(r) \/ (t \in EndTopics /\ Tells(t, m) /\ m.ride = r)
           /\ \A r : Ended(r)' <=> Ended(r)
           /\ \A r, d : Given(r, d)' <=> Given(r, d)
<1>1. ASSUME NEW u \in Topics, NEW r, u # t PROVE Among(u, Done(u), r)' <=> Among(u, Done(u), r)
  <2>1. Done(u)' = Done(u)
    BY <1>1
  <2> QED BY <2>1 DEF Among
<1>2. ASSUME NEW r PROVE Among(t, Done(t), r)' <=> Among(t, Done(t), r) \/ (Tells(t, m) /\ m.ride = r)
  <2>1. Done(t) \in Nat
    BY DoneBounds
  <2>2. \A i \in 1 .. Done(t)' : i \in 1 .. Done(t) \/ i = Done(t) + 1
    BY <2>1
  <2>3. Done(t) + 1 \in 1 .. Done(t)' /\ \A i \in 1 .. Done(t) : i \in 1 .. Done(t)'
    BY <2>1
  <2>4. log' = log
    OBVIOUS
  <2> QED BY <2>2, <2>3, <2>4 DEF Among
<1>3. EndTopics \subseteq Topics /\ "driver.assigned" \in Topics /\ "driver.assigned" \notin EndTopics
  BY DEF EndTopics, Topics
<1>4. ASSUME NEW r PROVE Started(r)' <=> Started(r) \/ (t = "driver.assigned" /\ m.ride = r)
  <2>1. CASE t = "driver.assigned"
    BY <1>2, <2>1 DEF Started, Tells
  <2>2. CASE t # "driver.assigned"
    BY <1>1, <1>3, <2>2 DEF Started
  <2> QED BY <2>1, <2>2
<1>5. ASSUME NEW r PROVE Freed(r)' <=> Freed(r) \/ (t \in EndTopics /\ Tells(t, m) /\ m.ride = r)
  <2>1. \A u \in EndTopics \ {t} : Among(u, Done(u), r)' <=> Among(u, Done(u), r)
    BY <1>1, <1>3
  <2>2. CASE t \in EndTopics
    <3>1. Among(t, Done(t), r)' <=> Among(t, Done(t), r) \/ (Tells(t, m) /\ m.ride = r)
      BY <1>2
    <3>2. Freed(r) <=> Among(t, Done(t), r) \/ \E u \in EndTopics \ {t} : Among(u, Done(u), r)
      BY <2>2 DEF Freed
    <3>3. Freed(r)' <=> Among(t, Done(t), r)' \/ \E u \in EndTopics \ {t} : Among(u, Done(u), r)'
      BY <2>2 DEF Freed
    <3> QED BY <2>1, <2>2, <3>1, <3>2, <3>3
  <2>3. CASE t \notin EndTopics
    BY <2>1, <2>3 DEF Freed
  <2> QED BY <2>2, <2>3
<1> QED BY <1>4, <1>5 DEF Ended, Among, Given, Assigned

\* An effect is of an event in the log, so what has started was given, and what
\* is over has ended.
LEMMA WorkFacts ==
    ASSUME IInv, FlowTypes, WorkJobOK
    PROVE  /\ \A r : Freed(r) => Ended(r)
           /\ \A r : Started(r) => \E i \in 1 .. Len(Assigned) : i <= Done("driver.assigned") /\ Assigned[i].ride = r
           /\ \A r, d : Given(r, d) => r \in Rides /\ d \in Drivers
<1>1. ASSUME NEW t \in Topics, NEW i \in 1 .. Done(t) PROVE i \in 1 .. Len(log[t])
  BY DoneBounds, FlowLens
<1>2. \A i \in 1 .. Len(Assigned) : Assigned[i].ride \in Rides /\ Assigned[i].driver \in Drivers
  BY AssignedTypes
<1>3. ASSUME NEW r, Freed(r) PROVE Ended(r)
  <2>1. PICK t \in EndTopics : Among(t, Done(t), r)
    BY <1>3 DEF Freed
  <2>2. t \in Topics
    BY FlowLens
  <2>3. Among(t, Len(log[t]), r)
    BY <1>1, <2>1, <2>2 DEF Among
  <2> QED BY <2>3 DEF Ended
<1>4. ASSUME NEW r, Started(r)
      PROVE  \E i \in 1 .. Len(Assigned) : i <= Done("driver.assigned") /\ Assigned[i].ride = r
  <2>1. "driver.assigned" \in Topics /\ Done("driver.assigned") \in Nat
    BY FlowLens, DoneBounds
  <2>2. PICK i \in 1 .. Done("driver.assigned") : Assigned[i].ride = r
    BY <1>4 DEF Started, Among, Assigned
  <2>3. i \in 1 .. Len(Assigned) /\ i <= Done("driver.assigned")
    BY <1>1, <2>1, <2>2 DEF Assigned
  <2> QED BY <2>2, <2>3
<1> QED BY <1>2, <1>3, <1>4 DEF Given

\* A ride has one driver, whom some assignment names, if its row names one.
LEMMA OneDriver ==
    ASSUME IInv, AssignedOnce, NEW r \in Rides
    PROVE  /\ \A d, e : Given(r, d) /\ Given(r, e) => d = e
           /\ rides[r].driver # NoDriver => Given(r, rides[r].driver)
<1>1. ASSUME NEW d, NEW e, Given(r, d), Given(r, e) PROVE d = e
  BY <1>1 DEF Given, AssignedOnce
<1>2. ASSUME rides[r].driver # NoDriver PROVE Given(r, rides[r].driver)
  <2>1. PICK n \in 0 .. Len(Assigned) : LastAssigned(r, n, rides[r].driver)
    BY DEF IInv, DriversOK, RowAfter
  <2>2. Offset \in Nat /\ Len(Assigned) \in Nat
    BY TypeFacts DEF IInv
  <2>3. PICK i \in 1 .. n : Assigned[i].ride = r /\ Assigned[i].driver = rides[r].driver
    BY <1>2, <2>1 DEF LastAssigned, Assigned
  <2>4. i \in 1 .. Len(Assigned)
    BY <2>2
  <2> QED BY <2>3, <2>4 DEF Given
<1> QED BY <1>1, <1>2

-----------------------------------------------------------------------------
(* What a step leaves alone.                                               *)

LEMMA QuietOnce ==
    ASSUME OnceEach, FlowTypes, UNCHANGED log, mpos' \in [Topics -> Nat], mpos["ride.requested"] <= mpos'["ride.requested"]
    PROVE  OnceEach'
<1>1. mpos["ride.requested"] \in Nat /\ mpos'["ride.requested"] \in Nat
  BY DEF FlowTypes, Topics
<1>2. RequestedOnce'
  <2>1. \A j \in 1 .. mpos["ride.requested"] : j \in 1 .. mpos'["ride.requested"]
    BY <1>1
  <2> QED BY <2>1 DEF OnceEach, RequestedOnce, Assigned
<1> QED BY <1>2 DEF OnceEach, AssignedOnce, EndsOnce, Assigned

LEMMA SameDone ==
    ASSUME UNCHANGED <<dpos, djob>>
    PROVE  \A u \in Topics : Done(u)' = Done(u)
  BY DEF Done

LEMMA QuietDriver ==
    ASSUME DriverSide, UNCHANGED <<log, drivers, pool, djob, dpos, Held>>
    PROVE  DriverSide'
<1>1. /\ \A r : (Started(r)' <=> Started(r)) /\ (Freed(r)' <=> Freed(r))
      /\ \A r, d : Given(r, d)' <=> Given(r, d)
  BY SameView, SameDone
<1>2. \A d : Work(d)' = Work(d)
  BY <1>1 DEF Work
<1> QED BY <1>1, <1>2 DEF DriverSide, WorkJobOK, Placed, StatusOK

LEMMA QuietRide ==
    ASSUME RideSide, UNCHANGED <<log, rides, req, assign, pos>>, \A r : Started(r) => Started(r)'
    PROVE  RideSide'
<1>1. /\ \A r : Ended(r)' <=> Ended(r)
      /\ \A r, d : Given(r, d)' <=> Given(r, d)
  BY DEF Ended, Among, Given, Assigned
<1>2. ClientsOK'
  BY <1>1 DEF RideSide, ClientsOK, ClientOK, RowOK
<1>3. EndsOK' /\ NotYet'
  BY <1>1 DEF RideSide, EndsOK, NotYet, Assigned, Offset
<1> QED BY <1>2, <1>3 DEF RideSide

LEMMA QuietMatch ==
    ASSUME MatchOK, UNCHANGED <<log, match, mpos>>
    PROVE  MatchOK'
  BY DEF MatchOK

\* Types and fitness of a step of ride-service.
LEMMA RideStepTypes ==
    ASSUME IInv, IInv', FlowTypes, AllFit, UNCHANGED <<pool, driverVars, matchingVars>>,
           \A t \in Topics : Len(log[t]) <= Len(log'[t]), UNCHANGED <<log["user.photo.updated"], log["driver.declined"]>>
    PROVE  FlowTypes' /\ AllFit'
<1>1. \A t \in Topics : Len(log[t]) \in Nat /\ Len(log'[t]) \in Nat
  <2>1. LogOK(log) /\ LogOK(log')
    BY DEF IInv, TypeOK
  <2>2. \A t \in Topics : Len(log[t]) \in Nat
    BY <2>1 DEF LogOK, Topics
  <2>3. \A t \in Topics : Len(log'[t]) \in Nat
    BY <2>1 DEF LogOK, Topics
  <2> QED BY <2>2, <2>3
<1>2. FlowTypes'
  <2>1. \A t \in Topics : dpos[t] \in Nat /\ mpos[t] \in Nat
    BY DEF FlowTypes
  <2>2. "ride.requested" \in Topics
    BY DEF Topics
  <2>3. UNCHANGED <<drivers, pool, djob, dpos, match, owner, mpos, dfaults, rejoins, mfaults>>
    BY DEF driverVars, matchingVars
  <2>4. ASSUME NEW t \in Topics PROVE dpos'[t] <= Len(log'[t])
    <3>1. dpos[t] <= Len(log[t])
      BY DEF FlowTypes
    <3>2. dpos'[t] = dpos[t] /\ dpos[t] \in Nat /\ Len(log[t]) \in Nat /\ Len(log'[t]) \in Nat
      BY <1>1, <2>1, <2>3
    <3> QED BY <3>1, <3>2
  <2>5. mpos'["ride.requested"] <= Len(log'["ride.requested"])
    BY <1>1, <2>1, <2>2, <2>3 DEF FlowTypes
  <2> QED BY <2>3, <2>4, <2>5 DEF FlowTypes
<1>3. AllFit'
  BY DEF AllFit, driverVars
<1> QED BY <1>2, <1>3

-----------------------------------------------------------------------------
(* Steps of ride-service.                                                  *)

\* A step of the client of r that writes no event.
LEMMA ClientSide ==
    ASSUME IInv, RideSide, FlowTypes, UNCHANGED <<log, pos, assign, dpos, djob>>, NEW r \in Rides,
           \A x \in Rides \ {r} : req'[x] = req[x] /\ rides'[x] = rides[x],
           rides'[r].driver = rides[r].driver, ClientOK(r)', RowOK(r)',
           Ended(r) => rides'[r].status \in EndStatus
    PROVE  RideSide'
<1>1. /\ \A x : (Started(x)' <=> Started(x)) /\ (Ended(x)' <=> Ended(x))
      /\ \A x, d : Given(x, d)' <=> Given(x, d)
  BY SameView, SameDone
<1>2. ClientsOK'
  <2>1. ASSUME NEW x \in Rides \ {r} PROVE ClientOK(x)' /\ RowOK(x)'
    <3>1. req'[x] = req[x] /\ rides'[x] = rides[x]
      OBVIOUS
    <3> QED BY <1>1, <3>1 DEF RideSide, ClientsOK, ClientOK, RowOK
  <2> QED BY <2>1 DEF ClientsOK
<1>3. EndsOK'
  <2> SUFFICES ASSUME NEW t \in EndTopics, NEW i \in 1 .. Len(log[t]), Tells(t, log[t][i])
               PROVE  LET m == log[t][i] IN
                      /\ Given(m.ride, m.driver)' /\ Started(m.ride)'
                      /\ rides'[m.ride].status \in EndStatus /\ rides'[m.ride].driver # NoDriver
    BY DEF EndsOK
  <2> PICK m : m = log[t][i]
    OBVIOUS
  <2>1. /\ Given(m.ride, m.driver) /\ Started(m.ride)
        /\ rides[m.ride].status \in EndStatus /\ rides[m.ride].driver # NoDriver
    BY DEF RideSide, EndsOK
  <2>2. m.ride \in Rides
    BY <2>1, AssignedTypes DEF Given
  <2>3. Ended(m.ride)
    BY DEF Ended, Among
  <2>4. rides'[m.ride].status \in EndStatus /\ rides'[m.ride].driver # NoDriver
    BY <2>1, <2>2, <2>3
  <2>5. Given(m.ride, m.driver)' /\ Started(m.ride)'
    BY <1>1, <2>1
  <2> QED BY <2>4, <2>5
<1>4. NotYet'
  <2>1. \A i \in (Offset + 1) .. Len(Assigned) : i \in 1 .. Len(Assigned)
    BY TypeFacts DEF IInv
  <2>2. \A i \in 1 .. Len(Assigned) : Assigned[i].ride \in Rides
    BY AssignedTypes
  <2>3. \A x \in Rides : rides'[x].driver = rides[x].driver
    OBVIOUS
  <2>4. UNCHANGED <<Assigned, Offset, assign>>
    BY DEF Assigned, Offset
  <2> QED BY <2>1, <2>2, <2>3, <2>4 DEF RideSide, NotYet
<1> QED BY <1>2, <1>3, <1>4 DEF RideSide

LEMMA ClientStep ==
    ASSUME CalmInv, IInv', UNCHANGED <<pool, driverVars, matchingVars, log, pos, assign>>, NEW r \in Rides,
           \A x \in Rides \ {r} : req'[x] = req[x] /\ rides'[x] = rides[x],
           rides'[r].driver = rides[r].driver, ClientOK(r)', RowOK(r)',
           Ended(r) => rides'[r].status \in EndStatus
    PROVE  CalmInv'
<1>1. UNCHANGED <<pool, drivers, djob, dpos, match, mpos>>
  BY DEF driverVars, matchingVars
<1>2. /\ \A t \in Topics : Len(log[t]) <= Len(log'[t])
      /\ mpos' \in [Topics -> Nat] /\ mpos["ride.requested"] <= mpos'["ride.requested"]
  <2>1. \A t \in Topics : Len(log[t]) \in Nat /\ mpos[t] \in Nat
    BY FlowLens DEF CalmInv, FlowTypes
  <2> QED BY <1>1, <2>1 DEF CalmInv, FlowTypes, Topics
<1>3. FlowTypes' /\ AllFit'
  BY <1>2, RideStepTypes DEF CalmInv
<1>4. OnceEach' /\ MatchOK'
  BY <1>1, <1>2, QuietOnce, QuietMatch DEF CalmInv
<1>5. DriverSide'
  BY <1>1, QuietDriver DEF CalmInv, Held
<1>6. RideSide'
  BY <1>1, ClientSide DEF CalmInv
<1> QED BY <1>3, <1>4, <1>5, <1>6 DEF CalmInv

LEMMA EndedRow ==
    ASSUME RideSide, NEW r, Ended(r)
    PROVE  rides[r].status \in EndStatus /\ Started(r) /\ rides[r].driver # NoDriver
<1>1. PICK t \in EndTopics : \E i \in 1 .. Len(log[t]) : Tells(t, log[t][i]) /\ log[t][i].ride = r
  BY DEF Ended, Among
<1> QED BY <1>1 DEF RideSide, EndsOK

LEMMA RequestCalm ==
    ASSUME CalmInv, NEW r \in Rides, ClientRequests(r)
    PROVE  CalmInv'
<1>1. r \in Clients
  BY FlowAssumption
<1>2. PICK pickup \in Pickups : requestRide(r, r, pickup)
  BY DEF ClientRequests, RideDoes
<1>3. IInv'
  BY <1>1, <1>2, RequestRideInv DEF CalmInv
<1>4. UNCHANGED <<pool, driverVars, matchingVars, log, pos, assign>> /\ ~rides[r].exists /\ req[r].pc = "idle"
  BY <1>2 DEF ClientRequests, RideDoes, requestRide
<1>5. /\ \A x \in Rides \ {r} : req'[x] = req[x] /\ rides'[x] = rides[x]
      /\ req'[r].pc = "publishRequested" /\ req'[r].ride = r
      /\ rides'[r].status = rides[r].status /\ rides'[r].driver = rides[r].driver
  <2>1. req \in [Rides -> Request] /\ rides \in [Rides -> Ride]
    BY FlowAssumption DEF CalmInv, IInv, TypeOK
  <2>2. req' = [req EXCEPT ![r] = [NoRequest EXCEPT !.pc = "publishRequested", !.ride = r, !.pickup = pickup]]
        /\ rides' = [rides EXCEPT ![r].exists = TRUE]
    BY <1>2 DEF requestRide
  <2> QED BY <2>1, <2>2 DEF NoRequest, Ride
<1>6. \A i \in 1 .. Len(log["ride.requested"]) : log["ride.requested"][i].ride # r
  BY <1>4 DEF CalmInv, IInv, RequestedExist, Messages
<1>7. ClientOK(r)'
  BY <1>4, <1>5, <1>6 DEF ClientOK
<1>8. RowOK(r)'
  <2>1. Ended(r)' <=> Ended(r)
    BY <1>4 DEF Ended, Among
  <2> QED BY <1>4, <1>5, <2>1 DEF CalmInv, RideSide, ClientsOK, RowOK
<1>9. Ended(r) => rides'[r].status \in EndStatus
  BY <1>5, EndedRow DEF CalmInv
<1> QED BY <1>3, <1>4, <1>5, <1>7, <1>8, <1>9, ClientStep

\* A client that has seen the driver of the ride busy has seen the ride started:
\* the driver has no other work.
LEMMA UpdateCalm ==
    ASSUME CalmInv, Patient, NEW r \in Rides, ClientUpdates(r)
    PROVE  CalmInv'
<1> DEFINE d == rides[r].driver
<1>1. r \in Clients
  BY FlowAssumption
<1>2. PICK status \in RideStatus : updateStatus(r, r, status, NoFare)
  BY FlowAssumption DEF ClientUpdates, RideDoes
<1>3. IInv'
  BY <1>1, <1>2, UpdateStatusInv DEF CalmInv
<1>4. /\ UNCHANGED <<pool, driverVars, matchingVars, log, pos, assign, rides>>
      /\ rides[r].status \notin EndStatus /\ d # NoDriver /\ drivers[d].status = "busy"
  BY <1>2 DEF ClientUpdates, RideDoes, updateStatus, MayUpdate, Open, EndStatus
<1>5. /\ \A x \in Rides \ {r} : req'[x] = req[x]
      /\ req'[r].pc = "write" /\ req'[r].ride = r /\ req'[r].read = rides[r]
  <2>1. req \in [Rides -> Request]
    BY FlowAssumption DEF CalmInv, IInv, TypeOK
  <2> QED BY <1>2, <2>1 DEF updateStatus
<1>6. Given(r, d) /\ Started(r) /\ ~Ended(r)
  <2>1. Given(r, d) /\ d \in Drivers
    BY <1>4, OneDriver, WorkFacts DEF CalmInv, OnceEach, DriverSide
  <2>2. ~Ended(r)
    BY <1>4, EndedRow DEF CalmInv
  <2>3. r \in Work(d)
    BY <2>1, <2>2, WorkFacts DEF CalmInv, DriverSide, Work
  <2>4. PICK x \in Work(d) : Started(x)
    BY <1>4, <2>1 DEF CalmInv, DriverSide, StatusOK
  <2>5. x = r
    BY <2>1, <2>3, <2>4 DEF CalmInv, DriverSide, Placed
  <2> QED BY <2>1, <2>2, <2>4, <2>5
<1>7. ClientOK(r)' /\ RowOK(r)'
  <2>1. (Ended(r)' <=> Ended(r)) /\ (Started(r)' <=> Started(r)) /\ (Given(r, d)' <=> Given(r, d))
    <3>1. UNCHANGED <<dpos, djob>>
      BY <1>4 DEF driverVars
    <3> QED BY <1>4, <3>1 DEF Ended, Started, Given, Among, Done, Assigned
  <2> QED BY <1>4, <1>5, <1>6, <2>1 DEF ClientOK, RowOK
<1> QED BY <1>3, <1>4, <1>5, <1>6, <1>7, ClientStep

LEMMA WriteCalm ==
    ASSUME CalmInv, NEW r \in Rides, RideDoes(WriteStatus(r))
    PROVE  CalmInv'
<1>1. r \in Clients
  BY FlowAssumption
<1>2. WriteStatus(r) /\ UNCHANGED <<pool, driverVars, matchingVars, log, pos, assign>>
  BY DEF RideDoes, WriteStatus
<1>3. IInv'
  BY <1>1, <1>2, WriteStatusInv DEF CalmInv
<1>4. /\ req[r].pc = "write" /\ req[r].ride = r
      /\ Given(r, req[r].read.driver) /\ Started(r) /\ ~Ended(r) /\ rides[r].driver # NoDriver
  BY <1>2 DEF WriteStatus, CalmInv, RideSide, ClientsOK, ClientOK
<1>5. /\ \A x \in Rides \ {r} : req'[x] = req[x] /\ rides'[x] = rides[x]
      /\ req'[r].pc = "publishStatus" /\ req'[r].ride = r
      /\ req'[r].read = req[r].read /\ req'[r].status = req[r].status
      /\ rides'[r].status = req[r].status /\ rides'[r].driver = rides[r].driver
  <2>1. req \in [Rides -> Request] /\ rides \in [Rides -> Ride]
    BY FlowAssumption DEF CalmInv, IInv, TypeOK
  <2>2. req' = [req EXCEPT ![r].pc = "publishStatus"]
        /\ rides' = [rides EXCEPT ![r].status = req[r].status, ![r].fare = StoredFare(@, req[r].fare)]
    BY <1>2, <1>4 DEF WriteStatus
  <2>3. /\ \A x \in Rides \ {r} : req'[x] = req[x]
        /\ req'[r].read = req[r].read /\ req'[r].status = req[r].status
    BY <2>1, <2>2 DEF Request
  <2>4. /\ \A x \in Rides \ {r} : rides'[x] = rides[x]
        /\ rides'[r].status = req[r].status /\ rides'[r].driver = rides[r].driver
    BY <2>1, <2>2 DEF Ride
  <2>5. req'[r].pc = "publishStatus" /\ req'[r].ride = req[r].ride
    BY <2>1, <2>2 DEF Request
  <2> QED BY <1>4, <2>3, <2>4, <2>5
<1>6. ClientOK(r)' /\ RowOK(r)'
  <2>1. (Ended(r)' <=> Ended(r)) /\ (Started(r)' <=> Started(r)) /\ \A d : Given(r, d)' <=> Given(r, d)
    <3>1. UNCHANGED <<dpos, djob>>
      BY <1>2 DEF driverVars
    <3> QED BY <1>2, <3>1 DEF Ended, Started, Given, Among, Done, Assigned
  <2> QED BY <1>4, <1>5, <2>1 DEF ClientOK, RowOK
<1> QED BY <1>2, <1>3, <1>4, <1>5, <1>6, ClientStep

\* What one more event of ride-service leaves alone.
LEMMA PublishClient ==
    ASSUME CalmInv, NEW t \in {"ride.requested"} \cup EndTopics, NEW m, Carries(t, m), log' = Published(log, t, m),
           UNCHANGED <<rides, dpos, djob>>, NEW x \in Rides, req'[x] = req[x],
           m.ride # x \/ (t # "ride.requested" /\ ~Tells(t, m))
    PROVE  ClientOK(x)' /\ RowOK(x)'
<1>1. t \in Topics /\ t # "driver.assigned" /\ "ride.requested" \notin EndTopics
  BY DEF EndTopics, Topics
<1>2. /\ Started(x)' <=> Started(x)
      /\ \A d : Given(x, d)' <=> Given(x, d)
      /\ Ended(x)' <=> Ended(x)
  BY <1>1, PublishView DEF CalmInv, DriverSide
<1>3. ASSUME \A i \in 1 .. Len(log["ride.requested"]) : log["ride.requested"][i].ride # x
      PROVE  \A i \in 1 .. Len(log'["ride.requested"]) : log'["ride.requested"][i].ride # x
  <2>1. "ride.requested" \in Topics /\ Len(log["ride.requested"]) \in Nat
    BY FlowLens DEF CalmInv
  <2>2. CASE t = "ride.requested"
    <3>1. /\ Len(log'[t]) = Len(log[t]) + 1 /\ log'[t][Len(log[t]) + 1] = m
          /\ \A i \in 1 .. Len(log[t]) : log'[t][i] = log[t][i]
      BY <1>1, FlowLens, PublishedFacts DEF CalmInv
    <3>2. \A i \in 1 .. Len(log'[t]) : i \in 1 .. Len(log[t]) \/ i = Len(log[t]) + 1
      BY <2>1, <2>2, <3>1
    <3>3. m.ride # x
      BY <2>2
    <3> QED BY <1>3, <2>2, <3>1, <3>2, <3>3
  <2>3. CASE t # "ride.requested"
    <3>1. log'["ride.requested"] = log["ride.requested"]
      BY <1>1, <2>1, <2>3, FlowLens, PublishedFacts DEF CalmInv
    <3> QED BY <1>3, <3>1
  <2> QED BY <2>2, <2>3
<1>4. ClientOK(x) /\ RowOK(x)
  BY DEF CalmInv, RideSide, ClientsOK
<1> QED BY <1>2, <1>3, <1>4 DEF ClientOK, RowOK

LEMMA PublishJob ==
    ASSUME CalmInv, NEW t \in Topics, NEW m, Carries(t, m), log' = Published(log, t, m), UNCHANGED <<drivers, djob, dpos>>
    PROVE  WorkJobOK'
<1> SUFFICES ASSUME djob.pc # "idle" PROVE WorkJobOK'
  BY DEF WorkJobOK
<1> DEFINE u == djob.topic
<1>1. u \in Topics /\ dpos[u] < Len(log[u])
  BY DEF CalmInv, DriverSide, WorkJobOK, EndTopics, Topics
<1>2. /\ \A i \in 1 .. Len(log[t]) : log'[t][i] = log[t][i]
      /\ \A v \in Topics \ {t} : log'[v] = log[v]
      /\ \A v \in Topics : Len(log[v]) \in Nat /\ Len(log[v]) <= Len(log'[v])
      /\ \A v \in Topics : Len(log'[v]) \in Nat
  <2>1. LogOK(log)
    BY FlowLens DEF CalmInv
  <2> QED BY <2>1, PublishedFacts
<1>3. dpos[u] \in Nat /\ Len(log[u]) \in Nat /\ dpos[u] + 1 \in 1 .. Len(log[u])
  BY <1>1, <1>2, FlowLens DEF CalmInv
<1>4. log'[u][dpos[u] + 1] = log[u][dpos[u] + 1]
  BY <1>1, <1>2, <1>3
<1>5. dpos[u] < Len(log'[u])
  BY <1>1, <1>2, <1>3
<1> QED BY <1>4, <1>5 DEF CalmInv, DriverSide, WorkJobOK

LEMMA PublishDriver ==
    ASSUME CalmInv, NEW t \in Topics \ {"driver.assigned"}, NEW m, Carries(t, m), log' = Published(log, t, m),
           UNCHANGED <<drivers, pool, djob, dpos, match>>
    PROVE  DriverSide'
<1>1. /\ \A r : (Started(r)' <=> Started(r)) /\ (Freed(r)' <=> Freed(r))
      /\ \A r, d : Given(r, d)' <=> Given(r, d)
  BY PublishView DEF CalmInv, DriverSide
<1>2. \A d : Work(d)' = Work(d)
  BY <1>1 DEF Work
<1>3. Held' = Held
  BY DEF Held
<1>4. WorkJobOK'
  BY PublishJob
<1> QED BY <1>1, <1>2, <1>3, <1>4 DEF CalmInv, DriverSide, Placed, StatusOK

LEMMA PublishMatch ==
    ASSUME CalmInv, NEW t \in Topics, NEW m, Carries(t, m), log' = Published(log, t, m), UNCHANGED <<match, mpos>>
    PROVE  MatchOK'
<1> DEFINE n == mpos["ride.requested"]
           asked == log["ride.requested"]
<1> SUFFICES ASSUME match[Matcher].pc # "idle" PROVE MatchOK'
  BY DEF MatchOK
<1>1. n < Len(asked) /\ match[Matcher].ride = asked[n + 1].ride
  BY DEF CalmInv, MatchOK
<1>2. n \in Nat /\ Len(asked) \in Nat /\ n + 1 \in 1 .. Len(asked) /\ "ride.requested" \in Topics
  BY <1>1, FlowLens DEF CalmInv, FlowTypes
<1>6. LogOK(log)
  BY FlowLens DEF CalmInv
<1>3. Len(asked) <= Len(asked') /\ \A i \in 1 .. Len(asked) : asked'[i] = asked[i]
  <2>1. CASE t = "ride.requested"
    BY <1>2, <1>6, <2>1, LogGrows
  <2>2. CASE t # "ride.requested"
    <3>1. asked' = asked
      BY <1>2, <1>6, <2>2, LogGrows
    <3> QED BY <1>2, <3>1
  <2> QED BY <2>1, <2>2
<1>4. Len(asked') \in Nat
  <2>1. Len(asked') = Len(asked) \/ Len(asked') = Len(asked) + 1
    BY <1>2, <1>6, PublishedFacts
  <2> QED BY <1>2, <2>1
<1>5. n < Len(asked') /\ asked'[n + 1] = asked[n + 1] /\ n' = n
  BY <1>1, <1>2, <1>3, <1>4
<1> QED BY <1>1, <1>5 DEF CalmInv, MatchOK

\* Every request, assignment and end is of another ride.
LEMMA PublishOnce ==
    ASSUME CalmInv, NEW t \in {"ride.requested"} \cup EndTopics, NEW m, Carries(t, m), log' = Published(log, t, m),
           UNCHANGED mpos,
           t = "ride.requested" => \A i \in 1 .. Len(log[t]) : log[t][i].ride # m.ride,
           t # "ride.requested" /\ Tells(t, m) => ~Ended(m.ride)
    PROVE  OnceEach'
<1>1. t \in Topics /\ t # "driver.assigned" /\ "ride.requested" \notin EndTopics /\ EndTopics \subseteq Topics
      /\ "ride.requested" \in Topics /\ "driver.assigned" \in Topics
  BY DEF EndTopics, Topics
<1>2. /\ Len(log'[t]) = Len(log[t]) + 1 /\ log'[t][Len(log[t]) + 1] = m
      /\ \A i \in 1 .. Len(log[t]) : log'[t][i] = log[t][i]
      /\ \A u \in Topics \ {t} : log'[u] = log[u]
      /\ \A u \in Topics : Len(log[u]) \in Nat
  BY <1>1, FlowLens, PublishedFacts DEF CalmInv
<1>3. \A i \in 1 .. Len(log'[t]) : i \in 1 .. Len(log[t]) \/ i = Len(log[t]) + 1
  BY <1>1, <1>2
<1>4. Assigned' = Assigned
  BY <1>1, <1>2 DEF Assigned
<1>5. AssignedOnce'
  BY <1>4 DEF CalmInv, OnceEach, AssignedOnce
<1>6. RequestedOnce'
  <2>1. CASE t # "ride.requested"
    <3>1. log'["ride.requested"] = log["ride.requested"]
      BY <1>1, <1>2, <2>1
    <3> QED BY <1>4, <3>1 DEF CalmInv, OnceEach, RequestedOnce
  <2>2. CASE t = "ride.requested"
    <3>1. \A i, j \in 1 .. Len(log'[t]) : log'[t][i].ride = log'[t][j].ride => i = j
      <4>1. \A i, j \in 1 .. Len(log[t]) : log[t][i].ride = log[t][j].ride => i = j
        BY <2>2 DEF CalmInv, OnceEach, RequestedOnce
      <4>2. ASSUME NEW i \in 1 .. Len(log'[t])
            PROVE  IF i = Len(log[t]) + 1 THEN log'[t][i].ride = m.ride
                   ELSE i \in 1 .. Len(log[t]) /\ log'[t][i] = log[t][i] /\ log'[t][i].ride # m.ride
        BY <1>2, <1>3, <2>2
      <4>3. ASSUME NEW i \in 1 .. Len(log'[t]), NEW j \in 1 .. Len(log'[t]), log'[t][i].ride = log'[t][j].ride
            PROVE  i = j
        BY <4>1, <4>2, <4>3
      <4> QED BY <4>3
    <3>2. ASSUME NEW i \in 1 .. Len(Assigned)
          PROVE  \E j \in 1 .. mpos["ride.requested"] : log'[t][j].ride = Assigned[i].ride
      <4>1. PICK j \in 1 .. mpos["ride.requested"] : log[t][j].ride = Assigned[i].ride
        BY <2>2 DEF CalmInv, OnceEach, RequestedOnce
      <4>2. j \in 1 .. Len(log[t])
        BY <1>1, <1>2, <2>2 DEF CalmInv, FlowTypes
      <4> QED BY <1>2, <4>1, <4>2
    <3> QED BY <1>4, <2>2, <3>1, <3>2 DEF RequestedOnce
  <2> QED BY <2>1, <2>2
<1>7. EndsOnce'
  <2> DEFINE End(u, i, r) == Tells(u, log[u][i]) /\ log[u][i].ride = r
             EndNew(u, i, r) == Tells(u, log'[u][i]) /\ log'[u][i].ride = r
  <2>1. ASSUME NEW u \in EndTopics, NEW i \in 1 .. Len(log'[u]), NEW r, EndNew(u, i, r)
        PROVE  \/ i \in 1 .. Len(log[u]) /\ End(u, i, r)
               \/ u = t /\ i = Len(log[t]) + 1 /\ r = m.ride /\ ~Ended(r)
    <3>1. CASE u = t /\ i = Len(log[t]) + 1
      <4>1. log'[u][i] = m
        BY <1>2, <3>1
      <4> QED BY <1>1, <2>1, <3>1, <4>1
    <3>2. CASE i \in 1 .. Len(log[u]) /\ log'[u][i] = log[u][i]
      BY <2>1, <3>2
    <3>3. CASE u # t
      <4>1. log'[u] = log[u]
        BY <1>1, <1>2, <3>3
      <4> QED BY <2>1, <3>2, <4>1
    <3> QED BY <1>2, <1>3, <3>1, <3>2, <3>3
  <2>2. ASSUME NEW u \in EndTopics, NEW i \in 1 .. Len(log[u]), NEW r, End(u, i, r) PROVE Ended(r)
    BY <2>2 DEF Ended, Among
  <2>3. ASSUME NEW u \in EndTopics, NEW v \in EndTopics, NEW i \in 1 .. Len(log'[u]), NEW j \in 1 .. Len(log'[v]),
               NEW r, EndNew(u, i, r), EndNew(v, j, r)
        PROVE  u = v /\ i = j
    <3>1. \/ i \in 1 .. Len(log[u]) /\ End(u, i, r)
          \/ u = t /\ i = Len(log[t]) + 1 /\ r = m.ride /\ ~Ended(r)
      BY <2>1, <2>3
    <3>2. \/ j \in 1 .. Len(log[v]) /\ End(v, j, r)
          \/ v = t /\ j = Len(log[t]) + 1 /\ r = m.ride /\ ~Ended(r)
      BY <2>1, <2>3
    <3>3. CASE i \in 1 .. Len(log[u]) /\ End(u, i, r) /\ j \in 1 .. Len(log[v]) /\ End(v, j, r)
      BY <3>3 DEF CalmInv, OnceEach, EndsOnce
    <3> HIDE DEF End
    <3> QED BY <2>2, <3>1, <3>2, <3>3
  <2> QED BY <2>3 DEF EndsOnce
<1> QED BY <1>5, <1>6, <1>7 DEF OnceEach

LEMMA PublishCalm ==
    ASSUME CalmInv, IInv', UNCHANGED <<rides, pool, driverVars, matchingVars>>,
           NEW t \in {"ride.requested"} \cup EndTopics, NEW m, Carries(t, m), log' = Published(log, t, m),
           t = "ride.requested" => \A i \in 1 .. Len(log[t]) : log[t][i].ride # m.ride,
           t # "ride.requested" /\ Tells(t, m) =>
               /\ ~Ended(m.ride) /\ Given(m.ride, m.driver) /\ Started(m.ride)
               /\ rides[m.ride].status \in EndStatus /\ rides[m.ride].driver # NoDriver,
           ClientsOK', NotYet'
    PROVE  CalmInv'
<1>1. t \in Topics \ {"driver.assigned"} /\ "ride.requested" \notin EndTopics
      /\ t # "user.photo.updated" /\ t # "driver.declined"
      /\ "user.photo.updated" \in Topics /\ "driver.declined" \in Topics
  BY DEF EndTopics, Topics
<1>2. /\ Len(log'[t]) = Len(log[t]) + 1 /\ log'[t][Len(log[t]) + 1] = m
      /\ \A i \in 1 .. Len(log[t]) : log'[t][i] = log[t][i]
      /\ \A u \in Topics \ {t} : log'[u] = log[u]
      /\ \A u \in Topics : Len(log[u]) \in Nat /\ Len(log[u]) <= Len(log'[u])
  BY <1>1, FlowLens, PublishedFacts DEF CalmInv
<1>3. UNCHANGED <<pool, drivers, djob, dpos, match, mpos>>
  BY DEF driverVars, matchingVars
<1>4. FlowTypes' /\ AllFit'
  BY <1>1, <1>2, RideStepTypes DEF CalmInv
<1>5. OnceEach'
  BY <1>3, PublishOnce
<1>6. MatchOK' /\ DriverSide'
  BY <1>1, <1>3, PublishMatch, PublishDriver
<1>7. EndsOK'
  <2>1. /\ \A r : Started(r)' <=> Started(r)
        /\ \A r, d : Given(r, d)' <=> Given(r, d)
    BY <1>1, <1>3, PublishView DEF CalmInv, DriverSide
  <2> SUFFICES ASSUME NEW u \in EndTopics, NEW i \in 1 .. Len(log'[u]), NEW n, n = log'[u][i], Tells(u, n)
               PROVE  /\ Given(n.ride, n.driver)' /\ Started(n.ride)'
                      /\ rides[n.ride].status \in EndStatus /\ rides[n.ride].driver # NoDriver
    BY DEF EndsOK
  <2>2. (i \in 1 .. Len(log[u]) /\ n = log[u][i]) \/ (u = t /\ n = m)
    <3>1. CASE u = t
      <4>1. i \in 1 .. Len(log[t]) \/ i = Len(log[t]) + 1
        BY <1>1, <1>2, <3>1
      <4> QED BY <1>2, <3>1, <4>1
    <3>2. CASE u # t
      <4>1. log'[u] = log[u]
        BY <1>2, <3>2 DEF EndTopics, Topics
      <4> QED BY <4>1
    <3> QED BY <3>1, <3>2
  <2>3. CASE i \in 1 .. Len(log[u]) /\ n = log[u][i]
    BY <2>1, <2>3 DEF CalmInv, RideSide, EndsOK
  <2>4. CASE u = t /\ n = m
    BY <1>1, <2>1, <2>4
  <2> QED BY <2>2, <2>3, <2>4
<1> QED BY <1>4, <1>5, <1>6, <1>7 DEF CalmInv, RideSide

LEMMA PublishRequestedCalm ==
    ASSUME CalmInv, NEW r \in Rides, RideDoes(PublishRequested(r))
    PROVE  CalmInv'
<1> DEFINE m == [ride |-> req[r].ride, pickup |-> req[r].pickup]
           t == "ride.requested"
<1>1. r \in Clients
  BY FlowAssumption
<1>2. /\ PublishRequested(r) /\ UNCHANGED <<pool, driverVars, matchingVars>>
      /\ UNCHANGED <<rides, assign, pos>> /\ log' = Published(log, t, m) /\ req[r].pc = "publishRequested"
  BY DEF RideDoes, PublishRequested
<1>3. IInv'
  BY <1>1, <1>2, PublishRequestedInv DEF CalmInv
<1>4. req[r].ride = r /\ \A i \in 1 .. Len(log[t]) : log[t][i].ride # r
  BY <1>2 DEF CalmInv, RideSide, ClientsOK, ClientOK
<1>5. Carries(t, m)
  BY <1>1, <1>2, <1>4 DEF Carries, RequestEvent, CalmInv, IInv, RequestsOK, RequestOK
<1>6. req'[r].pc = "idle" /\ \A x \in Rides \ {r} : req'[x] = req[x]
  BY <1>1, <1>2, RespondFields, RowTypes, FlowAssumption DEF PublishRequested, CalmInv, IInv, TypeOK
<1>7. UNCHANGED <<dpos, djob>>
  BY <1>2 DEF driverVars
<1> HIDE DEF m
<1>8. m.ride = r
  BY <1>4 DEF m
<1>9. ClientsOK'
  <2>1. ASSUME NEW x \in Rides \ {r} PROVE ClientOK(x)' /\ RowOK(x)'
    BY <1>2, <1>5, <1>6, <1>7, <1>8, <2>1, PublishClient
  <2>2. ClientOK(r)'
    BY <1>6 DEF ClientOK
  <2>3. RowOK(r)'
    <3>1. Ended(r)' <=> Ended(r)
      <4>1. t \in Topics /\ t \notin EndTopics
        BY DEF EndTopics, Topics
      <4> QED BY <1>2, <1>5, <1>7, <4>1, PublishView DEF CalmInv, DriverSide
    <3> QED BY <1>2, <1>6, <3>1 DEF CalmInv, RideSide, ClientsOK, RowOK
  <2> QED BY <2>1, <2>2, <2>3 DEF ClientsOK
<1>10. NotYet'
  <2>1. Assigned' = Assigned /\ Offset' = Offset
    <3>1. "driver.assigned" \in Topics \ {t} /\ t \in Topics
      BY DEF Topics
    <3>2. log'["driver.assigned"] = log["driver.assigned"]
      BY <1>2, <1>5, <3>1, FlowLens, PublishedFacts DEF CalmInv
    <3> QED BY <1>2, <3>2 DEF Assigned, Offset
  <2> QED BY <1>2, <2>1 DEF CalmInv, RideSide, NotYet
<1>11. t \notin EndTopics
  BY DEF EndTopics
<1> QED BY <1>2, <1>3, <1>4, <1>5, <1>8, <1>9, <1>10, PublishCalm

LEMMA PublishStatusCalm ==
    ASSUME CalmInv, NEW r \in Rides, RideDoes(PublishStatus(r))
    PROVE  CalmInv'
<1> DEFINE q == req[r]
           m == [ride |-> q.ride, driver |-> q.read.driver, status |-> q.status,
                 fare |-> PublishedFare(q.read.fare, q.fare)]
           t == TopicOf(q.status)
<1>1. r \in Clients
  BY FlowAssumption
<1>2. /\ PublishStatus(r) /\ UNCHANGED <<pool, driverVars, matchingVars>>
      /\ UNCHANGED <<rides, assign, pos>> /\ log' = Published(log, t, m) /\ q.pc = "publishStatus"
  BY DEF RideDoes, PublishStatus
<1>3. IInv'
  BY <1>1, <1>2, PublishStatusInv DEF CalmInv
<1>4. /\ q.ride = r /\ Given(r, q.read.driver) /\ Started(r) /\ ~Ended(r)
      /\ rides[r].driver # NoDriver /\ rides[r].status = q.status
  BY <1>2 DEF CalmInv, RideSide, ClientsOK, ClientOK
<1>5. t \in EndTopics /\ t \in Topics /\ t # "driver.assigned" /\ t # "ride.requested"
  BY DEF TopicOf, EndTopics, Topics
<1>6. Carries(t, m)
  <2>1. q \in Request
    BY <1>1 DEF CalmInv, IInv, TypeOK
  <2>2. m \in RideEvent
    BY <1>4, <2>1 DEF Request, RideEvent, Ride, PublishedFare
  <2> QED BY <1>5, <2>2 DEF Carries, EndTopics
<1>7. req'[r].pc = "idle" /\ \A x \in Rides \ {r} : req'[x] = req[x]
  BY <1>1, <1>2, RespondFields, RowTypes, FlowAssumption DEF PublishStatus, CalmInv, IInv, TypeOK
<1>8. UNCHANGED <<dpos, djob>>
  BY <1>2 DEF driverVars
<1>9. Tells(t, m) <=> q.status \in EndStatus
  BY DEF Tells, TopicOf, EndStatus
<1>10. m.ride = r /\ m.driver = q.read.driver
  BY <1>4
<1> HIDE DEF m, t
<1>11. ClientsOK'
  <2>1. ASSUME NEW x \in Rides \ {r} PROVE ClientOK(x)' /\ RowOK(x)'
    BY <1>2, <1>5, <1>6, <1>7, <1>8, <1>10, <2>1, PublishClient
  <2>2. ClientOK(r)'
    BY <1>7 DEF ClientOK
  <2>3. RowOK(r)'
    <3>1. Ended(r)' <=> Ended(r) \/ (t \in EndTopics /\ Tells(t, m) /\ m.ride = r)
      BY <1>2, <1>5, <1>6, <1>8, PublishView DEF CalmInv, DriverSide
    <3> QED BY <1>2, <1>4, <1>5, <1>9, <1>10, <3>1 DEF RowOK
  <2> QED BY <2>1, <2>2, <2>3 DEF ClientsOK
<1>12. NotYet'
  <2>1. Assigned' = Assigned /\ Offset' = Offset
    <3>1. "driver.assigned" \in Topics \ {t}
      BY <1>5 DEF Topics
    <3>2. log'["driver.assigned"] = log["driver.assigned"]
      BY <1>2, <1>5, <1>6, <3>1, FlowLens, PublishedFacts DEF CalmInv
    <3> QED BY <1>2, <3>2 DEF Assigned, Offset
  <2> QED BY <1>2, <2>1 DEF CalmInv, RideSide, NotYet
<1> QED BY <1>2, <1>3, <1>4, <1>5, <1>6, <1>9, <1>10, <1>11, <1>12, PublishCalm

LEMMA AnnounceCalm ==
    ASSUME CalmInv, RideDoes(AnnounceMatch)
    PROVE  CalmInv'
<1> DEFINE m == [ride |-> assign.ride, driver |-> assign.driver, status |-> "matched", fare |-> NoFare]
           t == "ride.status.updated"
<1>1. /\ AnnounceMatch /\ UNCHANGED <<pool, driverVars, matchingVars>> /\ UNCHANGED <<rides, req>>
      /\ log' = Published(log, t, m) /\ pos' = [pos EXCEPT !["driver.assigned"] = @ + 1]
  BY DEF RideDoes, AnnounceMatch
<1>2. IInv'
  BY <1>1, AnnounceMatchInv DEF CalmInv
<1>3. t \in EndTopics /\ t \in Topics /\ t # "driver.assigned" /\ t # "ride.requested"
  BY DEF EndTopics, Topics
<1>4. Carries(t, m)
  <2>1. HasNext(Assigned, Offset) /\ NextMessage(Assigned, Offset) = [ride |-> assign.ride, driver |-> assign.driver]
    BY <1>1 DEF CalmInv, IInv, AssignOK, AnnounceMatch
  <2>2. [ride |-> assign.ride, driver |-> assign.driver] \in AssignedEvent
    BY <2>1, TypeFacts, NextIsMessage DEF CalmInv, IInv
  <2>3. assign.ride \in Rides /\ assign.driver \in Drivers
    BY <2>2 DEF AssignedEvent
  <2> QED BY <2>3 DEF Carries, RideEvent, RideStatus
<1>5. ~Tells(t, m)
  BY DEF Tells
<1>6. UNCHANGED <<dpos, djob>>
  BY <1>1 DEF driverVars
<1> HIDE DEF m
<1>7. ClientsOK'
  BY <1>1, <1>3, <1>4, <1>5, <1>6, PublishClient DEF ClientsOK
<1>8. NotYet'
  <2>1. Assigned' = Assigned
    <3>1. "driver.assigned" \in Topics \ {t}
      BY DEF Topics
    <3> QED BY <1>1, <1>3, <1>4, <3>1, FlowLens, PublishedFacts DEF CalmInv, Assigned
  <2>2. Offset' = Offset + 1 /\ Offset \in Nat /\ Len(Assigned) \in Nat
    BY <1>1, TypeFacts DEF CalmInv, IInv, TypeOK, Offset
  <2>3. \A i \in (Offset' + 1) .. Len(Assigned) : i \in (Offset + 1) .. Len(Assigned) /\ i # Offset + 1
    BY <2>2
  <2> QED BY <1>1, <2>1, <2>3 DEF CalmInv, RideSide, NotYet
<1> QED BY <1>1, <1>2, <1>3, <1>4, <1>5, <1>7, <1>8, PublishCalm

\* A ride without a driver has no update to publish.
LEMMA AssignCalm ==
    ASSUME CalmInv, RideDoes(AssignDriver)
    PROVE  CalmInv'
<1> PICK m : m = NextMessage(Assigned, Offset)
  OBVIOUS
<1> PICK r : r = m.ride
  OBVIOUS
<1>1. /\ AssignDriver /\ UNCHANGED <<pool, driverVars, matchingVars>> /\ UNCHANGED <<req, log, pos>>
      /\ assign.pc = "idle" /\ HasNext(Assigned, Offset)
      /\ rides' = [rides EXCEPT ![r].status = "matched", ![r].driver = m.driver]
      /\ assign'.pc = "announce"
  BY DEF RideDoes, AssignDriver, Assigned, Offset
<1>2. IInv'
  BY <1>1, AssignDriverInv DEF CalmInv
<1>3. Offset \in Nat /\ Len(Assigned) \in Nat /\ Offset + 1 \in 1 .. Len(Assigned) /\ m = Assigned[Offset + 1]
  BY <1>1, TypeFacts DEF CalmInv, IInv, HasNext, NextMessage
<1>4. r \in Rides
  BY <1>3, AssignedTypes DEF CalmInv
<1>5. UNCHANGED <<drivers, pool, djob, dpos, match, mpos, Held>>
  BY <1>1 DEF driverVars, matchingVars, Held
<1>6. rides[r].driver = NoDriver
  BY <1>1, <1>3 DEF CalmInv, RideSide, NotYet
<1>7. rides'[r].status = "matched" /\ \A x \in Rides \ {r} : rides'[x] = rides[x]
  <2>1. rides \in [Rides -> Ride]
    BY DEF CalmInv, IInv, TypeOK
  <2> QED BY <1>1, <1>4, <2>1 DEF Ride
<1>8. FlowTypes' /\ AllFit'
  <2>1. \A t \in Topics : Len(log[t]) \in Nat
    BY FlowLens DEF CalmInv
  <2>2. \A t \in Topics : Len(log[t]) <= Len(log'[t])
    BY <1>1, <2>1
  <2> QED BY <1>1, <1>2, <2>2, RideStepTypes DEF CalmInv
<1>9. OnceEach' /\ MatchOK' /\ DriverSide'
  <2>1. mpos' \in [Topics -> Nat] /\ mpos["ride.requested"] <= mpos'["ride.requested"]
    BY <1>5 DEF CalmInv, FlowTypes, Topics
  <2> QED BY <1>1, <1>5, <2>1, QuietOnce, QuietMatch, QuietDriver DEF CalmInv
<1>10. /\ \A x : (Started(x)' <=> Started(x)) /\ (Ended(x)' <=> Ended(x))
       /\ \A x, d : Given(x, d)' <=> Given(x, d)
  BY <1>1, <1>5, SameView, SameDone
<1>11. ClientsOK'
  <2>1. ASSUME NEW x \in Rides \ {r} PROVE ClientOK(x)' /\ RowOK(x)'
    BY <1>1, <1>7, <1>10, <2>1 DEF CalmInv, RideSide, ClientsOK, ClientOK, RowOK
  <2>2. req[r].pc \notin {"write", "publishStatus"}
    BY <1>4, <1>6 DEF CalmInv, RideSide, ClientsOK, ClientOK
  <2>3. ClientOK(r)'
    BY <1>1, <1>4, <2>2 DEF CalmInv, RideSide, ClientsOK, ClientOK
  <2>4. RowOK(r)'
    BY <1>7 DEF RowOK, EndStatus
  <2> QED BY <2>1, <2>3, <2>4 DEF ClientsOK
<1>12. EndsOK'
  <2> SUFFICES ASSUME NEW t \in EndTopics, NEW i \in 1 .. Len(log[t]), NEW n, n = log[t][i], Tells(t, n)
               PROVE  /\ Given(n.ride, n.driver)' /\ Started(n.ride)'
                      /\ rides'[n.ride].status \in EndStatus /\ rides'[n.ride].driver # NoDriver
    BY <1>1 DEF EndsOK
  <2>1. /\ Given(n.ride, n.driver) /\ Started(n.ride)
        /\ rides[n.ride].status \in EndStatus /\ rides[n.ride].driver # NoDriver
    BY DEF CalmInv, RideSide, EndsOK
  <2>2. n.ride \in Rides
    BY <2>1, AssignedTypes DEF CalmInv, Given
  <2>3. n.ride # r
    BY <1>6, <2>1
  <2> QED BY <1>7, <1>10, <2>1, <2>2, <2>3
<1>13. NotYet'
  <2> SUFFICES ASSUME NEW i \in (Offset + 1) .. Len(Assigned), i # Offset + 1, NEW y, y = Assigned[i].ride
               PROVE  rides'[y].driver = NoDriver
    BY <1>1 DEF NotYet, Assigned, Offset
  <2>1. i \in 1 .. Len(Assigned)
    BY <1>3
  <2>2. y \in Rides /\ y # r
    BY <1>3, <2>1, AssignedTypes DEF CalmInv, OnceEach, AssignedOnce
  <2>3. rides[y].driver = NoDriver
    BY <1>1 DEF CalmInv, RideSide, NotYet
  <2> QED BY <1>7, <2>2, <2>3
<1> QED BY <1>2, <1>8, <1>9, <1>11, <1>12, <1>13 DEF CalmInv, RideSide

-----------------------------------------------------------------------------
(* Steps of matching-service.                                              *)

\* A step that announces nothing.
LEMMA MatcherStep ==
    ASSUME CalmInv, UNCHANGED <<driverVars, rideVars, log, owner, mfaults>>, pool' \in [Drivers -> {Home, NoPlace}],
           match' \in [{Matcher} -> M!Match], mpos' \in [Topics -> Nat],
           mpos["ride.requested"] <= mpos'["ride.requested"], mpos'["ride.requested"] <= Len(log["ride.requested"]),
           MatchOK', Placed'
    PROVE  CalmInv'
<1>1. UNCHANGED <<rides, req, assign, log, pos, committed, faults>>
      /\ UNCHANGED <<drivers, dreq, djob, dpos, dfaults, rejoins>>
  BY DEF rideVars, driverVars
<1>2. IInv'
  BY <1>1, StutterInv DEF CalmInv, vars
<1>3. FlowTypes' /\ AllFit'
  BY <1>1 DEF CalmInv, FlowTypes, AllFit
<1>4. OnceEach'
  BY <1>1, QuietOnce DEF CalmInv
<1>5. /\ \A r : Started(r)' <=> Started(r)
      /\ \A d : Work(d)' = Work(d)
  BY <1>1, SameView, SameDone DEF Work
<1>6. RideSide'
  BY <1>1, <1>5, QuietRide DEF CalmInv
<1>7. WorkJobOK' /\ StatusOK'
  BY <1>1, <1>5 DEF CalmInv, DriverSide, WorkJobOK, StatusOK
<1> QED BY <1>2, <1>3, <1>4, <1>6, <1>7 DEF CalmInv, DriverSide

LEMMA MatchTypes ==
    ASSUME CalmInv
    PROVE  /\ match[Matcher] \in M!Match /\ \A f \in M!Match : [match EXCEPT ![Matcher] = f] \in [{Matcher} -> M!Match]
           /\ M!NoMatch \in M!Match /\ M!NoMatch.pc = "idle"
           /\ owner["ride.requested"] = Matcher
           /\ mpos["ride.requested"] \in Nat /\ Len(log["ride.requested"]) \in Nat
           /\ mpos["ride.requested"] <= Len(log["ride.requested"]) /\ "ride.requested" \in Topics
<1>1. M!NoMatch \in M!Match /\ M!NoMatch.pc = "idle"
  BY DEF M!NoMatch, M!Match, M!MatchingTopics
<1>2. match \in [{Matcher} -> M!Match] /\ owner["ride.requested"] = Matcher
  BY DEF CalmInv, FlowTypes, M!MatchingTopics
<1>3. match[Matcher] \in M!Match /\ \A f \in M!Match : [match EXCEPT ![Matcher] = f] \in [{Matcher} -> M!Match]
  BY <1>2
<1>4. "ride.requested" \in Topics /\ Len(log["ride.requested"]) \in Nat
  BY FlowLens DEF CalmInv
<1> QED BY <1>1, <1>2, <1>3, <1>4 DEF CalmInv, FlowTypes

LEMMA ReceiveCalm ==
    ASSUME CalmInv, NEW t \in M!MatchingTopics, MatchingDoes(M!Receive(Matcher, t))
    PROVE  CalmInv'
<1>1. /\ UNCHANGED <<driverVars, rideVars, log, owner, mfaults, pool, mpos>>
      /\ match[Matcher].pc = "idle" /\ HasNext(log[t], mpos[t])
      /\ LET m == NextMessage(log[t], mpos[t]) IN
         match' = [match EXCEPT ![Matcher] = [pc |-> "claim", topic |-> t, ride |-> m.ride,
                                              pickup |-> m.pickup, driver |-> NoDriver]]
  BY DEF MatchingDoes, M!Receive, M!HasNext, M!NextMessage, HasNext, NextMessage
<1>2. t = "ride.requested"
  <2>1. mpos["driver.declined"] \in Nat /\ log["driver.declined"] = << >>
    BY DEF CalmInv, FlowTypes, AllFit, Topics
  <2>2. ~HasNext(log["driver.declined"], mpos["driver.declined"])
    BY <2>1 DEF HasNext
  <2> QED BY <1>1, <2>2 DEF M!MatchingTopics
<1> PICK m : m = NextMessage(log[t], mpos[t])
  OBVIOUS
<1>3. m \in RequestEvent /\ m = log[t][mpos[t] + 1] /\ mpos[t] < Len(log[t])
  <2>1. log[t] \in Seq(RequestEvent) /\ mpos[t] \in Nat
    BY <1>2, FlowLens, MatchTypes DEF LogOK, CalmInv
  <2> QED BY <1>1, <2>1, NextIsMessage DEF NextMessage, HasNext
<1> PICK f : f = [pc |-> "claim", topic |-> t, ride |-> m.ride, pickup |-> m.pickup, driver |-> NoDriver]
  OBVIOUS
<1>4. f \in M!Match
  BY <1>3 DEF RequestEvent, M!Match
<1>5. match' \in [{Matcher} -> M!Match] /\ match'[Matcher] = f
  BY <1>1, <1>4, MatchTypes
<1>6. MatchOK'
  BY <1>1, <1>2, <1>3, <1>5 DEF MatchOK
<1>7. Placed'
  <2>1. Held' = Held
    BY <1>1, <1>5 DEF Held
  <2>2. \A d : Work(d)' = Work(d)
    <3>1. UNCHANGED <<dpos, djob>>
      BY <1>1 DEF driverVars
    <3> QED BY <1>1, <3>1, SameView, SameDone DEF Work
  <2> QED BY <1>1, <2>1, <2>2 DEF CalmInv, DriverSide, Placed
<1>8. pool' \in [Drivers -> {Home, NoPlace}] /\ mpos' \in [Topics -> Nat]
  BY <1>1 DEF CalmInv, FlowTypes
<1> QED BY <1>1, <1>5, <1>6, <1>7, <1>8, MatchTypes, MatcherStep

LEMMA ClaimCalm ==
    ASSUME CalmInv, MatchingDoes(M!Claim(Matcher))
    PROVE  CalmInv'
<1>1. /\ UNCHANGED <<driverVars, rideVars, log, owner, mfaults, mpos>> /\ match[Matcher].pc = "claim"
      /\ \E d \in M!Nearest(match[Matcher].pickup) :
            /\ pool' = [pool EXCEPT ![d] = NoPlace]
            /\ match' = [match EXCEPT ![Matcher].pc = "publish", ![Matcher].driver = d]
  BY DEF MatchingDoes, M!Claim, M!Removed
<1>2. PICK d \in Drivers :
          /\ pool[d] # NoPlace /\ pool' = [pool EXCEPT ![d] = NoPlace]
          /\ match' = [match EXCEPT ![Matcher].pc = "publish", ![Matcher].driver = d]
  BY <1>1 DEF M!Nearest, M!InRange
<1> PICK q : q = match[Matcher]
  OBVIOUS
<1>3. /\ match' \in [{Matcher} -> M!Match] /\ match'[Matcher].pc = "publish" /\ match'[Matcher].driver = d
      /\ match'[Matcher].topic = q.topic /\ match'[Matcher].ride = q.ride
  <2>1. match \in [{Matcher} -> M!Match]
    BY DEF CalmInv, FlowTypes
  <2>2. match' = [match EXCEPT ![Matcher] = [q EXCEPT !.pc = "publish", !.driver = d]]
    BY <1>2, <2>1
  <2>3. q \in M!Match
    BY MatchTypes
  <2>4. [q EXCEPT !.pc = "publish", !.driver = d] \in M!Match
    BY <2>3 DEF M!Match
  <2>5. match'[Matcher] = [q EXCEPT !.pc = "publish", !.driver = d]
    BY <2>1, <2>2
  <2> QED BY <2>2, <2>3, <2>4, <2>5, MatchTypes DEF M!Match
<1>4. MatchOK'
  BY <1>1, <1>3 DEF CalmInv, MatchOK
<1>5. pool \in [Drivers -> {Home, NoPlace}]
  BY DEF CalmInv, FlowTypes
<1>6. Placed'
  <2>1. Held' = {d} /\ Held = {}
    BY <1>1, <1>3 DEF Held
  <2>2. \A e : Work(e)' = Work(e)
    <3>1. UNCHANGED <<dpos, djob>>
      BY <1>1 DEF driverVars
    <3> QED BY <1>1, <3>1, SameView, SameDone DEF Work
  <2>3. \A e \in Drivers : pool'[e] # NoPlace => e # d /\ pool[e] # NoPlace
    BY <1>2, <1>5
  <2> QED BY <1>2, <2>1, <2>2, <2>3 DEF CalmInv, DriverSide, Placed
<1>7. pool' \in [Drivers -> {Home, NoPlace}] /\ mpos' \in [Topics -> Nat]
  BY <1>1, <1>2, <1>5 DEF CalmInv, FlowTypes
<1> QED BY <1>1, <1>3, <1>4, <1>6, <1>7, MatchTypes, MatcherStep

LEMMA ReturnsFacts ==
    ASSUME CalmInv, match[Matcher].pc # "idle", M!Returns(Matcher)
    PROVE  /\ match' \in [{Matcher} -> M!Match] /\ match'[Matcher].pc = "idle"
           /\ mpos' \in [Topics -> Nat] /\ mpos'["ride.requested"] = mpos["ride.requested"] + 1
           /\ mpos["ride.requested"] < Len(log["ride.requested"])
<1>1. match[Matcher].topic = "ride.requested" /\ mpos["ride.requested"] < Len(log["ride.requested"])
  BY DEF CalmInv, MatchOK
<1>2. mpos' = [mpos EXCEPT !["ride.requested"] = @ + 1] /\ match' = [match EXCEPT ![Matcher] = M!NoMatch]
  BY <1>1, MatchTypes DEF M!Returns
<1>3. match \in [{Matcher} -> M!Match] /\ mpos \in [Topics -> Nat]
  BY DEF CalmInv, FlowTypes
<1> QED BY <1>1, <1>2, <1>3, MatchTypes

LEMMA NobodyCalm ==
    ASSUME CalmInv, MatchingDoes(M!NobodyInRange(Matcher))
    PROVE  CalmInv'
<1>1. /\ UNCHANGED <<driverVars, rideVars, log, owner, mfaults, pool>> /\ match[Matcher].pc = "claim"
      /\ M!Returns(Matcher)
  BY DEF MatchingDoes, M!NobodyInRange
<1>2. /\ match' \in [{Matcher} -> M!Match] /\ match'[Matcher].pc = "idle"
      /\ mpos' \in [Topics -> Nat] /\ mpos'["ride.requested"] = mpos["ride.requested"] + 1
      /\ mpos["ride.requested"] < Len(log["ride.requested"])
  BY <1>1, ReturnsFacts
<1>3. MatchOK'
  BY <1>2 DEF MatchOK
<1>4. Placed'
  <2>1. Held' = Held
    BY <1>1, <1>2 DEF Held
  <2>2. \A d : Work(d)' = Work(d)
    <3>1. UNCHANGED <<dpos, djob>>
      BY <1>1 DEF driverVars
    <3> QED BY <1>1, <3>1, SameView, SameDone DEF Work
  <2> QED BY <1>1, <2>1, <2>2 DEF CalmInv, DriverSide, Placed
<1>5. /\ pool' \in [Drivers -> {Home, NoPlace}]
      /\ mpos["ride.requested"] <= mpos'["ride.requested"] /\ mpos'["ride.requested"] <= Len(log["ride.requested"])
  BY <1>1, <1>2, MatchTypes DEF CalmInv, FlowTypes
<1> QED BY <1>1, <1>2, <1>3, <1>4, <1>5, MatcherStep

\* A ride that nobody has given to a driver has neither begun nor ended.
LEMMA NotGiven ==
    ASSUME CalmInv, NEW r, \A i \in 1 .. Len(Assigned) : Assigned[i].ride # r
    PROVE  ~Started(r) /\ ~Ended(r) /\ ~Freed(r) /\ \A d : ~Given(r, d)
<1>1. ~Started(r)
  BY WorkFacts DEF CalmInv, DriverSide
<1>2. ~Ended(r)
  BY <1>1, EndedRow DEF CalmInv
<1> QED BY <1>1, <1>2, WorkFacts DEF CalmInv, DriverSide, Given

\* The driver of a new assignment has no other work.
LEMMA AssignmentDriver ==
    ASSUME CalmInv, NEW m \in AssignedEvent, log' = Published(log, "driver.assigned", m),
           UNCHANGED <<drivers, pool, djob, dpos>>, Held = {m.driver}, Held' = {},
           \A i \in 1 .. Len(Assigned) : Assigned[i].ride # m.ride
    PROVE  DriverSide'
<1>1. Carries("driver.assigned", m) /\ "driver.assigned" \in Topics /\ m.ride \in Rides /\ m.driver \in Drivers
  BY DEF Carries, Topics, AssignedEvent
<1>2. /\ \A r : (Started(r)' <=> Started(r)) /\ (Freed(r)' <=> Freed(r))
      /\ \A r, d : Given(r, d)' <=> Given(r, d) \/ (m.ride = r /\ m.driver = d)
  BY <1>1, PublishView DEF CalmInv, DriverSide
<1>3. ~Started(m.ride) /\ ~Freed(m.ride)
  BY NotGiven
<1>4. WorkJobOK'
  BY <1>1, PublishJob
<1>5. Work(m.driver) = {} /\ Work(m.driver)' = {m.ride}
  <2>1. Work(m.driver) = {}
    BY <1>1 DEF CalmInv, DriverSide, Placed
  <2> QED BY <1>1, <1>2, <1>3, <2>1 DEF Work
<1>6. \A d : d # m.driver => Work(d)' = Work(d)
  BY <1>2 DEF Work
<1>7. Placed'
  <2>1. pool[m.driver] = NoPlace
    BY <1>1 DEF CalmInv, DriverSide, Placed
  <2> QED BY <1>5, <1>6, <2>1 DEF CalmInv, DriverSide, Placed
<1>8. StatusOK'
  <2>1. ASSUME NEW d \in Drivers, d # m.driver
        PROVE  /\ drivers[d].status = "busy" => \E r \in Work(d)' : Started(r)'
               /\ \A r \in Work(d)' : Started(r)' =>
                    \/ drivers[d].status = "busy"
                    \/ djob.pc = "statusRedis" /\ djob.status = "available" /\ djob.driver = d
    BY <1>2, <1>6, <2>1 DEF CalmInv, DriverSide, StatusOK
  <2>2. drivers[m.driver].status # "busy"
    BY <1>1, <1>5 DEF CalmInv, DriverSide, StatusOK
  <2> QED BY <1>2, <1>3, <1>5, <2>1, <2>2 DEF StatusOK
<1> QED BY <1>4, <1>7, <1>8 DEF DriverSide

LEMMA AssignmentRide ==
    ASSUME CalmInv, NEW m \in AssignedEvent, log' = Published(log, "driver.assigned", m),
           UNCHANGED <<rides, req, assign, pos, djob, dpos>>,
           \A i \in 1 .. Len(Assigned) : Assigned[i].ride # m.ride
    PROVE  RideSide'
<1>1. /\ Carries("driver.assigned", m) /\ "driver.assigned" \in Topics /\ m.ride \in Rides
      /\ EndTopics \subseteq Topics \ {"driver.assigned"} /\ "ride.requested" \in Topics \ {"driver.assigned"}
  BY DEF Carries, Topics, AssignedEvent, EndTopics
<1>2. /\ \A u \in Topics \ {"driver.assigned"} : log'[u] = log[u]
      /\ Len(Assigned') = Len(Assigned) + 1 /\ Assigned'[Len(Assigned) + 1] = m
      /\ \A i \in 1 .. Len(Assigned) : Assigned'[i] = Assigned[i]
  BY <1>1, FlowLens, PublishedFacts DEF CalmInv, Assigned
<1>3. /\ \A r : Started(r)' <=> Started(r)
      /\ \A r, d : Given(r, d) => Given(r, d)'
      /\ \A r : Ended(r)' <=> Ended(r)
  BY <1>1, PublishView DEF CalmInv, DriverSide
<1>4. ClientsOK'
  <2>1. log'["ride.requested"] = log["ride.requested"]
    BY <1>1, <1>2
  <2> QED BY <1>3, <2>1 DEF CalmInv, RideSide, ClientsOK, ClientOK, RowOK
<1>5. EndsOK'
  <2>1. \A t \in EndTopics : log'[t] = log[t]
    BY <1>1, <1>2
  <2> QED BY <1>3, <2>1 DEF CalmInv, RideSide, EndsOK
<1>6. NotYet'
  <2>1. Offset \in Nat /\ Len(Assigned) \in Nat /\ Offset <= Len(Assigned)
    BY TypeFacts DEF CalmInv, IInv
  <2>2. rides[m.ride].driver = NoDriver
    BY <1>1, NotGiven, OneDriver DEF CalmInv, OnceEach
  <2>3. ASSUME NEW i \in (Offset + 1) .. Len(Assigned')
        PROVE  (i = Offset + 1 /\ assign.pc = "announce") \/ rides[Assigned'[i].ride].driver = NoDriver
    <3>1. i = Len(Assigned) + 1 \/ (i \in (Offset + 1) .. Len(Assigned) /\ i \in 1 .. Len(Assigned))
      BY <1>2, <2>1
    <3>2. CASE i = Len(Assigned) + 1
      BY <1>2, <2>2, <3>2
    <3>3. CASE i \in (Offset + 1) .. Len(Assigned) /\ i \in 1 .. Len(Assigned)
      BY <1>2, <3>3 DEF CalmInv, RideSide, NotYet
    <3> QED BY <3>1, <3>2, <3>3
  <2>4. Offset' = Offset
    BY DEF Offset
  <2> QED BY <2>3, <2>4 DEF NotYet
<1> QED BY <1>4, <1>5, <1>6 DEF RideSide

LEMMA AssignmentOnce ==
    ASSUME CalmInv, NEW m \in AssignedEvent, log' = Published(log, "driver.assigned", m),
           mpos'["ride.requested"] = mpos["ride.requested"] + 1,
           m.ride = log["ride.requested"][mpos["ride.requested"] + 1].ride,
           \A i \in 1 .. Len(Assigned) : Assigned[i].ride # m.ride
    PROVE  OnceEach'
<1> DEFINE n == mpos["ride.requested"]
           asked == log["ride.requested"]
<1>1. /\ Carries("driver.assigned", m) /\ "driver.assigned" \in Topics
      /\ EndTopics \subseteq Topics \ {"driver.assigned"} /\ "ride.requested" \in Topics \ {"driver.assigned"}
  BY DEF Carries, Topics, EndTopics
<1>2. /\ \A u \in Topics \ {"driver.assigned"} : log'[u] = log[u]
      /\ Len(Assigned') = Len(Assigned) + 1 /\ Assigned'[Len(Assigned) + 1] = m
      /\ \A i \in 1 .. Len(Assigned) : Assigned'[i] = Assigned[i]
      /\ Len(Assigned) \in Nat
  BY <1>1, FlowLens, PublishedFacts DEF CalmInv, Assigned
<1>3. \A i \in 1 .. Len(Assigned') : i \in 1 .. Len(Assigned) \/ i = Len(Assigned) + 1
  BY <1>2
<1>4. AssignedOnce'
  BY <1>2, <1>3 DEF CalmInv, OnceEach, AssignedOnce
<1>5. asked' = asked
  BY <1>1, <1>2
<1>6. n \in Nat /\ n + 1 \in 1 .. n' /\ \A j \in 1 .. n : j \in 1 .. n'
  BY MatchTypes
<1>7. RequestedOnce'
  <2>1. ASSUME NEW i \in 1 .. Len(Assigned') PROVE \E j \in 1 .. n' : asked[j].ride = Assigned'[i].ride
    <3>1. CASE i = Len(Assigned) + 1
      BY <1>2, <1>6, <3>1
    <3>2. CASE i \in 1 .. Len(Assigned)
      BY <1>2, <1>6, <3>2 DEF CalmInv, OnceEach, RequestedOnce
    <3> QED BY <1>3, <3>1, <3>2
  <2>2. \A i, j \in 1 .. Len(asked) : asked[i].ride = asked[j].ride => i = j
    BY DEF CalmInv, OnceEach, RequestedOnce
  <2>3. \A i, j \in 1 .. Len(asked') : asked'[i].ride = asked'[j].ride => i = j
    BY <1>5, <2>2
  <2> QED BY <1>5, <2>1, <2>3 DEF RequestedOnce
<1>8. EndsOnce'
  <2>1. \A t \in EndTopics : log'[t] = log[t]
    BY <1>1, <1>2
  <2> QED BY <2>1 DEF CalmInv, OnceEach, EndsOnce
<1> QED BY <1>4, <1>7, <1>8 DEF OnceEach

LEMMA PublishAssignedCalm ==
    ASSUME CalmInv, MatchingDoes(M!PublishAssigned(Matcher))
    PROVE  CalmInv'
<1> PICK q : q = match[Matcher]
  OBVIOUS
<1> PICK m : m = [ride |-> q.ride, driver |-> q.driver]
  OBVIOUS
<1>1. /\ UNCHANGED <<driverVars, rideVars, owner, mfaults, pool>> /\ q.pc = "publish"
      /\ log' = Published(log, "driver.assigned", m) /\ M!Returns(Matcher)
  BY DEF MatchingDoes, M!PublishAssigned, M!Published, Published
<1>2. /\ UNCHANGED <<rides, req, assign, pos, committed, faults>>
      /\ UNCHANGED <<drivers, dreq, djob, dpos, dfaults, rejoins>>
  BY <1>1 DEF rideVars, driverVars
<1>3. /\ match' \in [{Matcher} -> M!Match] /\ match'[Matcher].pc = "idle"
      /\ mpos' \in [Topics -> Nat] /\ mpos'["ride.requested"] = mpos["ride.requested"] + 1
      /\ mpos["ride.requested"] < Len(log["ride.requested"])
  BY <1>1, ReturnsFacts
<1> DEFINE n == mpos["ride.requested"]
           asked == log["ride.requested"]
<1>4. q.ride = asked[n + 1].ride /\ q.driver \in Drivers
  BY <1>1 DEF CalmInv, MatchOK
<1>5. n \in Nat /\ n + 1 \in 1 .. Len(asked) /\ \A j \in 1 .. n : j \in 1 .. Len(asked) /\ j # n + 1
  BY <1>3, MatchTypes
<1>6. m \in AssignedEvent
  <2>1. asked \in Seq(RequestEvent)
    BY FlowLens DEF CalmInv, LogOK
  <2>2. asked[n + 1] \in RequestEvent
    BY <1>5, <2>1
  <2> QED BY <1>4, <2>2 DEF RequestEvent, AssignedEvent
<1>7. \A i \in 1 .. Len(Assigned) : Assigned[i].ride # m.ride
  <2> SUFFICES ASSUME NEW i \in 1 .. Len(Assigned), Assigned[i].ride = q.ride PROVE FALSE
    OBVIOUS
  <2>1. PICK j \in 1 .. n : asked[j].ride = q.ride
    BY DEF CalmInv, OnceEach, RequestedOnce
  <2> QED BY <1>4, <1>5, <2>1 DEF CalmInv, OnceEach, RequestedOnce
<1>8. IInv'
  <2>1. asked[n + 1] \in Messages(asked)
    BY <1>5 DEF Messages
  <2> QED BY <1>1, <1>2, <1>4, <1>6, <2>1, AssignmentInv DEF CalmInv
<1>9. Held = {m.driver} /\ Held' = {}
  BY <1>1, <1>3 DEF Held
<1>10. DriverSide' /\ RideSide' /\ OnceEach'
  BY <1>1, <1>2, <1>3, <1>4, <1>6, <1>7, <1>9, AssignmentDriver, AssignmentRide, AssignmentOnce
<1>11. MatchOK'
  BY <1>3 DEF MatchOK
<1>12. FlowTypes' /\ AllFit'
  <2>1. "driver.assigned" \in Topics /\ Carries("driver.assigned", m)
        /\ "ride.requested" \in Topics \ {"driver.assigned"}
        /\ "user.photo.updated" \in Topics \ {"driver.assigned"} /\ "driver.declined" \in Topics \ {"driver.assigned"}
    BY <1>6 DEF Topics, Carries
  <2>2. /\ \A t \in Topics : Len(log[t]) \in Nat /\ Len(log[t]) <= Len(log'[t]) /\ Len(log'[t]) \in Nat
        /\ \A t \in Topics \ {"driver.assigned"} : log'[t] = log[t]
    <3>1. LogOK(log)
      BY FlowLens DEF CalmInv
    <3> QED BY <1>1, <2>1, <3>1, PublishedFacts
  <2>3. ASSUME NEW t \in Topics PROVE dpos[t] <= Len(log'[t])
    BY <2>2, FlowLens DEF CalmInv
  <2>4. mpos'["ride.requested"] <= Len(log'["ride.requested"])
    BY <1>3, <1>5, <2>1, <2>2
  <2>5. FlowTypes'
    BY <1>1, <1>2, <1>3, <2>3, <2>4 DEF CalmInv, FlowTypes
  <2>6. AllFit'
    BY <1>2, <2>1, <2>2 DEF CalmInv, AllFit
  <2> QED BY <2>5, <2>6
<1> QED BY <1>8, <1>10, <1>11, <1>12 DEF CalmInv

-----------------------------------------------------------------------------
(* Steps of driver-service.                                                *)

\* The ride of an event that is to be handled keeps its driver busy, or will.
LEMMA EventFacts ==
    ASSUME CalmInv, NEW t \in {"driver.assigned"} \cup EndTopics, NEW m, m = log[t][dpos[t] + 1],
           dpos[t] < Len(log[t]), Done(t) = dpos[t], Tells(t, m)
    PROVE  /\ m.driver \in Drivers /\ Given(m.ride, m.driver) /\ m.ride \in Work(m.driver)
           /\ t = "driver.assigned" => ~Started(m.ride)
           /\ t \in EndTopics => Started(m.ride)
<1>1. t \in Topics /\ "driver.assigned" \notin EndTopics /\ EndTopics \subseteq Topics /\ "driver.assigned" \in Topics
  BY DEF EndTopics, Topics
<1>2. dpos[t] \in Nat /\ Len(log[t]) \in Nat /\ dpos[t] + 1 \in 1 .. Len(log[t])
  BY <1>1, FlowLens DEF CalmInv
<1>3. \A i \in 1 .. Done(t) : i # dpos[t] + 1 /\ i \in 1 .. Len(log[t])
  BY <1>2
<1>4. CASE t = "driver.assigned"
  <2>1. Given(m.ride, m.driver)
    BY <1>2, <1>4 DEF Given, Assigned
  <2>2. ~Started(m.ride)
    BY <1>2, <1>3, <1>4 DEF Started, Among, CalmInv, OnceEach, AssignedOnce, Assigned
  <2>3. ~Freed(m.ride)
    BY <2>2, EndedRow, WorkFacts DEF CalmInv, DriverSide
  <2> QED BY <1>1, <1>4, <2>1, <2>2, <2>3, WorkFacts DEF Work, CalmInv, DriverSide
<1>5. CASE t \in EndTopics
  <2>1. Given(m.ride, m.driver) /\ Started(m.ride)
    BY <1>2, <1>5 DEF CalmInv, RideSide, EndsOK
  <2>2. ~Freed(m.ride)
    <3> SUFFICES ASSUME NEW u \in EndTopics, NEW i \in 1 .. Done(u), Tells(u, log[u][i]), log[u][i].ride = m.ride
                 PROVE  FALSE
      BY DEF Freed, Among
    <3>1. i \in 1 .. Len(log[u])
      BY <1>1, DoneBounds, FlowLens DEF CalmInv, DriverSide
    <3>2. u = t /\ i = dpos[t] + 1
      BY <1>2, <1>5, <3>1 DEF CalmInv, OnceEach, EndsOnce
    <3> QED BY <1>3, <3>2
  <2> QED BY <1>1, <1>5, <2>1, <2>2, WorkFacts DEF Work, CalmInv, DriverSide
<1> QED BY <1>4, <1>5

LEMMA DriverStep ==
    ASSUME CalmInv, UNCHANGED <<log, matchingVars, rideVars, dreq, dfaults, rejoins>>,
           \A r : Started(r) => Started(r)', FlowTypes', DriverSide',
           \A d \in Drivers : drivers'[d].exists /\ drivers'[d].hasPhoto /\ drivers'[d].loc = Home
    PROVE  CalmInv'
<1>1. UNCHANGED <<rides, req, assign, log, pos, committed, faults>> /\ UNCHANGED <<match, mpos>>
  BY DEF rideVars, matchingVars
<1>2. IInv'
  BY <1>1, StutterInv DEF CalmInv, vars
<1>3. AllFit'
  BY DEF CalmInv, AllFit
<1>4. OnceEach' /\ MatchOK'
  <2>1. mpos' \in [Topics -> Nat] /\ mpos["ride.requested"] <= mpos'["ride.requested"]
    BY <1>1 DEF CalmInv, FlowTypes, Topics
  <2> QED BY <1>1, <2>1, QuietOnce, QuietMatch DEF CalmInv
<1>5. RideSide'
  BY <1>1, QuietRide DEF CalmInv
<1> QED BY <1>2, <1>3, <1>4, <1>5 DEF CalmInv

\* The types after a step of the consumer.
LEMMA JobTypes ==
    ASSUME CalmInv, UNCHANGED <<log, matchingVars, dfaults, rejoins>>,
           drivers' \in [Drivers -> D!Driver], pool' \in [Drivers -> {Home, NoPlace}], djob' \in D!Job,
           dpos' \in [Topics -> Nat], \A t \in Topics : dpos'[t] <= Len(log[t])
    PROVE  FlowTypes'
<1>1. UNCHANGED <<match, owner, mpos, mfaults>>
  BY DEF matchingVars
<1> QED BY <1>1 DEF CalmInv, FlowTypes

LEMMA JobFacts ==
    ASSUME CalmInv
    PROVE  /\ drivers \in [Drivers -> D!Driver] /\ pool \in [Drivers -> {Home, NoPlace}] /\ djob \in D!Job
           /\ dpos \in [Topics -> Nat] /\ \A t \in Topics : dpos[t] <= Len(log[t])
           /\ D!NoJob \in D!Job /\ D!NoJob.pc = "idle"
<1>1. D!NoJob \in D!Job /\ D!NoJob.pc = "idle"
  BY DEF D!NoJob, D!Job, D!Topics, D!DriverStatus
<1> QED BY <1>1 DEF CalmInv, FlowTypes

\* An event that is not ignored is one of an assignment or an end.
LEMMA IgnoredFacts ==
    ASSUME CalmInv, djob.pc = "idle", NEW t \in {"driver.assigned"} \cup EndTopics, NEW m, m = log[t][dpos[t] + 1],
           dpos[t] < Len(log[t])
    PROVE  D!Ignored(t, m) <=> ~Tells(t, m)
<1>1. Done(t) = dpos[t] /\ "driver.assigned" \notin EndTopics
  BY DEF Done, EndTopics
<1>2. ASSUME Tells(t, m) PROVE ~D!Ignored(t, m)
  <2>1. /\ m.driver \in Drivers /\ Given(m.ride, m.driver) /\ m.ride \in Work(m.driver)
        /\ t = "driver.assigned" => ~Started(m.ride)
        /\ t \in EndTopics => Started(m.ride)
    BY <1>1, <1>2, EventFacts
  <2>2. m.driver # NoDriver /\ drivers[m.driver].exists
    BY <2>1, EventsAssumption DEF CalmInv, AllFit
  <2>3. t = "driver.assigned" => drivers[m.driver].status # "busy"
    BY <2>1 DEF CalmInv, DriverSide, Placed, StatusOK
  <2>4. t \in EndTopics => drivers[m.driver].status = "busy"
    BY <2>1 DEF CalmInv, DriverSide, StatusOK
  <2> QED BY <1>1, <1>2, <2>2, <2>3, <2>4 DEF D!Ignored, Tells, EndTopics
<1>3. ASSUME ~Tells(t, m) PROVE D!Ignored(t, m)
  BY <1>3 DEF Tells, D!Ignored, EndTopics
<1> QED BY <1>2, <1>3

LEMMA ConsumeCalm ==
    ASSUME CalmInv, NEW t \in D!DriverTopics, DriverDoes(D!Consume(t))
    PROVE  CalmInv'
<1>1. /\ UNCHANGED <<log, matchingVars, rideVars, dreq, dfaults, rejoins, drivers, pool>>
      /\ djob.pc = "idle" /\ dpos[t] < Len(log[t])
  BY DEF DriverDoes, D!Consume, D!HasNext, D!tableVars
<1>2. t \in {"driver.assigned"} \cup EndTopics /\ t \in Topics
  <2>1. log["user.photo.updated"] = << >> /\ "user.photo.updated" \in Topics /\ dpos["user.photo.updated"] \in Nat
    BY DEF CalmInv, AllFit, FlowTypes, Topics
  <2>2. t # "user.photo.updated"
    BY <1>1, <2>1
  <2> QED BY <2>2 DEF D!DriverTopics, EndTopics, Topics
<1> PICK m : m = log[t][dpos[t] + 1]
  OBVIOUS
<1>3. IF D!Ignored(t, m) THEN D!Ack(t) ELSE djob' = D!JobFor(t, m) /\ UNCHANGED dpos
  BY DEF DriverDoes, D!Consume, D!NextMessage
<1>4. dpos[t] \in Nat /\ Len(log[t]) \in Nat
  BY <1>2, FlowLens DEF CalmInv
<1>5. UNCHANGED Held
  BY <1>1 DEF Held, matchingVars
<1>6. CASE ~Tells(t, m)
  <2>1. t \in EndTopics
    BY <1>2, <1>6 DEF Tells
  <2>2. dpos' = [dpos EXCEPT ![t] = @ + 1] /\ djob' = D!NoJob
    BY <1>1, <1>2, <1>3, <1>6, IgnoredFacts DEF D!Ack
  <2>3. /\ dpos' \in [Topics -> Nat] /\ \A u \in Topics : dpos'[u] <= Len(log[u])
        /\ dpos'[t] = dpos[t] + 1 /\ \A u \in Topics \ {t} : dpos'[u] = dpos[u]
    BY <1>1, <1>2, <1>4, <2>2, JobFacts
  <2>4. djob'.pc = "idle" /\ djob' \in D!Job
    BY <2>2, JobFacts
  <2>5. /\ \A u \in Topics \ {t} : Done(u)' = Done(u)
        /\ Done(t) = dpos[t] /\ Done(t)' = Done(t) + 1
    BY <1>1, <2>3, <2>4 DEF Done
  <2>6. /\ \A r : (Started(r)' <=> Started(r)) /\ (Freed(r)' <=> Freed(r))
        /\ \A r, d : Given(r, d)' <=> Given(r, d)
    BY <1>1, <1>2, <1>6, <2>1, <2>5, DoneView DEF CalmInv, DriverSide, EndTopics
  <2>7. \A d : Work(d)' = Work(d)
    BY <2>6 DEF Work
  <2>8. DriverSide'
    BY <1>1, <1>5, <2>4, <2>6, <2>7 DEF CalmInv, DriverSide, WorkJobOK, Placed, StatusOK
  <2>9. FlowTypes'
    BY <1>1, <2>3, <2>4, JobTypes, JobFacts
  <2> QED BY <1>1, <2>6, <2>8, <2>9, DriverStep DEF CalmInv, AllFit
<1>7. CASE Tells(t, m)
  <2>1. djob' = D!JobFor(t, m) /\ UNCHANGED dpos
    BY <1>1, <1>2, <1>3, <1>7, IgnoredFacts
  <2>2. m.driver \in Drivers
    <3>1. Done(t) = dpos[t]
      BY <1>1 DEF Done
    <3> QED BY <1>1, <1>2, <1>7, <3>1, EventFacts
  <2>3. drivers[m.driver].loc = Home /\ drivers[m.driver].hasPhoto
    BY <2>2 DEF CalmInv, AllFit
  <2>4. djob' = D!StatusJob(t, m.driver, IF t = "driver.assigned" THEN "busy" ELSE "available")
    BY <1>2, <2>1, <2>3 DEF D!JobFor, D!StatusAfterRide, EndTopics
  <2>5. /\ djob' \in D!Job /\ djob'.pc = "statusWrite" /\ djob'.topic = t /\ djob'.driver = m.driver
        /\ djob'.loc = Home /\ djob'.status = IF t = "driver.assigned" THEN "busy" ELSE "available"
    BY <1>2, <2>2, <2>3, <2>4, FlowAssumption DEF D!StatusJob, D!Job, D!Topics, Topics, D!DriverStatus
  <2>6. \A u \in Topics : Done(u)' = Done(u)
    BY <1>1, <2>1, <2>5 DEF Done
  <2>7. /\ \A r : (Started(r)' <=> Started(r)) /\ (Freed(r)' <=> Freed(r))
        /\ \A r, d : Given(r, d)' <=> Given(r, d)
    BY <1>1, <2>6, SameView
  <2>8. \A d : Work(d)' = Work(d)
    BY <2>7 DEF Work
  <2>9. WorkJobOK'
    BY <1>1, <1>2, <1>7, <2>1, <2>2, <2>5 DEF WorkJobOK
  <2>10. Placed' /\ StatusOK'
    BY <1>1, <1>5, <2>5, <2>7, <2>8 DEF CalmInv, DriverSide, Placed, StatusOK
  <2>11. FlowTypes'
    BY <1>1, <2>1, <2>5, JobTypes, JobFacts
  <2> QED BY <1>1, <2>7, <2>9, <2>10, <2>11, DriverStep DEF CalmInv, AllFit, DriverSide
<1> QED BY <1>6, <1>7

\* The event in progress.
LEMMA JobEvent ==
    ASSUME CalmInv, djob.pc # "idle", NEW t, t = djob.topic, NEW m, m = log[t][dpos[t] + 1], NEW d, d = djob.driver
    PROVE  /\ t \in {"driver.assigned"} \cup EndTopics /\ t \in Topics /\ "driver.assigned" \notin EndTopics
           /\ Tells(t, m) /\ d \in Drivers /\ m.driver = d
           /\ djob.loc = Home /\ djob.pc # "photoWrite" /\ djob.status = (IF t = "driver.assigned" THEN "busy" ELSE "available")
           /\ djob.pc = "statusRedis" => drivers[d].status = djob.status
           /\ dpos[t] \in Nat /\ dpos[t] < Len(log[t]) /\ dpos[t] + 1 <= Len(log[t])
<1>1. /\ t \in {"driver.assigned"} \cup EndTopics /\ t \in Topics /\ "driver.assigned" \notin EndTopics
      /\ dpos[t] < Len(log[t])
  BY DEF CalmInv, DriverSide, WorkJobOK, EndTopics, Topics
<1>2. dpos[t] \in Nat /\ Len(log[t]) \in Nat
  BY <1>1, FlowLens DEF CalmInv
<1> QED BY <1>1, <1>2 DEF CalmInv, DriverSide, WorkJobOK

LEMMA SystemWriteCalm ==
    ASSUME CalmInv, DriverDoes(D!SystemWrite)
    PROVE  CalmInv'
<1> PICK t : t = djob.topic
  OBVIOUS
<1> PICK m : m = log[t][dpos[t] + 1]
  OBVIOUS
<1> PICK d : d = djob.driver
  OBVIOUS
<1>1. /\ UNCHANGED <<log, matchingVars, rideVars, dreq, dfaults, rejoins, pool, dpos>>
      /\ djob.pc = "statusWrite" /\ djob' = [djob EXCEPT !.pc = "statusRedis"]
      /\ drivers' = [drivers EXCEPT ![d].status = djob.status]
  BY DEF DriverDoes, D!SystemWrite
<1>2. /\ t \in {"driver.assigned"} \cup EndTopics /\ t \in Topics /\ "driver.assigned" \notin EndTopics
      /\ Tells(t, m) /\ d \in Drivers /\ m.driver = d
      /\ djob.loc = Home /\ djob.status = (IF t = "driver.assigned" THEN "busy" ELSE "available")
      /\ dpos[t] \in Nat /\ dpos[t] < Len(log[t])
  BY <1>1, JobEvent
<1>3. /\ djob' \in D!Job /\ djob'.pc = "statusRedis" /\ djob'.topic = t /\ djob'.driver = d
      /\ djob'.loc = Home /\ djob'.status = djob.status
  BY <1>1, <1>2, JobFacts DEF D!Job
<1>4. /\ drivers' \in [Drivers -> D!Driver] /\ drivers'[d].status = djob.status
      /\ \A e \in Drivers \ {d} : drivers'[e] = drivers[e]
      /\ \A e \in Drivers : drivers'[e].exists /\ drivers'[e].hasPhoto /\ drivers'[e].loc = Home
  <2>1. drivers[d] \in D!Driver /\ djob.status \in D!DriverStatus
    BY <1>2, JobFacts DEF D!Job
  <2>2. /\ [drivers[d] EXCEPT !.status = djob.status] \in D!Driver
        /\ [drivers[d] EXCEPT !.status = djob.status].status = djob.status
        /\ [drivers[d] EXCEPT !.status = djob.status].exists = drivers[d].exists
        /\ [drivers[d] EXCEPT !.status = djob.status].hasPhoto = drivers[d].hasPhoto
        /\ [drivers[d] EXCEPT !.status = djob.status].loc = drivers[d].loc
    BY <2>1 DEF D!Driver
  <2>3. drivers' \in [Drivers -> D!Driver] /\ drivers'[d] = [drivers[d] EXCEPT !.status = djob.status]
        /\ \A e \in Drivers \ {d} : drivers'[e] = drivers[e]
    BY <1>1, <1>2, <2>2, JobFacts
  <2>4. ASSUME NEW e \in Drivers PROVE drivers'[e].exists /\ drivers'[e].hasPhoto /\ drivers'[e].loc = Home
    <3>1. drivers[e].exists /\ drivers[e].hasPhoto /\ drivers[e].loc = Home
      BY DEF CalmInv, AllFit
    <3> QED BY <2>2, <2>3, <3>1
  <2> QED BY <2>2, <2>3, <2>4
<1>5. UNCHANGED Held /\ \A u \in Topics \ {t} : Done(u)' = Done(u)
  BY <1>1, <1>3 DEF Held, matchingVars, Done
<1>6. WorkJobOK'
  BY <1>1, <1>2, <1>3, <1>4 DEF WorkJobOK
<1>7. FlowTypes'
  BY <1>1, <1>3, <1>4, JobTypes, JobFacts
<1>8. Done(t) = dpos[t]
  BY <1>1 DEF Done
<1>9. /\ Given(m.ride, d) /\ m.ride \in Work(d)
      /\ t = "driver.assigned" => ~Started(m.ride)
      /\ t \in EndTopics => Started(m.ride)
  BY <1>2, <1>8, EventFacts
<1>10. CASE t = "driver.assigned"
  <2>1. Done(t)' = Done(t) + 1
    BY <1>1, <1>3, <1>8, <1>10 DEF Done
  <2>2. /\ \A r : Started(r)' <=> Started(r) \/ m.ride = r
        /\ \A r : Freed(r)' <=> Freed(r)
        /\ \A r, e : Given(r, e)' <=> Given(r, e)
    BY <1>1, <1>2, <1>5, <1>8, <1>10, <2>1, DoneView DEF CalmInv, DriverSide
  <2>3. \A e : Work(e)' = Work(e)
    BY <2>2 DEF Work
  <2>4. Placed'
    BY <1>1, <1>5, <2>3 DEF CalmInv, DriverSide, Placed
  <2>5. StatusOK'
    <3>1. ASSUME NEW e \in Drivers, e # d
          PROVE  /\ drivers'[e].status = "busy" => \E r \in Work(e)' : Started(r)'
                 /\ \A r \in Work(e)' : Started(r)' => drivers'[e].status = "busy"
      <4>1. \A r \in Work(e) : r # m.ride
        BY <1>9, <3>1, OneDriver DEF Work, CalmInv, OnceEach
      <4> QED BY <1>1, <1>4, <2>2, <2>3, <3>1, <4>1 DEF CalmInv, DriverSide, StatusOK
    <3>2. drivers'[d].status = "busy" /\ \E r \in Work(d)' : Started(r)'
      BY <1>2, <1>4, <1>9, <1>10, <2>2, <2>3
    <3> QED BY <3>1, <3>2 DEF StatusOK
  <2> QED BY <1>1, <1>4, <1>6, <1>7, <2>2, <2>4, <2>5, DriverStep DEF DriverSide
<1>11. CASE t \in EndTopics
  <2>1. Done(t)' = Done(t)
    BY <1>1, <1>2, <1>3, <1>8, <1>11 DEF Done
  <2>2. /\ \A r : (Started(r)' <=> Started(r)) /\ (Freed(r)' <=> Freed(r))
        /\ \A r, e : Given(r, e)' <=> Given(r, e)
    BY <1>1, <1>5, <2>1, SameView
  <2>3. \A e : Work(e)' = Work(e)
    BY <2>2 DEF Work
  <2>4. Placed'
    BY <1>1, <1>5, <2>3 DEF CalmInv, DriverSide, Placed
  <2>5. StatusOK'
    <3>1. ASSUME NEW e \in Drivers, e # d
          PROVE  /\ drivers'[e].status = "busy" => \E r \in Work(e)' : Started(r)'
                 /\ \A r \in Work(e)' : Started(r)' => drivers'[e].status = "busy"
      BY <1>1, <1>4, <2>2, <2>3, <3>1 DEF CalmInv, DriverSide, StatusOK
    <3>2. drivers'[d].status = "available" /\ djob'.status = "available"
      BY <1>2, <1>3, <1>4, <1>11
    <3> QED BY <1>3, <3>1, <3>2 DEF StatusOK
  <2> QED BY <1>1, <1>4, <1>6, <1>7, <2>2, <2>4, <2>5, DriverStep DEF DriverSide
<1> QED BY <1>2, <1>10, <1>11

LEMMA SystemRedisCalm ==
    ASSUME CalmInv, DriverDoes(D!SystemRedis)
    PROVE  CalmInv'
<1> PICK t : t = djob.topic
  OBVIOUS
<1> PICK m : m = log[t][dpos[t] + 1]
  OBVIOUS
<1> PICK d : d = djob.driver
  OBVIOUS
<1>1. /\ UNCHANGED <<log, matchingVars, rideVars, dreq, dfaults, rejoins, drivers, dpos>>
      /\ djob.pc = "statusRedis" /\ djob' = [djob EXCEPT !.pc = "statusPublish"]
      /\ pool' = D!PoolAfter(d, djob.status, djob.loc)
  BY DEF DriverDoes, D!SystemRedis
<1>2. /\ t \in {"driver.assigned"} \cup EndTopics /\ t \in Topics /\ "driver.assigned" \notin EndTopics
      /\ Tells(t, m) /\ d \in Drivers /\ m.driver = d
      /\ djob.loc = Home /\ djob.status = (IF t = "driver.assigned" THEN "busy" ELSE "available")
      /\ drivers[d].status = djob.status
      /\ dpos[t] \in Nat /\ dpos[t] < Len(log[t])
  BY <1>1, JobEvent
<1>3. /\ djob' \in D!Job /\ djob'.pc = "statusPublish" /\ djob'.topic = t /\ djob'.driver = d
      /\ djob'.loc = Home /\ djob'.status = djob.status
  BY <1>1, <1>2, JobFacts DEF D!Job
<1>4. /\ pool' \in [Drivers -> {Home, NoPlace}]
      /\ \A e \in Drivers \ {d} : pool'[e] = pool[e]
      /\ t = "driver.assigned" => pool'[d] = NoPlace
  BY <1>1, <1>2, JobFacts DEF D!PoolAfter
<1>5. UNCHANGED Held /\ \A u \in Topics \ {t} : Done(u)' = Done(u)
  BY <1>1, <1>3 DEF Held, matchingVars, Done
<1>6. WorkJobOK'
  BY <1>1, <1>2, <1>3 DEF WorkJobOK
<1>7. FlowTypes'
  BY <1>1, <1>3, <1>4, JobTypes, JobFacts
<1>8. CASE t = "driver.assigned"
  <2>1. Done(t)' = Done(t)
    BY <1>1, <1>3, <1>8 DEF Done
  <2>2. /\ \A r : (Started(r)' <=> Started(r)) /\ (Freed(r)' <=> Freed(r))
        /\ \A r, e : Given(r, e)' <=> Given(r, e)
    BY <1>1, <1>5, <2>1, SameView
  <2>3. \A e : Work(e)' = Work(e)
    BY <2>2 DEF Work
  <2>4. Placed'
    BY <1>4, <1>5, <1>8, <2>3 DEF CalmInv, DriverSide, Placed
  <2>5. StatusOK'
    BY <1>1, <1>2, <1>8, <2>2, <2>3 DEF CalmInv, DriverSide, StatusOK
  <2> QED BY <1>1, <1>6, <1>7, <2>2, <2>4, <2>5, DriverStep DEF CalmInv, AllFit, DriverSide
<1>9. CASE t \in EndTopics
  <2>1. Done(t) = dpos[t] /\ Done(t)' = Done(t) + 1
    BY <1>1, <1>2, <1>3, <1>9 DEF Done
  <2>2. /\ \A r : Started(r)' <=> Started(r)
        /\ \A r : Freed(r)' <=> Freed(r) \/ m.ride = r
        /\ \A r, e : Given(r, e)' <=> Given(r, e)
    BY <1>1, <1>2, <1>5, <1>9, <2>1, DoneView DEF CalmInv, DriverSide
  <2>3. Given(m.ride, d) /\ m.ride \in Work(d)
    BY <1>2, <2>1, EventFacts
  <2>4. Work(d)' = {}
    BY <1>2, <2>2, <2>3 DEF CalmInv, DriverSide, Placed, Work
  <2>5. ASSUME NEW e \in Drivers, e # d PROVE Work(e)' = Work(e)
    <3>1. \A r \in Work(e) : r # m.ride
      BY <2>3, <2>5, OneDriver DEF Work, CalmInv, OnceEach
    <3> QED BY <2>2, <3>1 DEF Work
  <2>6. Placed'
    <3>1. d \notin Held
      BY <1>2, <2>3 DEF CalmInv, DriverSide, Placed
    <3> QED BY <1>4, <1>5, <2>4, <2>5, <3>1 DEF CalmInv, DriverSide, Placed
  <2>7. StatusOK'
    <3>1. drivers[d].status = "available"
      BY <1>2, <1>9
    <3>2. ASSUME NEW e \in Drivers, e # d
          PROVE  /\ drivers'[e].status = "busy" => \E r \in Work(e)' : Started(r)'
                 /\ \A r \in Work(e)' : Started(r)' => drivers'[e].status = "busy"
      BY <1>1, <2>2, <2>5, <3>2 DEF CalmInv, DriverSide, StatusOK
    <3> QED BY <1>1, <2>4, <3>1, <3>2 DEF StatusOK
  <2> QED BY <1>1, <1>6, <1>7, <2>2, <2>6, <2>7, DriverStep DEF CalmInv, AllFit, DriverSide
<1> QED BY <1>2, <1>8, <1>9

LEMMA SystemPublishCalm ==
    ASSUME CalmInv, DriverDoes(D!SystemPublish)
    PROVE  CalmInv'
<1> PICK t : t = djob.topic
  OBVIOUS
<1>1. /\ UNCHANGED <<log, matchingVars, rideVars, dreq, dfaults, rejoins, drivers, pool>>
      /\ djob.pc = "statusPublish" /\ djob' = D!NoJob /\ dpos' = [dpos EXCEPT ![t] = @ + 1]
  BY DEF DriverDoes, D!SystemPublish, D!Ack
<1>2. t \in Topics /\ dpos[t] \in Nat /\ dpos[t] + 1 <= Len(log[t])
  BY <1>1, JobEvent
<1>3. /\ dpos' \in [Topics -> Nat] /\ \A u \in Topics : dpos'[u] <= Len(log[u])
      /\ dpos'[t] = dpos[t] + 1 /\ \A u \in Topics \ {t} : dpos'[u] = dpos[u]
  BY <1>1, <1>2, JobFacts
<1>4. djob'.pc = "idle" /\ djob' \in D!Job
  BY <1>1, JobFacts
<1>5. UNCHANGED Held /\ \A u \in Topics : Done(u)' = Done(u)
  BY <1>1, <1>3, <1>4 DEF Held, matchingVars, Done
<1>6. /\ \A r : (Started(r)' <=> Started(r)) /\ (Freed(r)' <=> Freed(r))
      /\ \A r, d : Given(r, d)' <=> Given(r, d)
  BY <1>1, <1>5, SameView
<1>7. \A d : Work(d)' = Work(d)
  BY <1>6 DEF Work
<1>8. DriverSide'
  BY <1>1, <1>4, <1>5, <1>6, <1>7 DEF CalmInv, DriverSide, WorkJobOK, Placed, StatusOK
<1>9. FlowTypes'
  BY <1>1, <1>3, <1>4, JobTypes, JobFacts
<1> QED BY <1>1, <1>6, <1>8, <1>9, DriverStep DEF CalmInv, AllFit

-----------------------------------------------------------------------------
(* The clients wait, nobody reports a position, and nothing fails.         *)

Calm == Patient /\ ~Pings /\ MaxTrouble = 0

LEMMA CalmStart == FlowInit => CalmInv
<1> SUFFICES ASSUME FlowInit PROVE CalmInv
  OBVIOUS
<1>1. /\ Init /\ pool = [d \in Drivers |-> Home]
      /\ drivers = [d \in Drivers |-> [exists |-> TRUE, status |-> "available", hasPhoto |-> TRUE, loc |-> Home]]
      /\ dreq = [s \in Slots |-> D!NoRequest] /\ djob = D!NoJob /\ dpos = Offsets /\ dfaults = 0 /\ rejoins = 0
      /\ match = [w \in {Matcher} |-> M!NoMatch] /\ owner = [t \in M!MatchingTopics |-> Matcher]
      /\ mpos = Offsets /\ mfaults = 0
  BY DEF FlowInit
<1>2. IInv
  BY <1>1, InitInv
<1>3. /\ \A t \in Topics : log[t] = << >>
      /\ \A r \in Rides : rides[r] = NoRow /\ req[r] = NoRequest
      /\ assign = NoAssign /\ Offset = 0
  BY <1>1, FlowAssumption DEF Init, EmptyLog, Offset, Topics
<1>4. "driver.assigned" \in Topics /\ "ride.requested" \in Topics /\ EndTopics \subseteq Topics
      /\ "user.photo.updated" \in Topics /\ "driver.declined" \in Topics /\ Assigned = << >>
  BY <1>3 DEF Topics, EndTopics, Assigned
<1>5. /\ djob.pc = "idle" /\ djob \in D!Job /\ match[Matcher].pc = "idle" /\ match[Matcher] = M!NoMatch
      /\ \A s \in Slots : dreq[s].pc = "idle"
  BY <1>1 DEF D!NoJob, D!Job, D!Topics, Topics, D!DriverStatus, M!NoMatch, D!NoRequest
<1>6. \A t \in Topics : dpos[t] = 0 /\ Done(t) = 0 /\ Len(log[t]) = 0
  BY <1>1, <1>3, <1>5 DEF Done, Offsets
<1>7. FlowTypes
  <2>1. drivers \in [Drivers -> D!Driver] /\ pool \in [Drivers -> {Home, NoPlace}]
    BY <1>1, FlowAssumption DEF D!Driver, D!DriverStatus
  <2>2. M!NoMatch \in M!Match
    BY DEF M!NoMatch, M!Match, M!MatchingTopics
  <2>3. dpos \in [Topics -> Nat] /\ mpos \in [Topics -> Nat] /\ mpos["ride.requested"] = 0
    BY <1>1, <1>4 DEF Offsets
  <2>4. match \in [{Matcher} -> M!Match]
    BY <1>1, <2>2
  <2>5. /\ \A t \in Topics : dpos[t] <= Len(log[t])
        /\ mpos["ride.requested"] <= Len(log["ride.requested"])
    BY <1>4, <1>6, <2>3
  <2>6. dfaults \in Nat /\ rejoins \in Nat /\ mfaults \in Nat
    BY <1>1
  <2> QED BY <1>1, <1>5, <2>1, <2>3, <2>4, <2>5, <2>6 DEF FlowTypes
<1>8. AllFit
  BY <1>1, <1>3, <1>4, <1>5 DEF AllFit
<1>9. /\ \A r : ~Started(r) /\ ~Ended(r) /\ ~Freed(r)
      /\ \A r, d : ~Given(r, d)
  BY <1>4, <1>6 DEF Started, Ended, Freed, Among, Given
<1>10. OnceEach
  BY <1>4, <1>6 DEF OnceEach, RequestedOnce, AssignedOnce, EndsOnce
<1>11. MatchOK
  BY <1>5 DEF MatchOK
<1>12. ClientsOK
  BY <1>3 DEF ClientsOK, ClientOK, RowOK, NoRow, NoRequest, EndStatus
<1>13. EndsOK /\ NotYet
  BY <1>3, <1>4, <1>6 DEF EndsOK, NotYet
<1>14. DriverSide
  <2>1. Held = {} /\ \A d : Work(d) = {}
    BY <1>5, <1>9 DEF Held, Work
  <2>2. \A d \in Drivers : drivers[d].status # "busy"
    BY <1>1
  <2> QED BY <1>5, <2>1, <2>2 DEF DriverSide, WorkJobOK, Placed, StatusOK
<1> QED BY <1>2, <1>7, <1>8, <1>10, <1>11, <1>12, <1>13, <1>14 DEF CalmInv, RideSide

LEMMA CalmStutter ==
    ASSUME CalmInv, UNCHANGED flowVars
    PROVE  CalmInv'
<1>1. /\ UNCHANGED <<log, matchingVars, rideVars, dreq, dfaults, rejoins>>
      /\ UNCHANGED <<drivers, pool, djob, dpos, match>>
  BY DEF flowVars, driverVars, matchingVars
<1>2. DriverSide'
  BY <1>1, QuietDriver DEF CalmInv, Held
<1>3. \A r : Started(r) => Started(r)'
  BY <1>1, SameView, SameDone
<1>4. FlowTypes'
  BY <1>1, JobTypes, JobFacts
<1> QED BY <1>1, <1>2, <1>3, <1>4, DriverStep DEF CalmInv, AllFit

LEMMA NoTrouble ==
    ASSUME CalmInv, Calm
    PROVE  ~TroubleAllowed
  BY DEF CalmInv, FlowTypes, IInv, TypeOK, Calm, TroubleAllowed

\* CalmInv is inductive when the clients wait, nobody reports a position and
\* nothing fails.
THEOREM CalmStepInv == Calm /\ CalmInv /\ [FlowNext]_flowVars => CalmInv'
<1> SUFFICES ASSUME Calm, CalmInv, [FlowNext]_flowVars PROVE CalmInv'
  OBVIOUS
<1>1. ASSUME NEW s \in Slots, Ping(s) PROVE CalmInv'
  BY <1>1 DEF Ping, DriverDoes, Calm
<1>2. ASSUME NEW s \in Slots, DriverRequestStep(s) PROVE CalmInv'
  <2>1. dreq[s].pc = "idle"
    BY DEF CalmInv, AllFit
  <2> QED BY <1>2, <2>1 DEF DriverRequestStep, DriverDoes, D!HttpStep, D!Insert, D!StatusWrite, D!StatusRedis,
                            D!StatusPublish, D!LocRedis, D!LocWrite
<1>3. CASE DriverConsumes
  <2>1. ~D!PhotoWrite
    BY JobEvent DEF D!PhotoWrite
  <2>2. \/ \E t \in D!DriverTopics : DriverDoes(D!Consume(t))
        \/ DriverDoes(D!SystemWrite) \/ DriverDoes(D!SystemRedis) \/ DriverDoes(D!SystemPublish)
    BY <1>3, <2>1 DEF DriverConsumes, DriverDoes, D!ConsumerStep
  <2> QED BY <2>2, ConsumeCalm, SystemWriteCalm, SystemRedisCalm, SystemPublishCalm
<1>4. CASE DriverTrouble \/ MatcherTrouble \/ RideTrouble
  BY <1>4, NoTrouble DEF DriverTrouble, MatcherTrouble, RideTrouble
<1>5. CASE MatcherWorks
  <2>1. \/ \E t \in M!MatchingTopics : MatchingDoes(M!Receive(Matcher, t))
        \/ MatchingDoes(M!Claim(Matcher)) \/ MatchingDoes(M!NobodyInRange(Matcher))
        \/ MatchingDoes(M!PublishAssigned(Matcher))
    BY <1>5 DEF MatcherWorks, MatchingDoes, M!MatcherStep
  <2> QED BY <2>1, ReceiveCalm, ClaimCalm, NobodyCalm, PublishAssignedCalm
<1>6. ASSUME NEW r \in Rides, ClientRequests(r) PROVE CalmInv'
  BY <1>6, RequestCalm
<1>7. ASSUME NEW r \in Rides, ClientUpdates(r) PROVE CalmInv'
  BY <1>7, UpdateCalm DEF Calm
<1>8. ASSUME NEW r \in Rides, RideRequestStep(r) PROVE CalmInv'
  <2>1. \/ RideDoes(PublishRequested(r)) \/ RideDoes(WriteStatus(r)) \/ RideDoes(PublishStatus(r))
    BY <1>8 DEF RideRequestStep, RideDoes, RequestStep
  <2> QED BY <2>1, PublishRequestedCalm, WriteCalm, PublishStatusCalm
<1>9. CASE RideConsumes
  <2>1. RideDoes(AssignDriver) \/ RideDoes(AnnounceMatch)
    BY <1>9 DEF RideConsumes, RideDoes, AssignStep
  <2> QED BY <2>1, AssignCalm, AnnounceCalm
<1>10. CASE UNCHANGED flowVars
  BY <1>10, CalmStutter
<1> QED BY <1>1, <1>2, <1>3, <1>4, <1>5, <1>6, <1>7, <1>8, <1>9, <1>10 DEF FlowNext

THEOREM CalmInvariance ==
    ASSUME Calm
    PROVE  FlowSpec => []CalmInv
<1>1. FlowInit => CalmInv
  BY CalmStart
<1>2. CalmInv /\ [FlowNext]_flowVars => CalmInv'
  BY CalmStepInv
<1> QED BY <1>1, <1>2, PTL DEF FlowSpec

\* The rides of a driver that are open in the table are their work.
LEMMA OpenIsWork ==
    ASSUME CalmInv, NEW d \in Drivers, NEW r \in RidesOf(d)
    PROVE  r \in Work(d)
<1>1. r \in Rides /\ rides[r].driver = d /\ rides[r].status \notin EndStatus
  BY DEF RidesOf, Open, EndStatus
<1>2. Given(r, d)
  BY <1>1, OneDriver, EventsAssumption DEF CalmInv, OnceEach
<1>3. ~Freed(r)
  BY <1>1, EndedRow, WorkFacts DEF CalmInv, DriverSide
<1> QED BY <1>1, <1>2, <1>3 DEF Work

\* OneOpenRidePerDriver: whatever the number of rides and drivers and however
\* the services' steps interleave, matching never gives a second ride to a
\* driver whose ride is open.
THEOREM OneRideEach ==
    ASSUME Calm
    PROVE  FlowSpec => []OneOpenRidePerDriver
<1>1. CalmInv => OneOpenRidePerDriver
  BY OpenIsWork DEF OneOpenRidePerDriver, CalmInv, DriverSide, Placed
<1> QED BY <1>1, CalmInvariance, PTL

\* Without faults nothing is jumped over.
NothingLost == committed = FirstCommits

LEMMA NothingLostStays ==
    ASSUME Calm
    PROVE  FlowSpec => [](CalmInv /\ NothingLost)
<1>1. FlowInit => NothingLost
  BY DEF FlowInit, Init, NothingLost
<1>2. NothingLost /\ CalmInv /\ [FlowNext]_flowVars => NothingLost'
  <2> SUFFICES ASSUME NothingLost, CalmInv, [FlowNext]_flowVars PROVE committed' = committed
    BY DEF NothingLost
  <2>1. ~DriverTrouble /\ ~MatcherTrouble /\ ~RideTrouble
    BY NoTrouble DEF DriverTrouble, MatcherTrouble, RideTrouble
  <2>2. CASE RideConsumes \/ \E r \in Rides : ClientRequests(r) \/ ClientUpdates(r) \/ RideRequestStep(r)
    BY <2>2 DEF RideConsumes, ClientRequests, ClientUpdates, RideRequestStep, RideDoes, AssignStep, AssignDriver,
                AnnounceMatch, RequestStep, requestRide, updateStatus, PublishRequested, WriteStatus, PublishStatus
  <2>3. CASE UNCHANGED rideVars
    BY <2>3 DEF rideVars
  <2>4. CASE UNCHANGED flowVars
    BY <2>4 DEF flowVars, rideVars
  <2>5. CASE (\E s \in Slots : Ping(s) \/ DriverRequestStep(s)) \/ DriverConsumes \/ MatcherWorks
    BY <2>5, <2>3 DEF Ping, DriverRequestStep, DriverConsumes, MatcherWorks, DriverDoes, MatchingDoes
  <2> QED BY <2>1, <2>2, <2>4, <2>5 DEF FlowNext
<1> QED BY <1>1, <1>2, CalmInvariance, PTL DEF FlowSpec

\* BusyHasOpenRide: once everything is handled, a driver who is busy has a ride
\* that its client can still end; nobody is left busy for ever.
THEOREM BusyHaveRides ==
    ASSUME Calm
    PROVE  FlowSpec => []BusyHasOpenRide
<1>1. CalmInv /\ NothingLost => BusyHasOpenRide
  <2> SUFFICES ASSUME CalmInv, NothingLost, Settled, NEW d \in Drivers, drivers[d].status = "busy"
               PROVE  RidesOf(d) # {}
    BY DEF BusyHasOpenRide
  <2>1. PICK r \in Work(d) : Started(r)
    BY DEF CalmInv, DriverSide, StatusOK
  <2>2. r \in Rides /\ Given(r, d) /\ ~Freed(r)
    BY <2>1 DEF Work
  <2>3. \A t \in EndTopics : Done(t) = Len(log[t])
    BY DEF Settled, Drained, EndTopics, D!DriverTopics, Done
  <2>4. ~Ended(r)
    BY <2>2, <2>3 DEF Ended, Freed
  <2>5. rides[r].status \notin EndStatus
    BY <2>2, <2>4 DEF Settled, CalmInv, RideSide, ClientsOK, RowOK
  <2>6. PICK i \in 1 .. Len(Assigned) : Assigned[i].ride = r
    BY <2>2 DEF Given
  <2>7. rides[r].exists
    <3>1. Assigned[i] \in Messages(Assigned)
      BY DEF Messages
    <3> QED BY <2>6, <3>1 DEF CalmInv, IInv, AssignedExists, Assigned
  <2>8. rides[r].driver = d
    <3>1. Offset = Len(Assigned) /\ Len(Assigned) \in Nat
      BY TypeFacts DEF Settled, Drained, Offset, Assigned, CalmInv, IInv
    <3>2. LastAssigned(r, Len(Assigned), rides[r].driver)
      <4>1. r \notin Forgotten
        BY TypeFacts, FirstCommitsOK DEF NothingLost, Forgotten, CalmInv, IInv
      <4>2. assign.pc = "idle" /\ Drained(log, pos, {"driver.assigned"})
        BY DEF Settled
      <4> QED BY <2>2, <4>1, <4>2, IInvLast DEF DriverIsLastAssigned, CalmInv, Assigned
    <3>3. Given(r, rides[r].driver)
      BY <2>6, <3>2 DEF LastAssigned, Given, Assigned
    <3> QED BY <2>2, <3>3, OneDriver DEF CalmInv, OnceEach
  <2> QED BY <2>2, <2>5, <2>7, <2>8 DEF RidesOf, Open, EndStatus
<1> QED BY <1>1, NothingLostStays, PTL

-----------------------------------------------------------------------------
(* The composition, whatever its clients do and whatever fails.            *)

Told(r, d) == [ride |-> r, driver |-> d] \in Messages(Assigned)

\* Matching works on rides that were announced.
MatcherOK ==
    /\ match \in [{Matcher} -> M!Match] /\ owner = [t \in M!MatchingTopics |-> Matcher]
    /\ mpos \in [Topics -> Nat] /\ mcommitted \in [Topics -> Commit]
    /\ log["driver.declined"] = << >>
    /\ match[Matcher].pc # "idle" => \E n \in Messages(log["ride.requested"]) : n.ride = match[Matcher].ride
    /\ match[Matcher].pc = "publish" => match[Matcher].driver \in Drivers

\* A request that has read the driver of a ride has read one who was assigned to it.
Updating(s) == req[s].pc \in {"write", "publishStatus"}
ReadsOK == \A s \in Clients : Updating(s) /\ req[s].read.driver # NoDriver => Told(req[s].ride, req[s].read.driver)

FlowInv == IInv /\ MatcherOK /\ ReadsOK

\* What ride-service does, apart from the bound on the events.
RideOwn ==
    \/ \E s \in Clients :
        \/ \E r \in Rides :
            \/ \E pickup \in Pickups : requestRide(s, r, pickup)
            \/ \E status \in RideStatus, fare \in Fares \cup {NoFare} : updateStatus(s, r, status, fare)
        \/ RequestStep(s) \/ RequestFails(s)
    \/ AssignStep \/ HandlerThrows \/ Crash

LEMMA RideOwnInv ==
    ASSUME IInv, RideOwn
    PROVE  IInv'
<1>1. ASSUME NEW s \in Clients, NEW r \in Rides, NEW pickup \in Pickups, requestRide(s, r, pickup) PROVE IInv'
  BY <1>1, RequestRideInv
<1>2. ASSUME NEW s \in Clients, NEW r \in Rides, NEW status \in RideStatus, NEW fare \in Fares \cup {NoFare},
             updateStatus(s, r, status, fare)
      PROVE  IInv'
  BY <1>2, UpdateStatusInv
<1>3. ASSUME NEW s \in Clients, RequestStep(s) \/ RequestFails(s) PROVE IInv'
  BY <1>3, PublishRequestedInv, WriteStatusInv, PublishStatusInv, RequestFailsInv DEF RequestStep
<1>4. CASE AssignStep \/ HandlerThrows \/ Crash
  BY <1>4, AssignDriverInv, AnnounceMatchInv, HandlerThrowsInv, CrashInv DEF AssignStep
<1> QED BY <1>1, <1>2, <1>3, <1>4 DEF RideOwn

\* An event is written behind the others, and never to driver.declined.
OneMore == \E t \in Topics \ {"driver.declined"} : \E m : Carries(t, m) /\ log' = Published(log, t, m)

LEMMA MessagesStay ==
    ASSUME LogOK(log), UNCHANGED log \/ OneMore
    PROVE  /\ log'["driver.declined"] = log["driver.declined"]
           /\ \A u \in Topics : Messages(log[u]) \subseteq Messages(log'[u])
           /\ \A r, d : Told(r, d) => Told(r, d)'
<1>1. CASE UNCHANGED log
  BY <1>1 DEF Told, Assigned
<1>2. CASE OneMore
  <2>1. PICK t \in Topics \ {"driver.declined"} : \E m : Carries(t, m) /\ log' = Published(log, t, m)
    BY <1>2 DEF OneMore
  <2>2. PICK m : Carries(t, m) /\ log' = Published(log, t, m)
    BY <2>1
  <2>3. Messages(log'[t]) = Messages(log[t]) \cup {m}
    BY <2>2, LogGrows
  <2>6. \A u \in Topics \ {t} : log'[u] = log[u]
    BY <2>2, LogGrows
  <2>4. "driver.declined" \in Topics \ {t} /\ "driver.assigned" \in Topics
    BY DEF Topics
  <2>5. \A u \in Topics : Messages(log[u]) \subseteq Messages(log'[u])
    BY <2>3, <2>6
  <2> QED BY <2>3, <2>4, <2>5, <2>6 DEF Told, Assigned
<1> QED BY <1>1, <1>2

LEMMA ReadsStay ==
    ASSUME ReadsOK, \A r, d : Told(r, d) => Told(r, d)',
           \A s \in Clients :
               \/ ~Updating(s)'
               \/ Updating(s) /\ req'[s].ride = req[s].ride /\ req'[s].read = req[s].read
               \/ req'[s].read.driver # NoDriver => Told(req'[s].ride, req'[s].read.driver)
    PROVE  ReadsOK'
  BY DEF ReadsOK, Updating

\* The driver in a ride's row was assigned to it.
LEMMA RowDriver ==
    ASSUME IInv, NEW r \in Rides, rides[r].driver # NoDriver
    PROVE  Told(r, rides[r].driver)
<1>1. PICK n \in 0 .. Len(Assigned) : LastAssigned(r, n, rides[r].driver)
  BY DEF IInv, DriversOK, RowAfter
<1>2. Offset \in Nat /\ Len(Assigned) \in Nat
  BY TypeFacts DEF IInv
<1>3. PICK i \in 1 .. n : Assigned[i].ride = r /\ Assigned[i].driver = rides[r].driver
  BY <1>1 DEF LastAssigned, Assigned
<1>4. i \in 1 .. Len(Assigned) /\ Assigned[i] \in AssignedEvent
  BY <1>2, AssignedTypes
<1>5. Assigned[i] = [ride |-> r, driver |-> rides[r].driver]
  BY <1>3, <1>4 DEF AssignedEvent
<1> QED BY <1>4, <1>5 DEF Told, Messages

\* What ride-service sends.
LEMMA RideSends ==
    ASSUME FlowInv, RideOwn
    PROVE  UNCHANGED log \/ OneMore
<1>1. ASSUME NEW s \in Clients, PublishRequested(s) PROVE OneMore
  <2>1. req[s].ride \in Rides /\ req[s].pickup \in Pickups
    BY <1>1 DEF FlowInv, IInv, RequestsOK, RequestOK, PublishRequested
  <2>2. Carries("ride.requested", [ride |-> req[s].ride, pickup |-> req[s].pickup])
        /\ "ride.requested" \in Topics \ {"driver.declined"}
    BY <2>1 DEF Carries, RequestEvent, Topics
  <2> QED BY <1>1, <2>2 DEF PublishRequested, OneMore
<1>2. ASSUME NEW s \in Clients, PublishStatus(s) PROVE OneMore
  <2> DEFINE m == [ride |-> req[s].ride, driver |-> req[s].read.driver, status |-> req[s].status,
                   fare |-> PublishedFare(req[s].read.fare, req[s].fare)]
  <2>1. req[s].ride \in Rides /\ req[s] \in Request
    BY <1>2 DEF FlowInv, IInv, TypeOK, RequestsOK, RequestOK, PublishStatus
  <2>2. m \in RideEvent
    BY <2>1 DEF Request, RideEvent, Ride, PublishedFare
  <2>3. Carries(TopicOf(req[s].status), m) /\ TopicOf(req[s].status) \in Topics \ {"driver.declined"}
    BY <2>2 DEF Carries, TopicOf, Topics
  <2> QED BY <1>2, <2>3 DEF PublishStatus, OneMore
<1>3. ASSUME AnnounceMatch PROVE OneMore
  <2> DEFINE m == [ride |-> assign.ride, driver |-> assign.driver, status |-> "matched", fare |-> NoFare]
  <2>1. HasNext(Assigned, Offset) /\ NextMessage(Assigned, Offset) = [ride |-> assign.ride, driver |-> assign.driver]
    BY <1>3 DEF FlowInv, IInv, AssignOK, AnnounceMatch
  <2>2. [ride |-> assign.ride, driver |-> assign.driver] \in AssignedEvent
    BY <2>1, TypeFacts, NextIsMessage DEF FlowInv, IInv
  <2>3. Carries("ride.status.updated", m) /\ "ride.status.updated" \in Topics \ {"driver.declined"}
    BY <2>2 DEF AssignedEvent, Carries, RideEvent, RideStatus, Topics
  <2> QED BY <1>3, <2>3 DEF AnnounceMatch, OneMore
<1>4. ASSUME NEW s \in Clients, NEW r \in Rides, NEW pickup \in Pickups, requestRide(s, r, pickup) PROVE UNCHANGED log
  BY <1>4 DEF requestRide
<1>5. ASSUME NEW s \in Clients, NEW r \in Rides, NEW status \in RideStatus, NEW fare \in Fares \cup {NoFare},
             updateStatus(s, r, status, fare)
      PROVE  UNCHANGED log
  BY <1>5 DEF updateStatus
<1>6. ASSUME NEW s \in Clients, WriteStatus(s) \/ RequestFails(s) PROVE UNCHANGED log
  BY <1>6 DEF WriteStatus, RequestFails
<1>7. CASE AssignDriver \/ HandlerThrows \/ Crash
  BY <1>7 DEF AssignDriver, HandlerThrows, Crash
<1> QED BY <1>1, <1>2, <1>3, <1>4, <1>5, <1>6, <1>7 DEF RideOwn, RequestStep, AssignStep

LEMMA RideReads ==
    ASSUME FlowInv, RideOwn
    PROVE  ReadsOK'
<1>1. \A r, d : Told(r, d) => Told(r, d)'
  BY RideSends, MessagesStay DEF FlowInv, IInv, TypeOK
<1>2. req \in [Clients -> Request] /\ NoRequest.pc = "idle"
  BY RowTypes DEF FlowInv, IInv, TypeOK
<1> DEFINE Same(s) == Updating(s) /\ req'[s].ride = req[s].ride /\ req'[s].read = req[s].read
           Fresh(s) == req'[s].read.driver # NoDriver => Told(req'[s].ride, req'[s].read.driver)
           Fine == \A s \in Clients : ~Updating(s)' \/ Same(s) \/ Fresh(s)
<1>3. ASSUME NEW s \in Clients, req'[s] = req[s] PROVE ~Updating(s)' \/ Same(s)
  BY <1>3 DEF Updating
<1>4. ASSUME NEW s \in Clients, NEW r \in Rides, NEW pickup \in Pickups, requestRide(s, r, pickup) PROVE Fine
  <2>1. req'[s].pc = "publishRequested" /\ \A t \in Clients \ {s} : req'[t] = req[t]
    BY <1>2, <1>4 DEF requestRide, NoRequest
  <2> QED BY <1>3, <2>1 DEF Updating
<1>5. ASSUME NEW s \in Clients, NEW r \in Rides, NEW status \in RideStatus, NEW fare \in Fares \cup {NoFare},
             updateStatus(s, r, status, fare)
      PROVE  Fine
  <2>1. req'[s].ride = r /\ req'[s].read = rides[r] /\ \A t \in Clients \ {s} : req'[t] = req[t]
    BY <1>2, <1>5 DEF updateStatus
  <2>2. Fresh(s)
    BY <2>1, RowDriver DEF FlowInv
  <2> QED BY <1>3, <2>1, <2>2
<1>6. ASSUME NEW s \in Clients, WriteStatus(s) PROVE Fine
  <2>1. /\ req[s].pc = "write" /\ req'[s].ride = req[s].ride /\ req'[s].read = req[s].read
        /\ \A t \in Clients \ {s} : req'[t] = req[t]
    BY <1>2, <1>6 DEF WriteStatus, Request
  <2>2. Same(s)
    BY <2>1 DEF Updating
  <2> QED BY <1>3, <2>1, <2>2
<1>7. ASSUME NEW s \in Clients, PublishRequested(s) \/ PublishStatus(s) \/ RequestFails(s) PROVE Fine
  <2>1. req'[s] = NoRequest /\ \A t \in Clients \ {s} : req'[t] = req[t]
    BY <1>2, <1>7 DEF PublishRequested, PublishStatus, RequestFails, Respond
  <2> QED BY <1>2, <1>3, <2>1 DEF Updating
<1>8. ASSUME AssignStep \/ HandlerThrows PROVE Fine
  BY <1>3, <1>8 DEF AssignStep, AssignDriver, AnnounceMatch, HandlerThrows
<1>9. ASSUME Crash PROVE Fine
  <2>1. \A s \in Clients : req'[s] = NoRequest
    BY <1>9 DEF Crash
  <2> QED BY <1>2, <2>1 DEF Updating
<1>10. Fine
  <2> HIDE DEF Fine
  <2> QED BY <1>4, <1>5, <1>6, <1>7, <1>8, <1>9 DEF RideOwn, RequestStep
<1> QED BY <1>1, <1>10, ReadsStay DEF FlowInv

LEMMA RideFlowInv ==
    ASSUME FlowInv, RideOwn, UNCHANGED matchingVars
    PROVE  FlowInv'
<1>1. IInv' /\ ReadsOK'
  BY RideOwnInv, RideReads DEF FlowInv
<1>2. /\ log'["driver.declined"] = log["driver.declined"]
      /\ Messages(log["ride.requested"]) \subseteq Messages(log'["ride.requested"])
  BY RideSends, MessagesStay DEF FlowInv, IInv, TypeOK, Topics
<1>3. MatcherOK'
  BY <1>2 DEF FlowInv, MatcherOK, matchingVars
<1> QED BY <1>1, <1>3 DEF FlowInv

LEMMA MatcherParts ==
    ASSUME FlowInv
    PROVE  /\ match[Matcher] \in M!Match /\ \A f \in M!Match : [match EXCEPT ![Matcher] = f] \in [{Matcher} -> M!Match]
           /\ \A f : [match EXCEPT ![Matcher] = f][Matcher] = f
           /\ M!NoMatch \in M!Match /\ M!NoMatch.pc = "idle"
           /\ \A t \in M!MatchingTopics : owner[t] = Matcher
<1>1. M!NoMatch \in M!Match /\ M!NoMatch.pc = "idle"
  BY DEF M!NoMatch, M!Match, M!MatchingTopics
<1>2. match \in [{Matcher} -> M!Match]
  BY DEF FlowInv, MatcherOK
<1>3. \A t \in M!MatchingTopics : owner[t] = Matcher
  BY DEF FlowInv, MatcherOK
<1> QED BY <1>1, <1>2, <1>3

\* A step that leaves ride-service and the topics alone.
LEMMA MatcherFlowInv ==
    ASSUME FlowInv, UNCHANGED <<rideVars, log>>, MatcherOK'
    PROVE  FlowInv'
<1>1. UNCHANGED <<rides, req, assign, log, pos, committed, faults>>
  BY DEF rideVars
<1>2. IInv'
  BY <1>1, StutterInv DEF FlowInv, vars
<1>3. \A r, d : Told(r, d)' <=> Told(r, d)
  BY DEF Told, Assigned
<1>4. ReadsOK'
  BY <1>1, <1>3 DEF FlowInv, ReadsOK, Updating
<1> QED BY <1>2, <1>4 DEF FlowInv

LEMMA ReturnsOK ==
    ASSUME FlowInv, M!Returns(Matcher), UNCHANGED <<owner, mcommitted>>, log'["driver.declined"] = << >>
    PROVE  MatcherOK' /\ match'[Matcher].pc = "idle"
<1>1. match' = [match EXCEPT ![Matcher] = M!NoMatch]
  BY DEF M!Returns
<1>2. match' \in [{Matcher} -> M!Match] /\ match'[Matcher].pc = "idle"
  BY <1>1, MatcherParts
<1>3. mpos \in [Topics -> Nat]
  BY DEF FlowInv, MatcherOK
<1> PICK t : t = match[Matcher].topic
  OBVIOUS
<1>4. mpos' = [mpos EXCEPT ![t] = @ + 1] \/ mpos' = mpos
  BY DEF M!Returns
<1>5. mpos' \in [Topics -> Nat]
  BY <1>3, <1>4
<1> QED BY <1>2, <1>3, <1>5 DEF FlowInv, MatcherOK

LEMMA ReceiveOK ==
    ASSUME FlowInv, NEW t \in M!MatchingTopics, MatchingDoes(M!Receive(Matcher, t))
    PROVE  MatcherOK'
<1>1. /\ UNCHANGED <<log, owner, mpos, mcommitted>> /\ HasNext(log[t], mpos[t])
      /\ LET m == NextMessage(log[t], mpos[t]) IN
         match' = [match EXCEPT ![Matcher] = [pc |-> "claim", topic |-> t, ride |-> m.ride,
                                              pickup |-> m.pickup, driver |-> NoDriver]]
  BY DEF MatchingDoes, M!Receive, M!HasNext, M!NextMessage, HasNext, NextMessage
<1>2. t = "ride.requested" /\ mpos[t] \in Nat
  <2>1. mpos["driver.declined"] \in Nat /\ mpos["ride.requested"] \in Nat /\ log["driver.declined"] = << >>
    BY DEF FlowInv, MatcherOK, Topics
  <2>2. ~HasNext(log["driver.declined"], mpos["driver.declined"])
    BY <2>1 DEF HasNext
  <2> QED BY <1>1, <2>1, <2>2 DEF M!MatchingTopics
<1> PICK m : m = NextMessage(log[t], mpos[t])
  OBVIOUS
<1>3. m \in RequestEvent /\ m \in Messages(log["ride.requested"])
  BY <1>1, <1>2, TypeFacts, NextIsMessage DEF FlowInv, IInv
<1> PICK f : f = [pc |-> "claim", topic |-> t, ride |-> m.ride, pickup |-> m.pickup, driver |-> NoDriver]
  OBVIOUS
<1>4. f \in M!Match /\ f.pc = "claim" /\ f.ride = m.ride
  BY <1>3 DEF RequestEvent, M!Match
<1>5. match' \in [{Matcher} -> M!Match] /\ match'[Matcher] = f
  BY <1>1, <1>4, MatcherParts
<1> QED BY <1>1, <1>3, <1>4, <1>5 DEF FlowInv, MatcherOK

LEMMA ClaimOK ==
    ASSUME FlowInv, MatchingDoes(M!Claim(Matcher))
    PROVE  MatcherOK'
<1>1. PICK d \in Drivers :
          match' = [match EXCEPT ![Matcher].pc = "publish", ![Matcher].driver = d]
  BY DEF MatchingDoes, M!Claim, M!Nearest, M!InRange
<1>2. UNCHANGED <<log, owner, mpos, mcommitted>> /\ match[Matcher].pc = "claim"
  BY DEF MatchingDoes, M!Claim
<1> PICK q : q = match[Matcher]
  OBVIOUS
<1>3. match \in [{Matcher} -> M!Match] /\ q \in M!Match
  BY MatcherParts DEF FlowInv, MatcherOK
<1>4. match' = [match EXCEPT ![Matcher] = [q EXCEPT !.pc = "publish", !.driver = d]]
  BY <1>1, <1>3
<1>5. /\ [q EXCEPT !.pc = "publish", !.driver = d] \in M!Match
      /\ [q EXCEPT !.pc = "publish", !.driver = d].ride = q.ride
      /\ [q EXCEPT !.pc = "publish", !.driver = d].driver = d
  BY <1>3 DEF M!Match
<1>6. match' \in [{Matcher} -> M!Match] /\ match'[Matcher] = [q EXCEPT !.pc = "publish", !.driver = d]
  BY <1>4, <1>5, MatcherParts
<1>7. \E n \in Messages(log["ride.requested"]) : n.ride = q.ride
  BY <1>2 DEF FlowInv, MatcherOK
<1> QED BY <1>2, <1>5, <1>6, <1>7 DEF FlowInv, MatcherOK

\* What matching sends is an assignment of a driver it claimed to a ride that was announced.
LEMMA Assignment ==
    ASSUME FlowInv, match[Matcher].pc = "publish"
    PROVE  /\ [ride |-> match[Matcher].ride, driver |-> match[Matcher].driver] \in AssignedEvent
           /\ \E n \in Messages(log["ride.requested"]) : n.ride = match[Matcher].ride
<1>1. PICK n \in Messages(log["ride.requested"]) : n.ride = match[Matcher].ride
  BY DEF FlowInv, MatcherOK
<1>2. PICK i \in 1 .. Len(log["ride.requested"]) : n = log["ride.requested"][i]
  BY <1>1 DEF Messages
<1>3. n \in RequestEvent
  BY <1>2, TypeFacts DEF FlowInv, IInv
<1>4. match[Matcher].ride \in Rides /\ match[Matcher].driver \in Drivers
  BY <1>1, <1>3 DEF FlowInv, MatcherOK, RequestEvent
<1> QED BY <1>1, <1>4 DEF AssignedEvent

LEMMA PublishAssignedFlow ==
    ASSUME FlowInv, MatchingDoes(M!PublishAssigned(Matcher))
    PROVE  FlowInv'
<1> PICK m : m = [ride |-> match[Matcher].ride, driver |-> match[Matcher].driver]
  OBVIOUS
<1>1. /\ UNCHANGED <<rideVars, owner, mcommitted>> /\ match[Matcher].pc = "publish" /\ M!Returns(Matcher)
      /\ log' = Published(log, "driver.assigned", m)
  BY DEF MatchingDoes, M!PublishAssigned, M!Published, Published
<1>2. m \in AssignedEvent /\ \E n \in Messages(log["ride.requested"]) : n.ride = m.ride
  BY <1>1, Assignment
<1>3. UNCHANGED <<rides, req, assign, pos, committed, faults>>
  BY <1>1 DEF rideVars
<1>4. IInv'
  BY <1>1, <1>2, <1>3, AssignmentInv DEF FlowInv
<1>5. OneMore
  BY <1>1, <1>2 DEF OneMore, Carries, Topics
<1>6. /\ log'["driver.declined"] = << >>
      /\ \A r, d : Told(r, d) => Told(r, d)'
  BY <1>5, MessagesStay DEF FlowInv, IInv, TypeOK, MatcherOK
<1>7. MatcherOK'
  BY <1>1, <1>6, ReturnsOK
<1>8. ReadsOK'
  BY <1>3, <1>6, ReadsStay DEF FlowInv, Updating
<1> QED BY <1>4, <1>7, <1>8 DEF FlowInv

LEMMA MatcherCrashOK ==
    ASSUME FlowInv, MatchingDoes(M!Crash(Matcher))
    PROVE  MatcherOK'
<1>1. /\ UNCHANGED <<owner, log>> /\ match' = [match EXCEPT ![Matcher] = M!NoMatch]
      /\ M!Resume({t \in M!MatchingTopics : owner[t] = Matcher})
  BY DEF MatchingDoes, M!Crash
<1>2. {t \in M!MatchingTopics : owner[t] = Matcher} = M!MatchingTopics
  BY MatcherParts
<1>3. PICK k : /\ k \in Rejoins(log, mcommitted, mpos, M!MatchingTopics)
               /\ mpos' = PosAfter(k, mpos) /\ mcommitted' = CommittedAfter(k, mcommitted)
  <2>1. M!Topics = Topics
    BY DEF M!Topics, Topics
  <2>2. M!Rejoins(log, mcommitted, mpos, M!MatchingTopics) = Rejoins(log, mcommitted, mpos, M!MatchingTopics)
    BY DEF M!Rejoins, Rejoins, M!Rejoined, Rejoined, M!ResumePoints, ResumePoints
  <2>3. \A k : M!PosAfter(k, mpos) = PosAfter(k, mpos) /\ M!CommittedAfter(k, mcommitted) = CommittedAfter(k, mcommitted)
    BY <2>1 DEF M!PosAfter, PosAfter, M!CommittedAfter, CommittedAfter
  <2> QED BY <1>1, <1>2, <2>2, <2>3 DEF M!Resume
<1>4. /\ mpos \in [Topics -> Nat] /\ mcommitted \in [Topics -> Commit] /\ M!MatchingTopics \subseteq Topics
      /\ LogOK(log)
  BY DEF FlowInv, MatcherOK, M!MatchingTopics, Topics, IInv, TypeOK
<1>5. mpos' \in [Topics -> Nat] /\ mcommitted' \in [Topics -> Commit]
  BY <1>3, <1>4, RejoinsType
<1>7. match' \in [{Matcher} -> M!Match] /\ match'[Matcher].pc = "idle"
  BY <1>1, MatcherParts
<1> QED BY <1>1, <1>5, <1>7 DEF FlowInv, MatcherOK

\* The steps of matching-service; only its assignments reach ride-service.
LEMMA MatchingFlow ==
    ASSUME FlowInv, MatcherWorks \/ MatcherTrouble
    PROVE  FlowInv'
<1>1. \/ \E t \in M!MatchingTopics : MatchingDoes(M!Receive(Matcher, t))
      \/ MatchingDoes(M!Claim(Matcher)) \/ MatchingDoes(M!NobodyInRange(Matcher))
      \/ MatchingDoes(M!PublishAssigned(Matcher))
      \/ MatchingDoes(M!CallFails(Matcher)) \/ MatchingDoes(M!Crash(Matcher))
  BY DEF MatcherWorks, MatcherTrouble, MatchingDoes, M!MatcherStep
<1>2. ASSUME NEW t \in M!MatchingTopics, MatchingDoes(M!Receive(Matcher, t)) PROVE FlowInv'
  BY <1>2, ReceiveOK, MatcherFlowInv DEF MatchingDoes, M!Receive
<1>3. ASSUME MatchingDoes(M!Claim(Matcher)) PROVE FlowInv'
  BY <1>3, ClaimOK, MatcherFlowInv DEF MatchingDoes, M!Claim
<1>4. ASSUME MatchingDoes(M!NobodyInRange(Matcher)) \/ MatchingDoes(M!CallFails(Matcher)) PROVE FlowInv'
  <2>1. UNCHANGED <<rideVars, log, owner, mcommitted>> /\ M!Returns(Matcher)
    BY <1>4 DEF MatchingDoes, M!NobodyInRange, M!CallFails
  <2>2. log'["driver.declined"] = << >>
    BY <2>1 DEF FlowInv, MatcherOK
  <2> QED BY <2>1, <2>2, ReturnsOK, MatcherFlowInv
<1>5. ASSUME MatchingDoes(M!Crash(Matcher)) PROVE FlowInv'
  BY <1>5, MatcherCrashOK, MatcherFlowInv DEF MatchingDoes, M!Crash
<1> QED BY <1>1, <1>2, <1>3, <1>4, <1>5, PublishAssignedFlow

\* A step is ride-service's, matching's, or leaves them and the topics alone.
FlowKinds ==
    \/ RideDoes(RideOwn)
    \/ MatcherWorks \/ MatcherTrouble
    \/ UNCHANGED <<rideVars, matchingVars, log>>

LEMMA FlowCases ==
    ASSUME [FlowNext]_flowVars
    PROVE  FlowKinds
<1>1. ASSUME NEW s \in Slots, Ping(s) \/ DriverRequestStep(s) PROVE FlowKinds
  <2>1. CASE Ping(s)
    BY <2>1 DEF FlowKinds, Ping, DriverDoes, D!updateLocation, D!Accept
  <2>2. CASE DriverRequestStep(s)
    BY <2>2 DEF FlowKinds, DriverRequestStep, DriverDoes, D!HttpStep, D!Insert, D!StatusWrite, D!StatusRedis,
                D!StatusPublish, D!LocRedis, D!LocWrite
  <2> QED BY <1>1, <2>1, <2>2
<1>2. CASE DriverConsumes
  BY <1>2 DEF FlowKinds, DriverConsumes, DriverDoes, D!ConsumerStep, D!Consume, D!PhotoWrite, D!SystemWrite, D!SystemRedis,
              D!SystemPublish
<1>3. CASE DriverTrouble
  BY <1>3 DEF FlowKinds, DriverTrouble, DriverDoes, D!HandlerThrows, D!Crash, D!Rejoin, D!RequestFails
<1>4. ASSUME NEW r \in Rides, ClientRequests(r) PROVE FlowKinds
  BY <1>4, FlowAssumption DEF FlowKinds, ClientRequests, RideDoes, RideOwn
<1>5. ASSUME NEW r \in Rides, ClientUpdates(r) PROVE FlowKinds
  BY <1>5, FlowAssumption DEF FlowKinds, ClientUpdates, RideDoes, RideOwn
<1>6. ASSUME NEW r \in Rides, RideRequestStep(r) PROVE FlowKinds
  BY <1>6, FlowAssumption DEF FlowKinds, RideRequestStep, RideDoes, RideOwn
<1>7. CASE RideConsumes \/ RideTrouble
  BY <1>7, FlowAssumption DEF FlowKinds, RideConsumes, RideTrouble, RideDoes, RideOwn
<1>8. CASE UNCHANGED flowVars
  BY <1>8 DEF FlowKinds, flowVars
<1>9. CASE MatcherWorks \/ MatcherTrouble
  BY <1>9 DEF FlowKinds
<1> QED BY <1>1, <1>2, <1>3, <1>4, <1>5, <1>6, <1>7, <1>8, <1>9, ZenonT(30) DEF FlowNext

\* FlowInv is inductive under every setting: clients that do not wait, pings,
\* failing calls and crashes included.
THEOREM FlowStepInv == FlowInv /\ [FlowNext]_flowVars => FlowInv'
<1> SUFFICES ASSUME FlowInv, [FlowNext]_flowVars PROVE FlowInv'
  OBVIOUS
<1>1. ASSUME RideDoes(RideOwn) PROVE FlowInv'
  BY <1>1, RideFlowInv DEF RideDoes
<1>2. ASSUME UNCHANGED <<rideVars, matchingVars, log>> PROVE FlowInv'
  <2>1. MatcherOK'
    BY <1>2 DEF FlowInv, MatcherOK, matchingVars
  <2> QED BY <1>2, <2>1, MatcherFlowInv
<1> QED BY <1>1, <1>2, FlowCases, MatchingFlow DEF FlowKinds

LEMMA FlowStart == FlowInit => FlowInv
<1> SUFFICES ASSUME FlowInit PROVE FlowInv
  OBVIOUS
<1>1. /\ Init /\ match = [w \in {Matcher} |-> M!NoMatch] /\ owner = [t \in M!MatchingTopics |-> Matcher]
      /\ mpos = Offsets /\ mcommitted = FirstCommits
  BY DEF FlowInit
<1>2. M!NoMatch \in M!Match /\ M!NoMatch.pc = "idle"
  BY DEF M!NoMatch, M!Match, M!MatchingTopics
<1>3. log["driver.declined"] = << >> /\ \A s \in Clients : req[s].pc = "idle"
  BY <1>1, RowTypes DEF Init, EmptyLog, Topics
<1>4. MatcherOK
  BY <1>1, <1>2, <1>3, FirstCommitsOK DEF MatcherOK, Offsets, M!MatchingTopics, Topics
<1>5. ReadsOK
  BY <1>3 DEF ReadsOK, Updating
<1> QED BY <1>1, <1>4, <1>5, InitInv DEF FlowInv

THEOREM FlowInvariance == FlowSpec => []FlowInv
<1>1. FlowInit => FlowInv
  BY FlowStart
<1>2. FlowInv /\ [FlowNext]_flowVars => FlowInv'
  BY FlowStepInv
<1> QED BY <1>1, <1>2, PTL DEF FlowSpec

\* Whatever the clients do and whatever fails, in the composition too no
\* assignment meets a ride that is not there, each one that was handled was
\* announced to the rider, and a ride keeps the driver assigned to it last; only
\* a group without an offset, which jumps over assignments, makes exceptions.
THEOREM FlowKeepsAssignments == FlowSpec => [](AssignedExists /\ MatchAnnounced /\ DriverIsLastAssigned)
<1>1. FlowInv => AssignedExists /\ MatchAnnounced /\ DriverIsLastAssigned
  BY IInvLast DEF FlowInv, IInv
<1> QED BY <1>1, FlowInvariance, PTL

\* A step of the composition is one that ride-service's module has by itself.
LEMMA RideStepOf ==
    ASSUME FlowInv, Room(log, MaxEvents), [FlowNext]_flowVars
    PROVE  [Next]_vars
<1>1. ASSUME RideDoes(RideOwn) PROVE Next
  BY <1>1 DEF RideDoes, RideOwn, Next, Requests
<1>2. ASSUME MatchingDoes(M!PublishAssigned(Matcher)) PROVE Next
  <2> PICK m : m = [ride |-> match[Matcher].ride, driver |-> match[Matcher].driver]
    OBVIOUS
  <2>1. UNCHANGED rideVars /\ match[Matcher].pc = "publish" /\ log' = Published(log, "driver.assigned", m)
    BY <1>2 DEF MatchingDoes, M!PublishAssigned, M!Published, Published
  <2>2. m \in AssignedEvent /\ \E n \in Messages(log["ride.requested"]) : n.ride = m.ride
    BY <2>1, Assignment
  <2>3. DriverAssigned(m)
    BY <2>1, <2>2 DEF DriverAssigned, rideVars
  <2> QED BY <2>2, <2>3 DEF Next
<1>3. ASSUME MatcherWorks \/ MatcherTrouble, ~MatchingDoes(M!PublishAssigned(Matcher)) PROVE UNCHANGED <<rideVars, log>>
  BY <1>3 DEF MatcherWorks, MatcherTrouble, MatchingDoes, M!MatcherStep, M!Receive, M!Claim, M!NobodyInRange,
              M!CallFails, M!Crash
<1>4. ASSUME UNCHANGED <<rideVars, log>> PROVE UNCHANGED vars
  BY <1>4 DEF rideVars, vars
<1> QED BY <1>1, <1>2, <1>3, <1>4, FlowCases DEF FlowKinds

\* RideSteps: the composition keeps to what ride-service's module assumes of
\* the other services, as long as MaxEvents, the bound that module puts on the
\* events, is not met.
THEOREM FlowIsRideService == FlowSpec /\ []Room(log, MaxEvents) => RideSteps
<1>1. FlowInv /\ Room(log, MaxEvents) /\ [FlowNext]_flowVars => [Next]_vars
  BY RideStepOf
<1> QED BY <1>1, FlowInvariance, PTL DEF FlowSpec, RideSteps

-----------------------------------------------------------------------------
(* ... and to what driver-service's module assumes.                         *)

View == Only(D!DriverTopics)

LEMMA ViewFacts ==
    ASSUME LogOK(log)
    PROVE  /\ D!DriverTopics \subseteq Topics /\ \A t \in D!DriverTopics : View[t] = log[t]
           /\ UNCHANGED log => UNCHANGED View
           /\ \A t, m : t \in Topics /\ log' = Published(log, t, m) =>
                  View' = IF t \in D!DriverTopics THEN Published(View, t, m) ELSE View
<1>1. D!DriverTopics \subseteq Topics
  BY DEF D!DriverTopics, Topics
<1>2. View = [u \in Topics |-> IF u \in D!DriverTopics THEN log[u] ELSE << >>]
      /\ View' = [u \in Topics |-> IF u \in D!DriverTopics THEN log'[u] ELSE << >>]
  BY DEF View, Only
<1>3. ASSUME NEW t, NEW m, t \in Topics, log' = Published(log, t, m)
      PROVE  View' = IF t \in D!DriverTopics THEN Published(View, t, m) ELSE View
  <2>1. log'[t] = Append(log[t], m) /\ \A u \in Topics \ {t} : log'[u] = log[u]
    BY <1>3, PublishedTopics
  <2>2. CASE t \in D!DriverTopics
    <3>1. View[t] = log[t]
      BY <1>1, <1>2, <2>2
    <3>2. Published(View, t, m) = [u \in Topics |-> IF u = t THEN Append(log[t], m) ELSE View[u]]
      BY <1>2, <3>1 DEF Published
    <3>3. \A u \in Topics : View'[u] = IF u = t THEN Append(log[t], m) ELSE View[u]
      BY <1>2, <2>1, <2>2
    <3>4. View' = [u \in Topics |-> View'[u]]
      BY <1>2
    <3> QED BY <2>2, <3>2, <3>3, <3>4
  <2>3. CASE t \notin D!DriverTopics
    <3>1. \A u \in D!DriverTopics : log'[u] = log[u]
      BY <1>1, <2>1, <2>3
    <3> QED BY <1>2, <2>3, <3>1
  <2> QED BY <2>2, <2>3
<1> QED BY <1>1, <1>2, <1>3

\* What driver-service does in the composition, it does in its own module.
LEMMA RequestsOfDriver ==
    ASSUME LogOK(log), DView!HasRoom, NEW s \in Slots, Ping(s) \/ DriverRequestStep(s)
    PROVE  DView!Next
<1>1. ASSUME Ping(s) PROVE DView!Next
  <2>1. PICK d \in Drivers, loc \in Places : D!updateLocation(s, d, loc)
    BY <1>1 DEF Ping, DriverDoes
  <2>2. UNCHANGED View
    BY <2>1, ViewFacts DEF D!updateLocation, D!Accept
  <2>3. DView!updateLocation(s, d, loc)
    BY <2>1, <2>2 DEF View, D!updateLocation, DView!updateLocation, D!Accept, DView!Accept, D!FirstStepOfPing,
                      DView!FirstStepOfPing, D!NoRequest, DView!NoRequest, D!Starts, DView!Starts, D!Quiet, DView!Quiet,
                      D!tableVars, DView!tableVars
  <2> QED BY <2>3 DEF DView!Next, DView!Requests
<1>2. ASSUME DriverRequestStep(s) PROVE DView!Next
  <2>1. D!HttpStep(s)
    BY <1>2 DEF DriverRequestStep, DriverDoes
  <2>2. UNCHANGED View
    BY <2>1, ViewFacts DEF D!HttpStep, D!Insert, D!StatusWrite, D!StatusRedis, D!StatusPublish, D!LocRedis, D!LocWrite
  <2>3. D!Insert(s) => DView!Insert(s)
    BY <2>2 DEF View, D!Insert, DView!Insert, D!NewProfile, DView!NewProfile, D!NoProfile, DView!NoProfile,
                D!Respond, DView!Respond, D!NoRequest, DView!NoRequest
  <2>4. (D!StatusWrite(s) => DView!StatusWrite(s)) /\ (D!StatusPublish(s) => DView!StatusPublish(s))
    BY <2>2 DEF View, D!StatusWrite, DView!StatusWrite, D!StatusPublish, DView!StatusPublish, D!Goto, DView!Goto,
                D!Respond, DView!Respond, D!NoRequest, DView!NoRequest
  <2>5. D!StatusRedis(s) => DView!StatusRedis(s)
    BY <2>2 DEF View, D!StatusRedis, DView!StatusRedis, D!Goto, DView!Goto, D!PoolAfter, DView!PoolAfter
  <2>6. (D!LocRedis(s) => DView!LocRedis(s)) /\ (D!LocWrite(s) => DView!LocWrite(s))
    BY <2>2 DEF View, D!LocRedis, DView!LocRedis, D!LocWrite, DView!LocWrite, D!Goto, DView!Goto,
                D!Respond, DView!Respond, D!NoRequest, DView!NoRequest
  <2>7. DView!HttpStep(s)
    BY <2>1, <2>3, <2>4, <2>5, <2>6 DEF D!HttpStep, DView!HttpStep
  <2> QED BY <2>7 DEF DView!Next
<1> QED BY <1>1, <1>2

LEMMA ConsumerOfDriver ==
    ASSUME LogOK(log), DriverConsumes
    PROVE  DView!Next
<1>1. D!ConsumerStep
  BY DEF DriverConsumes, DriverDoes
<1>2. UNCHANGED View
  BY <1>1, ViewFacts DEF D!ConsumerStep, D!Consume, D!PhotoWrite, D!SystemWrite, D!SystemRedis, D!SystemPublish
<1>3. ASSUME NEW t \in D!DriverTopics, D!Consume(t) PROVE DView!Consume(t)
  <2>1. View[t] = log[t]
    BY ViewFacts
  <2>2. D!HasNext(log[t], dpos[t]) /\ DView!HasNext(View[t], dpos[t])
        /\ D!NextMessage(log[t], dpos[t]) = DView!NextMessage(View[t], dpos[t])
    BY <1>3, <2>1 DEF D!Consume, D!HasNext, DView!HasNext, D!NextMessage, DView!NextMessage
  <2>3. \A m : (D!Ignored(t, m) <=> DView!Ignored(t, m)) /\ D!JobFor(t, m) = DView!JobFor(t, m)
    BY DEF D!Ignored, DView!Ignored, D!JobFor, DView!JobFor, D!PhotoJob, DView!PhotoJob, D!StatusJob, DView!StatusJob,
           D!StatusAfterRide, DView!StatusAfterRide
  <2>4. (D!Ack(t) <=> DView!Ack(t)) /\ (D!Starts <=> DView!Starts)
    BY DEF D!Ack, DView!Ack, D!NoJob, DView!NoJob, D!Starts, DView!Starts, D!Quiet, DView!Quiet
  <2> QED BY <1>2, <1>3, <2>2, <2>3, <2>4 DEF View, D!Consume, DView!Consume, D!tableVars, DView!tableVars
<1>4. (D!PhotoWrite => DView!PhotoWrite) /\ (D!SystemWrite => DView!SystemWrite)
  BY <1>2 DEF View, D!PhotoWrite, DView!PhotoWrite, D!SystemWrite, DView!SystemWrite, D!Ack, DView!Ack, D!NoJob, DView!NoJob
<1>5. (D!SystemRedis => DView!SystemRedis) /\ (D!SystemPublish => DView!SystemPublish)
  BY <1>2 DEF View, D!SystemRedis, DView!SystemRedis, D!SystemPublish, DView!SystemPublish, D!PoolAfter, DView!PoolAfter,
              D!Ack, DView!Ack, D!NoJob, DView!NoJob
<1>6. DView!ConsumerStep
  BY <1>1, <1>3, <1>4, <1>5 DEF D!ConsumerStep, DView!ConsumerStep, D!DriverTopics, DView!DriverTopics
<1> QED BY <1>6 DEF DView!Next

LEMMA TroubleOfDriver ==
    ASSUME LogOK(log), DriverTrouble
    PROVE  DView!Next
<1>1. UNCHANGED View
  BY ViewFacts DEF DriverTrouble, DriverDoes, D!HandlerThrows, D!Crash, D!Rejoin, D!RequestFails
<1>2. (D!Fault <=> DView!Fault) /\ (D!TroubleLeft <=> DView!TroubleLeft)
  BY DEF D!Fault, DView!Fault, D!TroubleLeft, DView!TroubleLeft
<1>3. D!Resume <=> DView!Resume
  <2>1. D!Topics = DView!Topics /\ D!DriverTopics = DView!DriverTopics
    BY DEF D!Topics, DView!Topics, D!DriverTopics, DView!DriverTopics
  <2>2. \A t \in D!DriverTopics : View[t] = log[t]
    BY ViewFacts
  <2>3. D!Rejoins(log, dcommitted, dpos, D!DriverTopics) = DView!Rejoins(View, dcommitted, dpos, D!DriverTopics)
    <3> DEFINE used == {t \in D!DriverTopics : log[t] # << >>}
               ways == [t \in used |-> D!Rejoined(dcommitted[t], dpos[t], Len(log[t]))]
               seen == {t \in D!DriverTopics : View[t] # << >>}
               seenWays == [t \in seen |-> DView!Rejoined(dcommitted[t], dpos[t], Len(View[t]))]
    <3>1. \A c, n, len : DView!Rejoined(c, n, len) = D!Rejoined(c, n, len)
      BY DEF D!Rejoined, DView!Rejoined, D!ResumePoints, DView!ResumePoints
    <3>2. used = seen
      BY <2>2
    <3>3. ways = seenWays
      BY <2>2, <3>1, <3>2
    <3>4. D!Rejoins(log, dcommitted, dpos, D!DriverTopics)
              = {k \in [used -> UNION {ways[t] : t \in used}] : \A t \in used : k[t] \in ways[t]}
      BY DEF D!Rejoins
    <3>5. DView!Rejoins(View, dcommitted, dpos, D!DriverTopics)
              = {k \in [seen -> UNION {seenWays[t] : t \in seen}] : \A t \in seen : k[t] \in seenWays[t]}
      BY DEF DView!Rejoins
    <3> HIDE DEF used, ways, seen, seenWays
    <3> QED BY <3>2, <3>3, <3>4, <3>5
  <2>4. \A k : /\ D!PosAfter(k, dpos) = DView!PosAfter(k, dpos)
               /\ D!CommittedAfter(k, dcommitted) = DView!CommittedAfter(k, dcommitted)
    BY <2>1 DEF D!PosAfter, DView!PosAfter, D!CommittedAfter, DView!CommittedAfter
  <2> QED BY <2>1, <2>3, <2>4 DEF D!Resume, DView!Resume, View
<1>4. D!HandlerThrows => DView!HandlerThrows
  BY <1>1, <1>2 DEF View, D!HandlerThrows, DView!HandlerThrows, D!NoJob, DView!NoJob, D!tableVars, DView!tableVars
<1>5. D!Crash => DView!Crash
  BY <1>1, <1>2, <1>3 DEF View, D!Crash, DView!Crash, D!NoJob, DView!NoJob, D!NoRequest, DView!NoRequest,
                          D!tableVars, DView!tableVars
<1>6. D!Rejoin => DView!Rejoin
  BY <1>1, <1>2, <1>3 DEF View, D!Rejoin, DView!Rejoin, D!tableVars, DView!tableVars
<1>7. ASSUME NEW s \in Slots, D!RequestFails(s) PROVE DView!RequestFails(s)
  BY <1>1, <1>2, <1>7 DEF View, D!RequestFails, DView!RequestFails, D!Respond, DView!Respond, D!NoRequest, DView!NoRequest,
                          D!tableVars, DView!tableVars
<1> QED BY <1>4, <1>5, <1>6, <1>7 DEF DriverTrouble, DriverDoes, DView!Next

LEMMA Unseen ==
    ASSUME UNCHANGED <<pool, driverVars>>, UNCHANGED View, Held' = Held
    PROVE  UNCHANGED DView!vars
  BY DEF DView!vars, View, driverVars

LEMMA NobodyHeld ==
    ASSUME match[Matcher].pc # "publish"
    PROVE  Held = {}
  BY DEF Held

\* Matching claims drivers, and gives them to a ride or loses them.
LEMMA MatcherToDriver ==
    ASSUME FlowInv, DView!HasRoom, disturbed = TRUE, MatcherWorks \/ MatcherTrouble
    PROVE  [DView!Next]_(DView!vars)
<1>1. UNCHANGED <<driverVars, rideVars>> /\ LogOK(log)
  BY DEF MatcherWorks, MatcherTrouble, MatchingDoes, FlowInv, IInv, TypeOK
<1>2. ASSUME NEW t \in M!MatchingTopics, M!Receive(Matcher, t) PROVE UNCHANGED DView!vars
  <2> PICK m : m = M!NextMessage(log[t], mpos[t])
    OBVIOUS
  <2> PICK f : f = [pc |-> "claim", topic |-> t, ride |-> m.ride, pickup |-> m.pickup, driver |-> NoDriver]
    OBVIOUS
  <2>1. match[Matcher].pc = "idle" /\ UNCHANGED <<pool, log>> /\ match' = [match EXCEPT ![Matcher] = f]
    BY <1>2 DEF M!Receive
  <2>2. match'[Matcher].pc = "claim"
    BY <2>1, MatcherParts
  <2>3. Held = {} /\ Held' = {}
    BY <2>1, <2>2 DEF Held
  <2> QED BY <1>1, <2>1, <2>3, Unseen, ViewFacts
<1>3. ASSUME M!Claim(Matcher) PROVE DView!Next
  <2>1. PICK d \in Drivers :
            /\ pool[d] # NoPlace /\ pool' = [pool EXCEPT ![d] = NoPlace]
            /\ match' = [match EXCEPT ![Matcher].pc = "publish", ![Matcher].driver = d]
    BY <1>3 DEF M!Claim, M!Nearest, M!InRange, M!Removed
  <2>2. match[Matcher].pc = "claim" /\ UNCHANGED log
    BY <1>3 DEF M!Claim
  <2>3. match \in [{Matcher} -> M!Match] /\ match[Matcher] \in M!Match
    BY MatcherParts DEF FlowInv, MatcherOK
  <2>4. match'[Matcher].pc = "publish" /\ match'[Matcher].driver = d
    BY <2>1, <2>3 DEF M!Match
  <2>5. Held = {} /\ Held' = {d}
    BY <2>2, <2>4 DEF Held
  <2>6. Held' = Held \cup {d} /\ UNCHANGED View
    BY <1>1, <2>2, <2>5, ViewFacts
  <2>7. DView!Claim(d)
    BY <1>1, <2>1, <2>6 DEF DView!Claim, driverVars, View
  <2> QED BY <2>7 DEF DView!Next, DView!Environment
<1>4. ASSUME M!Returns(Matcher) PROVE Held' = {}
  <2>1. match'[Matcher].pc = "idle"
    BY <1>4, MatcherParts DEF M!Returns
  <2> QED BY <2>1 DEF Held
<1>5. ASSUME M!NobodyInRange(Matcher) PROVE UNCHANGED DView!vars
  <2>1. match[Matcher].pc = "claim" /\ UNCHANGED <<pool, log>> /\ M!Returns(Matcher)
    BY <1>5 DEF M!NobodyInRange
  <2>2. Held = {}
    BY <2>1, NobodyHeld
  <2> QED BY <1>1, <1>4, <2>1, <2>2, Unseen, ViewFacts
<1>6. ASSUME M!PublishAssigned(Matcher) PROVE DView!Next
  <2> PICK r, d : r = match[Matcher].ride /\ d = match[Matcher].driver
    OBVIOUS
  <2>1. /\ match[Matcher].pc = "publish" /\ M!Returns(Matcher) /\ UNCHANGED pool
        /\ log' = Published(log, "driver.assigned", [ride |-> r, driver |-> d])
    BY <1>6 DEF M!PublishAssigned, M!Published, Published
  <2>2. Held = {d} /\ Held' = {}
    BY <1>4, <2>1 DEF Held
  <2>3. r \in Rides /\ d \in Drivers
    BY <2>1, Assignment DEF AssignedEvent
  <2>4. "driver.assigned" \in D!DriverTopics /\ "driver.assigned" \in Topics
    BY DEF D!DriverTopics, Topics
  <2>5. View' = Published(View, "driver.assigned", [ride |-> r, driver |-> d])
    BY <1>1, <2>1, <2>4, ViewFacts
  <2>6. d \in Held /\ Held' = Held \ {d}
    BY <2>2
  <2>7. DView!Assigned(r, d)
    BY <1>1, <2>1, <2>5, <2>6 DEF DView!Assigned, driverVars, View, Published, DView!Published
  <2> QED BY <2>3, <2>7 DEF DView!Next, DView!Environment
<1>7. ASSUME NEW d \in Drivers, UNCHANGED log,
             \/ d \in Held /\ Held' = Held \ {d} /\ UNCHANGED pool
             \/ pool[d] # NoPlace /\ pool' = [pool EXCEPT ![d] = NoPlace] /\ UNCHANGED Held
      PROVE  DView!Next
  <2>1. UNCHANGED View /\ disturbed' = TRUE
    BY <1>1, <1>7, ViewFacts DEF driverVars
  <2>2. DView!ClaimLost(d)
    BY <1>1, <1>7, <2>1 DEF DView!ClaimLost, driverVars, View
  <2> QED BY <2>2 DEF DView!Next, DView!Environment
<1>8. ASSUME match[Matcher].pc = "publish", Held' = {}, UNCHANGED <<pool, log>> PROVE DView!Next
  <2> PICK d : d = match[Matcher].driver
    OBVIOUS
  <2>1. Held = {d} /\ d \in Drivers
    BY <1>8, Assignment DEF Held, AssignedEvent
  <2>2. d \in Held /\ Held' = Held \ {d}
    BY <1>8, <2>1
  <2> QED BY <1>7, <1>8, <2>1, <2>2
<1>9. ASSUME M!CallFails(Matcher) PROVE [DView!Next]_(DView!vars)
  <2>1. UNCHANGED log /\ M!Returns(Matcher) /\ Held' = {}
    BY <1>4, <1>9 DEF M!CallFails
  <2>2. CASE match[Matcher].pc = "publish"
    <3>1. UNCHANGED pool
      BY <1>9, <2>2 DEF M!CallFails
    <3> QED BY <1>8, <2>1, <2>2, <3>1
  <2>3. CASE match[Matcher].pc = "claim"
    <3>1. Held = {}
      BY <2>3, NobodyHeld
    <3>2. CASE UNCHANGED pool
      BY <1>1, <2>1, <3>1, <3>2, Unseen, ViewFacts
    <3>3. CASE \E d \in M!Nearest(match[Matcher].pickup) : M!Removed(d)
      <4>1. PICK d \in Drivers : pool[d] # NoPlace /\ pool' = [pool EXCEPT ![d] = NoPlace]
        BY <3>3 DEF M!Nearest, M!InRange, M!Removed
      <4> QED BY <1>7, <2>1, <3>1, <4>1
    <3> QED BY <1>9, <3>2, <3>3 DEF M!CallFails
  <2> QED BY <1>9, <2>2, <2>3 DEF M!CallFails
<1>10. ASSUME M!Crash(Matcher) PROVE [DView!Next]_(DView!vars)
  <2>1. UNCHANGED <<pool, log>> /\ match' = [match EXCEPT ![Matcher] = M!NoMatch]
    BY <1>10 DEF M!Crash
  <2>2. Held' = {}
    BY <2>1, MatcherParts DEF Held
  <2>3. CASE match[Matcher].pc = "publish"
    BY <1>8, <2>1, <2>2, <2>3
  <2>4. CASE match[Matcher].pc # "publish"
    <3>1. Held = {}
      BY <2>4, NobodyHeld
    <3> QED BY <1>1, <2>1, <2>2, <3>1, Unseen, ViewFacts
  <2> QED BY <2>3, <2>4
<1> QED BY <1>2, <1>3, <1>5, <1>6, <1>9, <1>10 DEF MatcherWorks, MatcherTrouble, MatchingDoes, M!MatcherStep

\* An event about a ride names a driver who was assigned to it, if any.
LEMMA RideToDriver ==
    ASSUME FlowInv, DView!HasRoom, RideDoes(RideOwn)
    PROVE  [DView!Next]_(DView!vars)
<1>1. UNCHANGED <<pool, driverVars>> /\ Held' = Held /\ LogOK(log)
  BY DEF RideDoes, matchingVars, Held, FlowInv, IInv, TypeOK
<1>2. ASSUME UNCHANGED log PROVE UNCHANGED DView!vars
  BY <1>1, <1>2, ViewFacts, Unseen
<1>3. ASSUME NEW s \in Clients, PublishRequested(s) PROVE UNCHANGED DView!vars
  <2>1. "ride.requested" \in Topics /\ "ride.requested" \notin D!DriverTopics
    BY DEF Topics, D!DriverTopics
  <2>2. \E m : log' = Published(log, "ride.requested", m)
    BY <1>3 DEF PublishRequested
  <2>3. UNCHANGED View
    BY <1>1, <2>1, <2>2, ViewFacts
  <2> QED BY <1>1, <2>3, Unseen
<1>4. ASSUME NEW m \in RideEvent, log' = Published(log, TopicOf(m.status), m), m.driver # NoDriver => Told(m.ride, m.driver)
      PROVE  DView!Next
  <2>1. TopicOf(m.status) \in D!DriverTopics /\ TopicOf(m.status) \in Topics /\ "driver.assigned" \in D!DriverTopics
    BY DEF TopicOf, D!DriverTopics, Topics
  <2>2. View' = Published(View, TopicOf(m.status), m) /\ View["driver.assigned"] = Assigned
    BY <1>1, <1>4, <2>1, ViewFacts DEF Assigned
  <2>3. DView!Published(View, DView!RideTopic(m.status), m) = Published(View, TopicOf(m.status), m)
    BY DEF Published, DView!Published, DView!RideTopic, TopicOf
  <2>4. m.driver # NoDriver => [ride |-> m.ride, driver |-> m.driver] \in DView!Messages(View["driver.assigned"])
    BY <1>4, <2>2 DEF Told, Messages, DView!Messages
  <2>5. DView!RideReported(m)
    BY <1>1, <2>2, <2>3, <2>4 DEF DView!RideReported, DView!tableVars, driverVars, View
  <2>6. m \in DView!RideEvent /\ m.status \in RideStatus
    BY DEF RideEvent, DView!RideEvent, RideStatus, DView!RideStatus
  <2> QED BY <2>5, <2>6 DEF DView!Next, DView!Environment
<1>5. ASSUME NEW s \in Clients, PublishStatus(s) PROVE DView!Next
  <2> PICK m : m = [ride |-> req[s].ride, driver |-> req[s].read.driver, status |-> req[s].status,
                    fare |-> PublishedFare(req[s].read.fare, req[s].fare)]
    OBVIOUS
  <2>1. req[s].pc = "publishStatus" /\ log' = Published(log, TopicOf(req[s].status), m)
    BY <1>5 DEF PublishStatus
  <2>2. req[s].ride \in Rides /\ req[s] \in Request
    BY <2>1 DEF FlowInv, IInv, TypeOK, RequestsOK, RequestOK
  <2>3. m \in RideEvent
    BY <2>2 DEF Request, RideEvent, Ride, PublishedFare
  <2>4. m.driver # NoDriver => Told(m.ride, m.driver)
    BY <2>1 DEF FlowInv, ReadsOK, Updating
  <2> QED BY <1>4, <2>1, <2>3, <2>4
<1>6. ASSUME AnnounceMatch PROVE DView!Next
  <2> PICK m : m = [ride |-> assign.ride, driver |-> assign.driver, status |-> "matched", fare |-> NoFare]
    OBVIOUS
  <2> PICK a : a = [ride |-> assign.ride, driver |-> assign.driver]
    OBVIOUS
  <2>1. HasNext(Assigned, Offset) /\ NextMessage(Assigned, Offset) = a
    BY <1>6 DEF FlowInv, IInv, AssignOK, AnnounceMatch
  <2>2. a \in AssignedEvent /\ a \in Messages(Assigned)
    BY <2>1, TypeFacts, NextIsMessage DEF FlowInv, IInv
  <2>3. m \in RideEvent
    BY <2>2 DEF AssignedEvent, RideEvent, RideStatus
  <2>4. Told(m.ride, m.driver) /\ log' = Published(log, TopicOf(m.status), m)
    BY <1>6, <2>2 DEF Told, AnnounceMatch, TopicOf
  <2> QED BY <1>4, <2>3, <2>4
<1>7. ASSUME NEW s \in Clients, NEW r \in Rides, NEW pickup \in Pickups, requestRide(s, r, pickup) PROVE UNCHANGED log
  BY <1>7 DEF requestRide
<1>8. ASSUME NEW s \in Clients, NEW r \in Rides, NEW status \in RideStatus, NEW fare \in Fares \cup {NoFare},
             updateStatus(s, r, status, fare)
      PROVE  UNCHANGED log
  BY <1>8 DEF updateStatus
<1>9. ASSUME NEW s \in Clients, WriteStatus(s) \/ RequestFails(s) PROVE UNCHANGED log
  BY <1>9 DEF WriteStatus, RequestFails
<1>10. ASSUME AssignDriver \/ HandlerThrows \/ Crash PROVE UNCHANGED log
  BY <1>10 DEF AssignDriver, HandlerThrows, Crash
<1> QED BY <1>2, <1>3, <1>5, <1>6, <1>7, <1>8, <1>9, <1>10 DEF RideDoes, RideOwn, RequestStep, AssignStep

\* The start of the composition counts as disturbed, and so does all that follows.
LEMMA StaysDisturbed ==
    ASSUME disturbed = TRUE, [FlowNext]_flowVars
    PROVE  disturbed' = TRUE
<1>1. ASSUME NEW s \in Slots, Ping(s) PROVE disturbed' = TRUE
  BY <1>1 DEF Ping, DriverDoes, D!updateLocation, D!Accept, D!Starts
<1>2. ASSUME NEW s \in Slots, DriverRequestStep(s) PROVE UNCHANGED disturbed
  BY <1>2 DEF DriverRequestStep, DriverDoes, D!HttpStep, D!Insert, D!StatusWrite, D!StatusRedis, D!StatusPublish,
              D!LocRedis, D!LocWrite
<1>3. ASSUME D!PhotoWrite \/ D!SystemWrite \/ D!SystemRedis \/ D!SystemPublish PROVE UNCHANGED disturbed
  BY <1>3 DEF D!PhotoWrite, D!SystemWrite, D!SystemRedis, D!SystemPublish
<1>4. ASSUME NEW t \in D!DriverTopics, D!Consume(t) PROVE disturbed' = TRUE
  BY <1>4 DEF D!Consume, D!Starts
<1>5. CASE DriverTrouble
  BY <1>5 DEF DriverTrouble, DriverDoes, D!HandlerThrows, D!Crash, D!Rejoin, D!RequestFails, D!Fault
<1>6. CASE MatcherWorks \/ MatcherTrouble
  BY <1>6 DEF MatcherWorks, MatcherTrouble, MatchingDoes, driverVars
<1>7. CASE (\E r \in Rides : ClientRequests(r) \/ ClientUpdates(r) \/ RideRequestStep(r)) \/ RideConsumes \/ RideTrouble
  BY <1>7 DEF ClientRequests, ClientUpdates, RideRequestStep, RideConsumes, RideTrouble, RideDoes, driverVars
<1>8. CASE UNCHANGED flowVars
  BY <1>8 DEF flowVars, driverVars
<1> QED BY <1>1, <1>2, <1>3, <1>4, <1>5, <1>6, <1>7, <1>8 DEF FlowNext, DriverConsumes, DriverDoes, D!ConsumerStep

LEMMA DriverStepOf ==
    ASSUME FlowInv, disturbed = TRUE, DView!HasRoom, [FlowNext]_flowVars
    PROVE  [DView!Next]_(DView!vars)
<1>1. LogOK(log)
  BY DEF FlowInv, IInv, TypeOK
<1>2. ASSUME NEW s \in Slots, Ping(s) \/ DriverRequestStep(s) PROVE DView!Next
  BY <1>1, <1>2, RequestsOfDriver
<1>3. CASE DriverConsumes \/ DriverTrouble
  BY <1>1, <1>3, ConsumerOfDriver, TroubleOfDriver
<1>4. CASE MatcherWorks \/ MatcherTrouble
  BY <1>4, MatcherToDriver
<1>5. CASE RideDoes(RideOwn)
  BY <1>5, RideToDriver
<1>6. CASE UNCHANGED flowVars
  <2>1. UNCHANGED <<pool, driverVars, log>> /\ Held' = Held
    BY <1>6 DEF flowVars, matchingVars, Held
  <2> QED BY <1>1, <2>1, ViewFacts, Unseen
<1>7. ASSUME NEW r \in Rides, ClientRequests(r) \/ ClientUpdates(r) \/ RideRequestStep(r) PROVE RideDoes(RideOwn)
  BY <1>7, FlowAssumption DEF ClientRequests, ClientUpdates, RideRequestStep, RideDoes, RideOwn
<1>8. ASSUME RideConsumes \/ RideTrouble PROVE RideDoes(RideOwn)
  BY <1>8, FlowAssumption DEF RideConsumes, RideTrouble, RideDoes, RideOwn
<1> QED BY <1>2, <1>3, <1>4, <1>5, <1>6, <1>7, <1>8 DEF FlowNext

\* DriverSteps: what driver-service's module leaves to its environment is what
\* matching- and ride-service do: a driver leaves the pool before an assignment
\* names them, and a ride event names only a driver assigned to that ride; as
\* long as the bound of that module on events and requests is not met.
THEOREM FlowIsDriverService == FlowSpec /\ []DView!HasRoom => DriverSteps
<1>1. FlowInit => disturbed = TRUE
  BY DEF FlowInit
<1>2. disturbed = TRUE /\ [FlowNext]_flowVars => (disturbed = TRUE)'
  BY StaysDisturbed
<1>3. FlowInv /\ disturbed = TRUE /\ DView!HasRoom /\ [FlowNext]_flowVars => [DView!Next]_(DView!vars)
  BY DriverStepOf
<1> QED BY <1>1, <1>2, <1>3, FlowInvariance, PTL DEF FlowSpec, DriverSteps
=============================================================================
