--------------------------- MODULE MatchingProofs ---------------------------
(***************************************************************************)
(* Proofs about MatchingService, for any drivers, rides, places, instances *)
(* and bounds.                                                             *)
(*                                                                         *)
(* An instance at work is "current" while it still reads the topic its     *)
(* event came from: then its event is the next one of the topic, and only  *)
(* its return moves the offset (MatchOK).  An instance that lost the topic *)
(* works on as well, on an event that is going to be delivered again.      *)
(***************************************************************************)
EXTENDS MatchingService, EventsProofs, FiniteSetTheorems

Current(w) == owner[match[w].topic] = w

MatchOK(w) ==
    match[w].pc # "idle" =>
        /\ match[w].ride \in Rides /\ match[w].pickup \in Pickups
        /\ match[w].pc = "publish" => match[w].driver \in Drivers
        /\ LET t == match[w].topic IN
            Current(w) => HasNext(log[t], pos[t]) /\ NextMessage(log[t], pos[t]).ride = match[w].ride

MatchesOK == \A w \in Matchers : MatchOK(w)

IInv == TypeOK /\ MatchesOK /\ RequestsAccountedFor

-----------------------------------------------------------------------------
(* Types.                                                                  *)

LEMMA NoMatchType == NoMatch \in Match /\ NoMatch.pc = "idle"
  BY DEF NoMatch, Match, MatchingTopics

LEMMA TopicFacts ==
    ASSUME TypeOK
    PROVE  /\ MatchingTopics \subseteq Topics
           /\ "ride.requested" \in MatchingTopics /\ "driver.declined" \in MatchingTopics
           /\ "driver.assigned" \in Topics \ MatchingTopics
           /\ log["ride.requested"] \in Seq(RequestEvent) /\ log["driver.declined"] \in Seq(DeclinedEvent)
           /\ log["driver.assigned"] \in Seq(AssignedEvent)
           /\ \A t \in Topics : Len(log[t]) \in Nat /\ pos[t] \in Nat
<1>1. ASSUME NEW t \in Topics PROVE Len(log[t]) \in Nat
  <2>1. PICK S : log[t] \in Seq(S)
    BY DEF TypeOK, LogOK, Topics
  <2> QED BY <2>1
<1> QED BY <1>1 DEF TypeOK, LogOK, Topics, MatchingTopics

\* The log as a step leaves it: longer, and the same as far as it went.
LogGrew ==
    \A t \in Topics : Len(log[t]) <= Len(log'[t]) /\ \A i \in 1 .. Len(log[t]) : log'[t][i] = log[t][i]

LEMMA SameLogGrew ==
    ASSUME TypeOK, log' = log
    PROVE  LogGrew
  BY TopicFacts DEF LogGrew

LEMMA PublishedGrew ==
    ASSUME TypeOK, NEW t \in Topics, NEW m, Carries(t, m), log' = Published(log, t, m)
    PROVE  /\ LogGrew /\ LogOK(log')
           /\ Len(log'[t]) = Len(log[t]) + 1 /\ log'[t][Len(log[t]) + 1] = m
           /\ \A u \in Topics \ {t} : log'[u] = log[u]
<1>1. LogOK(log) /\ \A u \in Topics : Len(log[u]) \in Nat
  BY TopicFacts DEF TypeOK
<1>2. log'[t] = Append(log[t], m) /\ \A u \in Topics \ {t} : log'[u] = log[u]
  BY <1>1, PublishedTopics
<1>3. PICK S : log[t] \in Seq(S) /\ m \in S
  BY <1>1 DEF LogOK, Topics, Carries
<1>4. /\ Len(Append(log[t], m)) = Len(log[t]) + 1 /\ Append(log[t], m)[Len(log[t]) + 1] = m
      /\ \A i \in 1 .. Len(log[t]) : Append(log[t], m)[i] = log[t][i]
  BY <1>3, AppendFacts
<1>5. LogOK(log')
  BY <1>1, PublishedType DEF Carries
<1>6. ASSUME NEW u \in Topics
      PROVE  Len(log[u]) <= Len(log'[u]) /\ \A i \in 1 .. Len(log[u]) : log'[u][i] = log[u][i]
  BY <1>1, <1>2, <1>4
<1> QED BY <1>2, <1>4, <1>5, <1>6 DEF LogGrew

\* A handler that returns moves the offset past its event if it is current.
LEMMA ReturnsFacts ==
    ASSUME TypeOK, NEW w \in Matchers, MatchOK(w), match[w].pc # "idle", Returns(w), NEW t, t = match[w].topic
    PROVE  /\ match' \in [Matchers -> Match] /\ match'[w] = NoMatch
           /\ \A v \in Matchers \ {w} : match'[v] = match[v]
           /\ t \in MatchingTopics
           /\ pos' \in [Topics -> Nat] /\ \A u \in Topics \ {t} : pos'[u] = pos[u]
           /\ Current(w) => pos'[t] = pos[t] + 1 /\ pos[t] + 1 \in 1 .. Len(log[t])
                            /\ log[t][pos[t] + 1].ride = match[w].ride
           /\ ~Current(w) => pos' = pos
           /\ \A u \in MatchingTopics : committed[u].from <= pos'[u] + 1 /\ pos'[u] <= Len(log[u])
<1>1. t \in MatchingTopics /\ t \in Topics /\ pos[t] \in Nat /\ Len(log[t]) \in Nat
  BY TopicFacts DEF TypeOK, Match
<1>2. match' = [match EXCEPT ![w] = NoMatch] /\ match \in [Matchers -> Match]
      /\ pos \in [Topics -> Nat]
      /\ pos' = IF Current(w) THEN [pos EXCEPT ![t] = pos[t] + 1] ELSE pos
  BY DEF Returns, Current, TypeOK
<1>3. match' \in [Matchers -> Match] /\ match'[w] = NoMatch /\ \A v \in Matchers \ {w} : match'[v] = match[v]
  BY <1>2, NoMatchType
<1>4. pos' \in [Topics -> Nat] /\ \A u \in Topics \ {t} : pos'[u] = pos[u]
  BY <1>1, <1>2
<1>5. ASSUME Current(w) PROVE /\ pos'[t] = pos[t] + 1 /\ pos[t] + 1 \in 1 .. Len(log[t])
                              /\ log[t][pos[t] + 1].ride = match[w].ride
  <2>1. HasNext(log[t], pos[t]) /\ NextMessage(log[t], pos[t]).ride = match[w].ride
    BY <1>5 DEF MatchOK
  <2> QED BY <2>1, <1>1, <1>2, <1>5 DEF HasNext, NextMessage
<1>6. ~Current(w) => pos' = pos
  BY <1>2
<1>7. ASSUME NEW u \in MatchingTopics PROVE committed[u].from <= pos'[u] + 1 /\ pos'[u] <= Len(log[u])
  <2>1. /\ committed[u].from <= pos[u] + 1 /\ pos[u] <= Len(log[u]) /\ u \in Topics
        /\ committed[u].from \in Nat /\ pos[u] \in Nat /\ Len(log[u]) \in Nat
    BY TopicFacts DEF TypeOK, Commit
  <2>2. CASE u = t /\ Current(w)
    BY <1>5, <2>1, <2>2
  <2>3. CASE ~(u = t /\ Current(w))
    BY <1>4, <1>6, <2>1, <2>3
  <2> QED BY <2>2, <2>3
<1> QED BY <1>1, <1>3, <1>4, <1>5, <1>6, <1>7

LEMMA InitInv ==
    ASSUME Init
    PROVE  IInv
<1>1. TypeOK
  <2>1. \A t \in Topics : Len(EmptyLog[t]) = 0
    BY DEF EmptyLog
  <2>2. MatchingTopics \subseteq Topics
    BY DEF MatchingTopics, Topics
  <2> QED BY <2>1, <2>2, NoMatchType, EmptyLogOK, FirstCommitsOK DEF Init, TypeOK
<1>2. MatchesOK
  BY NoMatchType DEF Init, MatchesOK, MatchOK
<1>3. RequestsAccountedFor
  BY DEF Init, RequestsAccountedFor, Handled, Topics
<1> QED BY <1>1, <1>2, <1>3 DEF IInv

-----------------------------------------------------------------------------
(* What a step must not disturb.                                           *)

\* An instance whose event and topic a step leaves alone.
LEMMA MatchStays ==
    ASSUME TypeOK, LogGrew, NEW v \in Matchers, MatchOK(v), match'[v] = match[v],
           owner'[match[v].topic] = v => Current(v) /\ pos'[match[v].topic] = pos[match[v].topic]
    PROVE  MatchOK(v)'
<1> PICK j : j = match[v]
  OBVIOUS
<1>1. CASE j.pc = "idle"
  BY <1>1 DEF MatchOK
<1>2. CASE j.pc # "idle"
  <2>1. j.topic \in Topics /\ Len(log[j.topic]) \in Nat /\ pos[j.topic] \in Nat
    BY TopicFacts DEF TypeOK, Match
  <2>2. ASSUME owner'[j.topic] = v
        PROVE  HasNext(log'[j.topic], pos'[j.topic]) /\ NextMessage(log'[j.topic], pos'[j.topic]).ride = j.ride
    <3>1. HasNext(log[j.topic], pos[j.topic]) /\ NextMessage(log[j.topic], pos[j.topic]).ride = j.ride
      BY <1>2, <2>2 DEF MatchOK
    <3>2. /\ pos'[j.topic] = pos[j.topic] /\ Len(log[j.topic]) <= Len(log'[j.topic])
          /\ \A i \in 1 .. Len(log[j.topic]) : log'[j.topic][i] = log[j.topic][i]
      BY <2>1, <2>2 DEF LogGrew
    <3>3. pos[j.topic] + 1 \in 1 .. Len(log[j.topic])
      BY <2>1, <3>1 DEF HasNext
    <3>4. HasNext(log'[j.topic], pos'[j.topic])
      BY <2>1, <3>1, <3>2 DEF HasNext
    <3> QED BY <3>1, <3>2, <3>3, <3>4 DEF NextMessage
  <2>3. /\ j.ride \in Rides /\ j.pickup \in Pickups
        /\ j.pc = "publish" => j.driver \in Drivers
    BY <1>2 DEF MatchOK
  <2> QED BY <2>2, <2>3 DEF MatchOK, Current
<1> QED BY <1>1, <1>2

\* Requests that were answered stay answered.
LEMMA AccountedStays ==
    ASSUME TypeOK, LogGrew, unmatched \subseteq unmatched', failed \subseteq failed', NEW r,
           AssignedFor(r) # {} \/ r \in unmatched \cup failed
    PROVE  AssignedFor(r)' # {} \/ r \in unmatched' \cup failed'
<1>1. Len(log["driver.assigned"]) \in Nat /\ "driver.assigned" \in Topics
  BY TopicFacts
<1>2. ASSUME NEW i \in AssignedFor(r) PROVE i \in AssignedFor(r)'
  BY <1>1, <1>2 DEF AssignedFor, LogGrew
<1> QED BY <1>2

\* None of the requests is new among the handled.
LEMMA AccountedKept ==
    ASSUME IInv, TypeOK', LogGrew, unmatched \subseteq unmatched', failed \subseteq failed',
           Handled(committed', pos', "ride.requested") \subseteq Handled(committed, pos, "ride.requested")
    PROVE  RequestsAccountedFor'
<1>1. /\ pos["ride.requested"] \in Nat /\ pos'["ride.requested"] \in Nat /\ Len(log["ride.requested"]) \in Nat
      /\ pos["ride.requested"] <= Len(log["ride.requested"]) /\ "ride.requested" \in Topics
  BY TopicFacts DEF IInv, TypeOK
<1>2. ASSUME NEW i \in Handled(committed', pos', "ride.requested")
      PROVE  AssignedFor(log["ride.requested"][i].ride)' # {} \/ log'["ride.requested"][i].ride \in unmatched' \cup failed'
  <2>1. i \in Handled(committed, pos, "ride.requested") /\ i \in 1 .. Len(log["ride.requested"])
    BY <1>1, <1>2 DEF Handled
  <2> PICK r : r = log["ride.requested"][i].ride
    OBVIOUS
  <2>2. log'["ride.requested"][i].ride = r
    BY <1>1, <2>1 DEF LogGrew
  <2>3. AssignedFor(r) # {} \/ r \in unmatched \cup failed
    BY <2>1 DEF IInv, RequestsAccountedFor, Answered
  <2>4. AssignedFor(r)' # {} \/ r \in unmatched' \cup failed'
    BY <2>3, AccountedStays DEF IInv
  <2>5. AssignedFor(log["ride.requested"][i].ride)' = AssignedFor(r)'
    BY <2>2 DEF AssignedFor
  <2> QED BY <2>2, <2>4, <2>5
<1> QED BY <1>2 DEF RequestsAccountedFor, Answered

\* One request that was handled in an old state or is answered in the new one.
LEMMA AnsweredThen ==
    ASSUME IInv, LogGrew, unmatched \subseteq unmatched', failed \subseteq failed',
           NEW i \in 1 .. Len(log["ride.requested"]), NEW r, r = log["ride.requested"][i].ride,
           i \in Handled(committed, pos, "ride.requested") \/ AssignedFor(r)' # {} \/ r \in unmatched' \cup failed'
    PROVE  AssignedFor(log["ride.requested"][i].ride)' # {} \/ log'["ride.requested"][i].ride \in unmatched' \cup failed'
<1>1. "ride.requested" \in Topics /\ pos["ride.requested"] \in Nat /\ Len(log["ride.requested"]) \in Nat
  BY TopicFacts DEF IInv
<1>2. log'["ride.requested"][i].ride = r
  BY <1>1 DEF LogGrew
<1>3. ASSUME i \in Handled(committed, pos, "ride.requested") PROVE AssignedFor(r)' # {} \/ r \in unmatched' \cup failed'
  <2>2. AssignedFor(r) # {} \/ r \in unmatched \cup failed
    BY <1>3 DEF IInv, RequestsAccountedFor, Answered
  <2> QED BY <2>2, AccountedStays DEF IInv
<1>4. AssignedFor(r)' # {} \/ r \in unmatched' \cup failed'
  BY <1>3
<1>5. AssignedFor(log["ride.requested"][i].ride)' = AssignedFor(r)'
  BY <1>2 DEF AssignedFor
<1> QED BY <1>2, <1>4, <1>5

-----------------------------------------------------------------------------
(* Steps.                                                                  *)

\* A step of the others, or one that only changes what an instance holds.
LEMMA QuietStep ==
    ASSUME IInv, TypeOK', LogGrew, UNCHANGED <<unmatched, failed, owner, pos, committed>>,
           \A v \in Matchers : match'[v] = match[v] \/ MatchOK(v)'
    PROVE  IInv'
<1>1. ASSUME NEW v \in Matchers PROVE MatchOK(v)'
  BY MatchStays DEF IInv, MatchesOK, Current
<1>2. Handled(committed', pos', "ride.requested") \subseteq Handled(committed, pos, "ride.requested")
  BY TopicFacts DEF IInv
<1>3. RequestsAccountedFor'
  BY <1>2, AccountedKept
<1> QED BY <1>1, <1>3 DEF IInv, MatchesOK

\* A handler returns with its request answered.
LEMMA ReturnStep ==
    ASSUME IInv, TypeOK', LogGrew, unmatched \subseteq unmatched', failed \subseteq failed', UNCHANGED <<owner, committed>>,
           NEW w \in Matchers, match[w].pc # "idle", Returns(w), NEW r, r = match[w].ride,
           AssignedFor(r)' # {} \/ r \in unmatched' \cup failed'
    PROVE  IInv'
<1> PICK t : t = match[w].topic
  OBVIOUS
<1>1. /\ match'[w] = NoMatch /\ t \in MatchingTopics
      /\ \A v \in Matchers \ {w} : match'[v] = match[v]
      /\ \A u \in Topics \ {t} : pos'[u] = pos[u]
      /\ Current(w) => pos'[t] = pos[t] + 1 /\ pos[t] + 1 \in 1 .. Len(log[t])
                       /\ log[t][pos[t] + 1].ride = r
      /\ ~Current(w) => pos' = pos
  BY ReturnsFacts DEF IInv, MatchesOK
<1>2. ASSUME NEW v \in Matchers PROVE MatchOK(v)'
  <2>1. CASE v = w
    BY <1>1, <2>1, NoMatchType DEF MatchOK
  <2>2. CASE v # w
    <3>1. match'[v] = match[v] /\ match[v].topic \in Topics
      BY <1>1, <2>2, TopicFacts DEF IInv, TypeOK, Match
    <3>2. ASSUME owner'[match[v].topic] = v PROVE Current(v) /\ pos'[match[v].topic] = pos[match[v].topic]
      BY <1>1, <2>2, <3>1, <3>2 DEF Current
    <3> QED BY <3>1, <3>2, MatchStays DEF IInv, MatchesOK
  <2> QED BY <2>1, <2>2
<1>3. /\ pos["ride.requested"] \in Nat /\ Len(log["ride.requested"]) \in Nat
      /\ pos["ride.requested"] <= Len(log["ride.requested"]) /\ "ride.requested" \in Topics
  BY TopicFacts DEF IInv, TypeOK
<1>4. ASSUME NEW i \in Handled(committed, pos', "ride.requested")
      PROVE  AssignedFor(log["ride.requested"][i].ride)' # {} \/ log'["ride.requested"][i].ride \in unmatched' \cup failed'
  <2>1. CASE i \in Handled(committed, pos, "ride.requested")
    <3>1. i \in 1 .. Len(log["ride.requested"])
      BY <1>3, <2>1 DEF Handled
    <3> QED BY <2>1, <3>1, AnsweredThen
  <2>2. CASE i \notin Handled(committed, pos, "ride.requested")
    <3>1. Current(w) /\ t = "ride.requested" /\ i = pos["ride.requested"] + 1
      BY <1>1, <1>3, <1>4, <2>2 DEF Handled
    <3>2. i \in 1 .. Len(log["ride.requested"]) /\ r = log["ride.requested"][i].ride
      BY <1>1, <3>1
    <3> QED BY <3>2, AnsweredThen
  <2> QED BY <2>1, <2>2
<1>5. RequestsAccountedFor'
  BY <1>4 DEF RequestsAccountedFor, Answered
<1> QED BY <1>2, <1>5 DEF IInv, MatchesOK

LEMMA ReceiveInv ==
    ASSUME IInv, NEW w \in Matchers, NEW t \in MatchingTopics, Receive(w, t)
    PROVE  IInv'
<1> PICK m : m = NextMessage(log[t], pos[t])
  OBVIOUS
<1> PICK g : g = [pc |-> "claim", topic |-> t, ride |-> m.ride, pickup |-> m.pickup, driver |-> NoDriver]
  OBVIOUS
<1>1. /\ owner[t] = w /\ HasNext(log[t], pos[t]) /\ match' = [match EXCEPT ![w] = g]
      /\ UNCHANGED <<pool, joined, unmatched, failed, owner, log, pos, committed, faults>>
  BY DEF Receive
<1>2. t = "ride.requested" \/ t = "driver.declined"
  BY DEF MatchingTopics
<1>3. m.ride \in Rides /\ m.pickup \in Pickups
  <2>1. pos[t] \in Nat
    BY TopicFacts DEF IInv
  <2>2. CASE t = "ride.requested"
    <3>1. m \in RequestEvent
      BY <1>1, <2>1, <2>2, TopicFacts, NextIsMessage DEF IInv
    <3> QED BY <3>1 DEF RequestEvent
  <2>3. CASE t = "driver.declined"
    <3>1. m \in DeclinedEvent
      BY <1>1, <2>1, <2>3, TopicFacts, NextIsMessage DEF IInv
    <3> QED BY <3>1 DEF DeclinedEvent
  <2> QED BY <1>2, <2>2, <2>3
<1>4. g \in Match /\ g.pc = "claim" /\ g.topic = t /\ g.ride = m.ride /\ g.pickup = m.pickup
  BY <1>3 DEF Match
<1>5. match' \in [Matchers -> Match] /\ match'[w] = g /\ \A v \in Matchers \ {w} : match'[v] = match[v]
  BY <1>1, <1>4 DEF IInv, TypeOK
<1>6. TypeOK'
  BY <1>1, <1>5 DEF IInv, TypeOK
<1>7. MatchOK(w)'
  <2>1. HasNext(log'[t], pos'[t]) /\ NextMessage(log'[t], pos'[t]).ride = g.ride
    BY <1>1, <1>4
  <2> QED BY <1>3, <1>4, <1>5, <2>1 DEF MatchOK
<1>8. LogGrew
  BY <1>1, SameLogGrew DEF IInv
<1> QED BY <1>1, <1>5, <1>6, <1>7, <1>8, QuietStep

LEMMA ClaimFacts ==
    ASSUME TypeOK, NEW w \in Matchers, Claim(w)
    PROVE  \E d \in Drivers :
             /\ match[w].pc = "claim" /\ pool[d] # NoPlace
             /\ pool' = [pool EXCEPT ![d] = NoPlace]
             /\ match' \in [Matchers -> Match]
             /\ match'[w].pc = "publish" /\ match'[w].driver = d /\ match'[w].topic = match[w].topic
             /\ match'[w].ride = match[w].ride /\ match'[w].pickup = match[w].pickup
             /\ \A v \in Matchers \ {w} : match'[v] = match[v]
             /\ UNCHANGED <<joined, unmatched, failed, owner, log, pos, committed, faults>>
<1>1. PICK d \in Nearest(match[w].pickup) :
         Removed(d) /\ match' = [match EXCEPT ![w].pc = "publish", ![w].driver = d]
  BY DEF Claim
<1>2. d \in Drivers /\ pool[d] # NoPlace
  BY DEF Nearest, InRange
<1> PICK q : q = match[w]
  OBVIOUS
<1> PICK g : g = [q EXCEPT !.pc = "publish", !.driver = d]
  OBVIOUS
<1>3. q \in Match
  BY DEF TypeOK
<1>4. /\ g \in Match /\ g.pc = "publish" /\ g.driver = d /\ g.topic = q.topic
      /\ g.ride = q.ride /\ g.pickup = q.pickup
  BY <1>2, <1>3 DEF Match
<1>5. match' = [match EXCEPT ![w] = g]
  BY <1>1 DEF TypeOK
<1>6. match' \in [Matchers -> Match] /\ match'[w] = g /\ \A v \in Matchers \ {w} : match'[v] = match[v]
  BY <1>4, <1>5 DEF TypeOK
<1> QED BY <1>1, <1>2, <1>4, <1>6 DEF Claim, Removed

LEMMA ClaimInv ==
    ASSUME IInv, NEW w \in Matchers, Claim(w)
    PROVE  IInv'
<1>1. PICK d \in Drivers :
             /\ match[w].pc = "claim" /\ pool[d] # NoPlace
             /\ pool' = [pool EXCEPT ![d] = NoPlace]
             /\ match' \in [Matchers -> Match]
             /\ match'[w].pc = "publish" /\ match'[w].driver = d /\ match'[w].topic = match[w].topic
             /\ match'[w].ride = match[w].ride /\ match'[w].pickup = match[w].pickup
             /\ \A v \in Matchers \ {w} : match'[v] = match[v]
             /\ UNCHANGED <<joined, unmatched, failed, owner, log, pos, committed, faults>>
  BY ClaimFacts DEF IInv
<1>2. TypeOK'
  BY <1>1 DEF IInv, TypeOK
<1>3. MatchOK(w)'
  BY <1>1 DEF IInv, MatchesOK, MatchOK, Current
<1> QED BY <1>1, <1>2, <1>3, SameLogGrew, QuietStep DEF IInv

\* The types of a step after which a handler has returned.
LEMMA ReturnType ==
    ASSUME IInv, NEW w \in Matchers, match[w].pc # "idle", Returns(w), LogGrew, LogOK(log'),
           UNCHANGED <<joined, owner, committed>>, pool' \in [Drivers -> Places \cup {NoPlace}],
           unmatched' \subseteq Rides, failed' \subseteq Rides, faults' \in Nat
    PROVE  TypeOK'
<1>1. match' \in [Matchers -> Match] /\ pos' \in [Topics -> Nat]
      /\ \A u \in MatchingTopics : committed[u].from <= pos'[u] + 1 /\ pos'[u] <= Len(log[u])
  BY ReturnsFacts DEF IInv, MatchesOK
<1>2. ASSUME NEW u \in MatchingTopics PROVE committed'[u].from <= pos'[u] + 1 /\ pos'[u] <= Len(log'[u])
  <2>1. u \in Topics /\ Len(log[u]) \in Nat /\ pos'[u] \in Nat
    BY <1>1, TopicFacts DEF IInv
  <2>2. Len(log'[u]) \in Nat
    <3>1. PICK S : log'[u] \in Seq(S)
      BY <2>1 DEF LogOK, Topics
    <3> QED BY <3>1
  <2> QED BY <1>1, <2>1, <2>2 DEF LogGrew
<1> QED BY <1>1, <1>2 DEF IInv, TypeOK

LEMMA NobodyInRangeInv ==
    ASSUME IInv, NEW w \in Matchers, NobodyInRange(w)
    PROVE  IInv'
<1>1. /\ match[w].pc # "idle" /\ Returns(w) /\ unmatched' = unmatched \cup {match[w].ride}
      /\ UNCHANGED <<pool, joined, failed, owner, log, committed, faults>>
  BY DEF NobodyInRange
<1>2. match[w].ride \in Rides
  BY <1>1 DEF IInv, MatchesOK, MatchOK
<1>3. LogGrew
  BY <1>1, SameLogGrew DEF IInv
<1>4. TypeOK'
  BY <1>1, <1>2, <1>3, ReturnType DEF IInv, TypeOK
<1> QED BY <1>1, <1>3, <1>4, ReturnStep

LEMMA CallFailsInv ==
    ASSUME IInv, NEW w \in Matchers, CallFails(w)
    PROVE  IInv'
<1>1. /\ match[w].pc # "idle" /\ Returns(w) /\ failed' = failed \cup {match[w].ride}
      /\ UNCHANGED <<joined, unmatched, owner, log, committed>>
  BY DEF CallFails
<1>2. match[w].ride \in Rides
  BY <1>1 DEF IInv, MatchesOK, MatchOK
<1>3. LogGrew
  BY <1>1, SameLogGrew DEF IInv
<1>4. pool' \in [Drivers -> Places \cup {NoPlace}] /\ faults' \in Nat
  BY DEF CallFails, Removed, Fault, IInv, TypeOK
<1>5. TypeOK'
  BY <1>1, <1>2, <1>3, <1>4, ReturnType DEF IInv, TypeOK
<1> QED BY <1>1, <1>3, <1>5, ReturnStep

LEMMA PublishAssignedInv ==
    ASSUME IInv, NEW w \in Matchers, PublishAssigned(w)
    PROVE  IInv'
<1> PICK m : m = [ride |-> match[w].ride, driver |-> match[w].driver]
  OBVIOUS
<1>1. /\ match[w].pc = "publish" /\ Returns(w) /\ log' = Published(log, "driver.assigned", m)
      /\ UNCHANGED <<pool, joined, unmatched, failed, owner, committed, faults>>
  BY DEF PublishAssigned
<1>2. Carries("driver.assigned", m) /\ m.ride = match[w].ride
  BY <1>1 DEF IInv, MatchesOK, MatchOK, Carries, AssignedEvent
<1>3. /\ LogGrew /\ LogOK(log') /\ Len(log'["driver.assigned"]) = Len(log["driver.assigned"]) + 1
      /\ log'["driver.assigned"][Len(log["driver.assigned"]) + 1] = m
  BY <1>1, <1>2, TopicFacts, PublishedGrew DEF IInv
<1>4. TypeOK'
  BY <1>1, <1>3, ReturnType DEF IInv, TypeOK
<1> PICK r : r = match[w].ride
  OBVIOUS
<1>5. AssignedFor(r)' # {}
  <2>1. Len(log["driver.assigned"]) \in Nat
    BY TopicFacts DEF IInv
  <2>2. Len(log["driver.assigned"]) + 1 \in {i \in 1 .. Len(log'["driver.assigned"]) : log'["driver.assigned"][i].ride = r}
    BY <1>2, <1>3, <2>1
  <2> QED BY <2>2 DEF AssignedFor
<1> QED BY <1>1, <1>3, <1>4, <1>5, ReturnStep

\* Where a group stands that reads topics anew.
LEMMA ResumeFacts ==
    ASSUME TypeOK, NEW topics, topics \subseteq MatchingTopics, Resume(topics)
    PROVE  /\ pos' \in [Topics -> Nat] /\ committed' \in [Topics -> Commit]
           /\ \A u \in Topics \ topics : pos'[u] = pos[u]
           /\ \A u \in MatchingTopics : committed'[u].from <= pos'[u] + 1 /\ pos'[u] <= Len(log[u])
           /\ \A u \in MatchingTopics : \A i \in committed'[u].skipped : 0 < i /\ i < committed'[u].from
           /\ \A u \in Topics : Handled(committed', pos', u) \subseteq Handled(committed, pos, u)
<1>1. PICK k : /\ k \in Rejoins(log, committed, pos, topics)
               /\ pos' = PosAfter(k, pos) /\ committed' = CommittedAfter(k, committed)
  BY DEF Resume
<1>2. topics \subseteq Topics /\ LogOK(log) /\ OffsetsOK(log, committed, pos, topics)
  BY TopicFacts DEF TypeOK, OffsetsOK
<1>3. /\ OffsetsOK(log, committed', pos', topics)
      /\ Moved(log, committed, pos, committed', pos', topics)
  BY <1>1, <1>2, RejoinsFacts
<1>4. \A u \in Topics : Handled(committed', pos', u) \subseteq Handled(committed, pos, u)
  BY <1>2, <1>3, HandledAfter
<1>5. ASSUME NEW u \in MatchingTopics
      PROVE  /\ committed'[u].from <= pos'[u] + 1 /\ pos'[u] <= Len(log[u])
             /\ \A i \in committed'[u].skipped : 0 < i /\ i < committed'[u].from
  BY <1>3, TopicFacts DEF OffsetsOK, Moved, TypeOK
<1> QED BY <1>3, <1>4, <1>5 DEF OffsetsOK, Moved

LEMMA CrashInv ==
    ASSUME IInv, NEW w \in Matchers, Crash(w)
    PROVE  IInv'
<1> PICK topics : topics = {t \in MatchingTopics : owner[t] = w}
  OBVIOUS
<1>1. /\ match' = [match EXCEPT ![w] = NoMatch] /\ Resume(topics) /\ faults' = faults + 1
      /\ UNCHANGED <<pool, joined, unmatched, failed, owner, log>>
  BY DEF Crash, Fault
<1>2. /\ pos' \in [Topics -> Nat] /\ committed' \in [Topics -> Commit]
      /\ \A u \in Topics \ topics : pos'[u] = pos[u]
      /\ \A u \in MatchingTopics : committed'[u].from <= pos'[u] + 1 /\ pos'[u] <= Len(log[u])
      /\ \A u \in MatchingTopics : \A i \in committed'[u].skipped : 0 < i /\ i < committed'[u].from
      /\ \A u \in Topics : Handled(committed', pos', u) \subseteq Handled(committed, pos, u)
  BY <1>1, ResumeFacts DEF IInv
<1>3. match' \in [Matchers -> Match] /\ match'[w] = NoMatch /\ \A v \in Matchers \ {w} : match'[v] = match[v]
  BY <1>1, NoMatchType DEF IInv, TypeOK
<1>4. TypeOK'
  BY <1>1, <1>2, <1>3 DEF IInv, TypeOK
<1>5. LogGrew
  BY <1>1, SameLogGrew DEF IInv
<1>6. ASSUME NEW v \in Matchers PROVE MatchOK(v)'
  <2>1. CASE v = w
    BY <1>3, <2>1, NoMatchType DEF MatchOK
  <2>2. CASE v # w
    <3>1. match'[v] = match[v] /\ match[v].topic \in Topics
      BY <1>3, <2>2, TopicFacts DEF IInv, TypeOK, Match
    <3>2. ASSUME owner'[match[v].topic] = v PROVE Current(v) /\ pos'[match[v].topic] = pos[match[v].topic]
      BY <1>1, <1>2, <2>2, <3>1, <3>2 DEF Current
    <3> QED BY <1>5, <3>1, <3>2, MatchStays DEF IInv, MatchesOK
  <2> QED BY <2>1, <2>2
<1>7. RequestsAccountedFor'
  BY <1>1, <1>2, <1>4, <1>5, AccountedKept, TopicFacts DEF IInv
<1> QED BY <1>4, <1>6, <1>7 DEF IInv, MatchesOK

LEMMA RebalanceInv ==
    ASSUME IInv, NEW w \in Matchers, NEW t \in MatchingTopics, Rebalance(w, t)
    PROVE  IInv'
<1>1. /\ match[w].pc = "idle" /\ owner' = [owner EXCEPT ![t] = w] /\ Resume({t}) /\ faults' = faults + 1
      /\ UNCHANGED <<pool, joined, match, unmatched, failed, log>>
  BY DEF Rebalance, Fault
<1>2. /\ pos' \in [Topics -> Nat] /\ committed' \in [Topics -> Commit]
      /\ \A u \in Topics \ {t} : pos'[u] = pos[u]
      /\ \A u \in MatchingTopics : committed'[u].from <= pos'[u] + 1 /\ pos'[u] <= Len(log[u])
      /\ \A u \in MatchingTopics : \A i \in committed'[u].skipped : 0 < i /\ i < committed'[u].from
      /\ \A u \in Topics : Handled(committed', pos', u) \subseteq Handled(committed, pos, u)
  BY <1>1, ResumeFacts DEF IInv
<1>3. TypeOK'
  BY <1>1, <1>2 DEF IInv, TypeOK
<1>4. LogGrew
  BY <1>1, SameLogGrew DEF IInv
<1>5. ASSUME NEW v \in Matchers PROVE MatchOK(v)'
  <2>1. CASE match[v].pc = "idle"
    BY <1>1, <2>1 DEF MatchOK
  <2>2. CASE match[v].pc # "idle"
    <3>1. v # w /\ match'[v] = match[v] /\ match[v].topic \in Topics /\ match[v].topic \in MatchingTopics
      BY <1>1, <2>2, TopicFacts DEF IInv, TypeOK, Match
    <3>2. ASSUME owner'[match[v].topic] = v PROVE Current(v) /\ pos'[match[v].topic] = pos[match[v].topic]
      <4>1. match[v].topic # t /\ owner[match[v].topic] = v
        BY <1>1, <3>1, <3>2 DEF IInv, TypeOK
      <4> QED BY <1>2, <3>1, <4>1 DEF Current
    <3> QED BY <1>4, <3>1, <3>2, MatchStays DEF IInv, MatchesOK
  <2> QED BY <2>1, <2>2
<1>6. RequestsAccountedFor'
  BY <1>1, <1>2, <1>3, <1>4, AccountedKept, TopicFacts DEF IInv
<1> QED BY <1>3, <1>5, <1>6 DEF IInv, MatchesOK

\* The types of a step that publishes and moves no offset.
LEMMA PublishType ==
    ASSUME TypeOK, LogGrew, LogOK(log'), UNCHANGED <<pool, joined, match, unmatched, failed, owner, pos, committed, faults>>
    PROVE  TypeOK'
<1>1. ASSUME NEW u \in MatchingTopics PROVE committed'[u].from <= pos'[u] + 1 /\ pos'[u] <= Len(log'[u])
  <2>1. u \in Topics /\ Len(log[u]) \in Nat /\ pos[u] \in Nat /\ committed[u].from <= pos[u] + 1 /\ pos[u] <= Len(log[u])
    BY TopicFacts DEF TypeOK
  <2>2. Len(log'[u]) \in Nat
    <3>1. PICK S : log'[u] \in Seq(S)
      BY <2>1 DEF LogOK, Topics
    <3> QED BY <3>1
  <2> QED BY <2>1, <2>2 DEF LogGrew
<1> QED BY <1>1 DEF TypeOK

\* A driver enters the pool, which is counted, or moves within it.
LEMMA GeoaddFacts ==
    ASSUME TypeOK, NEW d \in Drivers, NEW p \in Places, Geoadd(d, p)
    PROVE  /\ pool' \in [Drivers -> Places \cup {NoPlace}] /\ joined' \in [Drivers -> Nat]
           /\ joined'[d] = joined[d] + (IF pool[d] = NoPlace THEN 1 ELSE 0)
           /\ \A e \in Drivers \ {d} : pool'[e] = pool[e] /\ joined'[e] = joined[e]
<1> PICK n : n = IF pool[d] = NoPlace THEN joined[d] + 1 ELSE joined[d]
  OBVIOUS
<1>1. joined[d] \in Nat /\ n \in Nat
  BY DEF TypeOK
<1>2. pool' = [pool EXCEPT ![d] = p] /\ joined' = [joined EXCEPT ![d] = n]
  BY DEF Geoadd
<1>3. pool \in [Drivers -> Places \cup {NoPlace}] /\ joined \in [Drivers -> Nat]
  BY DEF TypeOK
<1>4. /\ pool' \in [Drivers -> Places \cup {NoPlace}]
      /\ \A e \in Drivers \ {d} : pool'[e] = pool[e]
  BY <1>2, <1>3
<1>5. /\ joined' \in [Drivers -> Nat] /\ joined'[d] = n
      /\ \A e \in Drivers \ {d} : joined'[e] = joined[e]
  BY <1>1, <1>2, <1>3
<1>6. n = joined[d] + (IF pool[d] = NoPlace THEN 1 ELSE 0)
  BY <1>1
<1> QED BY <1>4, <1>5, <1>6

LEMMA EnvironmentInv ==
    ASSUME IInv, Environment
    PROVE  IInv'
<1>1. ASSUME NEW m \in RequestEvent, RideRequested(m) PROVE IInv'
  <2>1. /\ log' = Published(log, "ride.requested", m)
        /\ UNCHANGED <<pool, joined, match, unmatched, failed, owner, pos, committed, faults>>
    BY <1>1 DEF RideRequested
  <2>2. LogGrew /\ LogOK(log')
    BY <2>1, TopicFacts, PublishedGrew DEF IInv, Carries
  <2>3. TypeOK'
    BY <2>1, <2>2, PublishType DEF IInv
  <2> QED BY <2>1, <2>2, <2>3, QuietStep
<1>2. ASSUME NEW m \in DeclinedEvent, DriverDeclined(m) PROVE IInv'
  <2>1. /\ log' = Published(log, "driver.declined", m)
        /\ UNCHANGED <<pool, joined, match, unmatched, failed, owner, pos, committed, faults>>
    BY <1>2 DEF DriverDeclined
  <2>2. LogGrew /\ LogOK(log')
    BY <2>1, TopicFacts, PublishedGrew DEF IInv, Carries
  <2>3. TypeOK'
    BY <2>1, <2>2, PublishType DEF IInv
  <2> QED BY <2>1, <2>2, <2>3, QuietStep
<1>3. ASSUME NEW d \in Drivers, Zrem(d) \/ \E p \in Places : Geoadd(d, p) PROVE IInv'
  <2>1. /\ pool' \in [Drivers -> Places \cup {NoPlace}] /\ joined' \in [Drivers -> Nat]
        /\ UNCHANGED <<match, unmatched, failed, owner, log, pos, committed, faults>>
    <3>1. CASE Zrem(d)
      BY <3>1 DEF Zrem, IInv, TypeOK
    <3>2. ASSUME NEW p \in Places, Geoadd(d, p)
          PROVE  /\ pool' \in [Drivers -> Places \cup {NoPlace}] /\ joined' \in [Drivers -> Nat]
                 /\ UNCHANGED <<match, unmatched, failed, owner, log, pos, committed, faults>>
      BY <3>2, GeoaddFacts DEF Geoadd, IInv
    <3> QED BY <1>3, <3>1, <3>2
  <2>2. TypeOK'
    BY <2>1 DEF IInv, TypeOK
  <2> QED BY <2>1, <2>2, SameLogGrew, QuietStep DEF IInv
<1> QED BY <1>1, <1>2, <1>3 DEF Environment

\* IInv is inductive.
THEOREM StepInv == IInv /\ [Next]_vars => IInv'
<1> SUFFICES ASSUME IInv, [Next]_vars PROVE IInv'
  OBVIOUS
<1>1. ASSUME NEW w \in Matchers, MatcherStep(w) PROVE IInv'
  BY <1>1, ReceiveInv, ClaimInv, NobodyInRangeInv, PublishAssignedInv DEF MatcherStep
<1>2. ASSUME NEW w \in Matchers, Trouble(w) PROVE IInv'
  BY <1>2, CallFailsInv, CrashInv, RebalanceInv DEF Trouble
<1>3. CASE Environment
  BY <1>3, EnvironmentInv
<1>4. CASE UNCHANGED vars
  <2>1. UNCHANGED <<pool, joined, match, unmatched, failed, owner, log, pos, committed, faults>>
    BY <1>4 DEF vars
  <2>2. TypeOK'
    BY <2>1 DEF IInv, TypeOK
  <2> QED BY <2>1, <2>2, SameLogGrew, QuietStep DEF IInv
<1> QED BY <1>1, <1>2, <1>3, <1>4 DEF Next

THEOREM Invariance == Spec => []IInv
<1>1. Init => IInv
  BY InitInv
<1>2. IInv /\ [Next]_vars => IInv'
  BY StepInv
<1> QED BY <1>1, <1>2, PTL DEF Spec

\* Types, and committed offsets that never pass the handled ones.
THEOREM TypeCorrect == Spec => []TypeOK
<1>1. IInv => TypeOK
  BY DEF IInv
<1> QED BY <1>1, Invariance, PTL

\* RequestsAccountedFor: handleRideRequested swallows errors, yet no request is
\* passed over in silence, not even by crashes and instances that lost a topic,
\* but for those that the group jumps over while it has no offset.
THEOREM RequestsAnswered == Spec => []RequestsAccountedFor
<1>1. IInv => RequestsAccountedFor
  BY DEF IInv
<1> QED BY <1>1, Invariance, PTL

-----------------------------------------------------------------------------
(* Drivers who are assigned, claimed or in the pool.                       *)

InPool(d) == IF pool[d] = NoPlace THEN 0 ELSE 1

ClaimedOnce(d) == Cardinality(AssignedTo(d)) + Cardinality(Holding(d)) + InPool(d) <= joined[d]

CInv == IInv /\ \A d \in Drivers : ClaimedOnce(d)

LEMMA PartFinite ==
    ASSUME NEW n \in Nat, NEW S, S \subseteq 1 .. n
    PROVE  IsFiniteSet(S) /\ Cardinality(S) \in Nat
<1>1. IsFiniteSet(1 .. n)
  BY FS_Interval
<1>2. IsFiniteSet(S)
  BY <1>1, FS_Subset
<1> QED BY <1>2, FS_CardinalityType

LEMMA ClaimSets ==
    ASSUME TypeOK, NEW d \in Drivers
    PROVE  /\ IsFiniteSet(AssignedTo(d)) /\ Cardinality(AssignedTo(d)) \in Nat
           /\ IsFiniteSet(Holding(d)) /\ Cardinality(Holding(d)) \in Nat
           /\ InPool(d) \in Nat /\ joined[d] \in Nat
<1>1. IsFiniteSet(AssignedTo(d)) /\ Cardinality(AssignedTo(d)) \in Nat
  <2>1. Len(log["driver.assigned"]) \in Nat /\ AssignedTo(d) \subseteq 1 .. Len(log["driver.assigned"])
    BY TopicFacts DEF AssignedTo
  <2> QED BY <2>1, PartFinite
<1>2. IsFiniteSet(Holding(d)) /\ Cardinality(Holding(d)) \in Nat
  <2>1. Holding(d) \subseteq Matchers /\ IsFiniteSet(Matchers)
    BY MatchingAssumption DEF Holding
  <2> QED BY <2>1, FS_Subset, FS_CardinalityType
<1> QED BY <1>1, <1>2 DEF InPool, TypeOK

LEMMA ClaimSetsNext ==
    ASSUME TypeOK', NEW d \in Drivers
    PROVE  /\ IsFiniteSet(AssignedTo(d)') /\ Cardinality(AssignedTo(d)') \in Nat
           /\ IsFiniteSet(Holding(d)') /\ Cardinality(Holding(d)') \in Nat
           /\ InPool(d)' \in Nat /\ joined'[d] \in Nat
<1>1. IsFiniteSet(AssignedTo(d)') /\ Cardinality(AssignedTo(d)') \in Nat
  <2>1. log'["driver.assigned"] \in Seq(AssignedEvent)
    BY DEF TypeOK, LogOK
  <2>2. Len(log'["driver.assigned"]) \in Nat /\ AssignedTo(d)' \subseteq 1 .. Len(log'["driver.assigned"])
    BY <2>1 DEF AssignedTo
  <2> QED BY <2>2, PartFinite
<1>2. IsFiniteSet(Holding(d)') /\ Cardinality(Holding(d)') \in Nat
  <2>1. Holding(d)' \subseteq Matchers /\ IsFiniteSet(Matchers)
    BY MatchingAssumption DEF Holding
  <2> QED BY <2>1, FS_Subset, FS_CardinalityType
<1> QED BY <1>1, <1>2 DEF InPool, TypeOK

\* A step that takes nothing on for driver d.
LEMMA ClaimKept ==
    ASSUME CInv, TypeOK', NEW d \in Drivers, AssignedTo(d)' = AssignedTo(d), Holding(d)' \subseteq Holding(d),
           pool'[d] = pool[d] \/ pool'[d] = NoPlace, joined'[d] = joined[d]
    PROVE  ClaimedOnce(d)'
<1>1. Cardinality(Holding(d)') <= Cardinality(Holding(d))
  BY ClaimSets, FS_Subset DEF CInv, IInv
<1>2. InPool(d)' <= InPool(d)
  BY DEF InPool
<1>3. Cardinality(AssignedTo(d)') = Cardinality(AssignedTo(d))
  OBVIOUS
<1>4. /\ Cardinality(AssignedTo(d)) \in Nat /\ Cardinality(Holding(d)) \in Nat /\ InPool(d) \in Nat /\ joined[d] \in Nat
      /\ Cardinality(Holding(d)') \in Nat /\ InPool(d)' \in Nat
  BY ClaimSets, ClaimSetsNext DEF CInv, IInv
<1>5. Cardinality(AssignedTo(d)) + Cardinality(Holding(d)) + InPool(d) <= joined[d]
  BY DEF CInv, ClaimedOnce
<1> QED BY <1>1, <1>2, <1>3, <1>4, <1>5 DEF ClaimedOnce

LEMMA SameAssigned ==
    ASSUME log'["driver.assigned"] = log["driver.assigned"]
    PROVE  \A x : AssignedTo(x)' = AssignedTo(x) /\ AssignedFor(x)' = AssignedFor(x)
  BY DEF AssignedTo, AssignedFor

\* An instance that returns holds nobody; those that hold a driver keep to it.
LEMMA HoldingShrinks ==
    ASSUME NEW w, match'[w].pc # "publish", \A v \in Matchers \ {w} : match'[v] = match[v], NEW d
    PROVE  Holding(d)' \subseteq Holding(d)
  BY DEF Holding

LEMMA ClaimOnce ==
    ASSUME CInv, TypeOK', NEW w \in Matchers, Claim(w), NEW e \in Drivers
    PROVE  ClaimedOnce(e)'
<1>1. PICK d \in Drivers :
             /\ match[w].pc = "claim" /\ pool[d] # NoPlace
             /\ pool' = [pool EXCEPT ![d] = NoPlace]
             /\ match' \in [Matchers -> Match]
             /\ match'[w].pc = "publish" /\ match'[w].driver = d /\ match'[w].topic = match[w].topic
             /\ match'[w].ride = match[w].ride /\ match'[w].pickup = match[w].pickup
             /\ \A v \in Matchers \ {w} : match'[v] = match[v]
             /\ UNCHANGED <<joined, unmatched, failed, owner, log, pos, committed, faults>>
  BY ClaimFacts DEF CInv, IInv
<1>2. AssignedTo(e)' = AssignedTo(e) /\ pool \in [Drivers -> Places \cup {NoPlace}]
  BY <1>1, SameAssigned DEF CInv, IInv, TypeOK
<1>3. CASE e = d
  <2>1. w \notin Holding(d) /\ Holding(d)' = Holding(d) \cup {w}
    BY <1>1 DEF Holding
  <2>2. Cardinality(Holding(d)') = Cardinality(Holding(d)) + 1
    BY <2>1, ClaimSets, FS_AddElement DEF CInv, IInv
  <2>3. InPool(d) = 1 /\ InPool(d)' = 0
    BY <1>1, <1>2 DEF InPool
  <2>4. Cardinality(AssignedTo(d)) + Cardinality(Holding(d)) + InPool(d) <= joined[d]
    BY DEF CInv, ClaimedOnce
  <2>5. Cardinality(AssignedTo(d)) \in Nat /\ Cardinality(Holding(d)) \in Nat /\ joined[d] \in Nat
        /\ Cardinality(AssignedTo(d)') = Cardinality(AssignedTo(d)) /\ joined'[d] = joined[d]
    BY <1>1, <1>2, <1>3, ClaimSets DEF CInv, IInv
  <2>6. Cardinality(AssignedTo(d)') + Cardinality(Holding(d)') + InPool(d)' <= joined'[d]
    BY <2>2, <2>3, <2>4, <2>5
  <2> QED BY <2>6, <1>3 DEF ClaimedOnce
<1>4. CASE e # d
  <2>1. Holding(e)' \subseteq Holding(e)
    BY <1>1, <1>4 DEF Holding
  <2>2. pool'[e] = pool[e] /\ joined'[e] = joined[e]
    BY <1>1, <1>2, <1>4
  <2> QED BY <1>2, <2>1, <2>2, ClaimKept
<1> QED BY <1>3, <1>4

LEMMA PublishOnce ==
    ASSUME CInv, TypeOK', NEW w \in Matchers, PublishAssigned(w), NEW e \in Drivers
    PROVE  ClaimedOnce(e)'
<1> PICK d : d = match[w].driver
  OBVIOUS
<1> PICK m : m = [ride |-> match[w].ride, driver |-> match[w].driver]
  OBVIOUS
<1> PICK n : n = Len(log["driver.assigned"])
  OBVIOUS
<1>1. /\ match[w].pc = "publish" /\ Returns(w) /\ log' = Published(log, "driver.assigned", m)
      /\ UNCHANGED <<pool, joined>>
  BY DEF PublishAssigned
<1>2. Carries("driver.assigned", m) /\ m.driver = d /\ d \in Drivers
  BY <1>1 DEF CInv, IInv, MatchesOK, MatchOK, Carries, AssignedEvent
<1>3. match'[w] = NoMatch /\ \A v \in Matchers \ {w} : match'[v] = match[v]
  BY <1>1, ReturnsFacts DEF CInv, IInv, MatchesOK
<1>4. /\ n \in Nat /\ Len(log'["driver.assigned"]) = n + 1 /\ log'["driver.assigned"][n + 1] = m
      /\ \A i \in 1 .. n : log'["driver.assigned"][i] = log["driver.assigned"][i]
  BY <1>1, <1>2, TopicFacts, PublishedGrew DEF CInv, IInv, LogGrew
<1>5. CASE e = d
  <2>1. w \in Holding(d) /\ Holding(d)' = Holding(d) \ {w}
    BY <1>1, <1>3, NoMatchType DEF Holding
  <2>2. Cardinality(Holding(d)') = Cardinality(Holding(d)) - 1
    BY <1>2, <2>1, ClaimSets, FS_RemoveElement DEF CInv, IInv
  <2>3. AssignedTo(d)' = AssignedTo(d) \cup {n + 1} /\ n + 1 \notin AssignedTo(d)
    BY <1>2, <1>4 DEF AssignedTo
  <2>4. Cardinality(AssignedTo(d)') = Cardinality(AssignedTo(d)) + 1
    BY <1>2, <2>3, ClaimSets, FS_AddElement DEF CInv, IInv
  <2>5. Cardinality(AssignedTo(d)) + Cardinality(Holding(d)) + InPool(d) <= joined[d]
    BY <1>2 DEF CInv, ClaimedOnce
  <2>6. Cardinality(AssignedTo(d)) \in Nat /\ Cardinality(Holding(d)) \in Nat /\ joined[d] \in Nat
        /\ InPool(d) \in Nat /\ InPool(d)' = InPool(d) /\ joined'[d] = joined[d]
    BY <1>1, <1>2, ClaimSets DEF CInv, IInv, InPool
  <2>7. Cardinality(AssignedTo(d)') + Cardinality(Holding(d)') + InPool(d)' <= joined'[d]
    BY <2>2, <2>4, <2>5, <2>6
  <2> QED BY <2>7, <1>5 DEF ClaimedOnce
<1>6. CASE e # d
  <2>1. Holding(e)' \subseteq Holding(e)
    BY <1>3, NoMatchType, HoldingShrinks
  <2>2. AssignedTo(e)' = AssignedTo(e)
    BY <1>2, <1>4, <1>6 DEF AssignedTo
  <2> QED BY <1>1, <2>1, <2>2, ClaimKept
<1> QED BY <1>5, <1>6

LEMMA GeoaddOnce ==
    ASSUME CInv, TypeOK', NEW d \in Drivers, NEW p \in Places, Geoadd(d, p), NEW e \in Drivers
    PROVE  ClaimedOnce(e)'
<1>1. /\ joined'[d] = joined[d] + (IF pool[d] = NoPlace THEN 1 ELSE 0)
      /\ \A x \in Drivers \ {d} : pool'[x] = pool[x] /\ joined'[x] = joined[x]
      /\ UNCHANGED <<match, log>>
  BY GeoaddFacts DEF CInv, IInv, Geoadd
<1>2. AssignedTo(e)' = AssignedTo(e) /\ Holding(e)' = Holding(e)
  BY <1>1 DEF AssignedTo, Holding
<1>3. CASE e = d
  <2>1. InPool(d)' <= 1 /\ InPool(d)' \in Nat
    BY DEF InPool
  <2>2. joined'[d] = joined[d] + 1 - InPool(d) /\ InPool(d) \in {0, 1}
    <3>1. joined[d] \in Nat
      BY DEF CInv, IInv, TypeOK
    <3> QED BY <1>1, <3>1 DEF InPool
  <2>3. Cardinality(AssignedTo(d)) + Cardinality(Holding(d)) + InPool(d) <= joined[d]
    BY DEF CInv, ClaimedOnce
  <2>4. Cardinality(AssignedTo(d)) \in Nat /\ Cardinality(Holding(d)) \in Nat /\ joined[d] \in Nat
        /\ Cardinality(AssignedTo(d)') = Cardinality(AssignedTo(d))
        /\ Cardinality(Holding(d)') = Cardinality(Holding(d))
    BY <1>2, <1>3, ClaimSets DEF CInv, IInv
  <2>5. Cardinality(AssignedTo(d)') + Cardinality(Holding(d)') + InPool(d)' <= joined'[d]
    BY <2>1, <2>2, <2>3, <2>4
  <2> QED BY <2>5, <1>3 DEF ClaimedOnce
<1>4. CASE e # d
  BY <1>1, <1>2, <1>4, ClaimKept
<1> QED BY <1>3, <1>4

\* CInv is inductive: a claim moves a driver from the pool to an instance, a
\* publish from the instance to the log, and only GEOADD brings one in.
THEOREM StepClaims == CInv /\ [Next]_vars => CInv'
<1> SUFFICES ASSUME CInv, [Next]_vars, NEW e \in Drivers PROVE ClaimedOnce(e)'
  BY StepInv DEF CInv
<1>1. IInv' /\ TypeOK'
  BY StepInv DEF CInv, IInv
<1>2. ASSUME NEW w \in Matchers, NEW t \in MatchingTopics, Receive(w, t) PROVE ClaimedOnce(e)'
  <2>1. /\ UNCHANGED <<pool, joined, log>> /\ match'[w].pc # "publish"
        /\ \A v \in Matchers \ {w} : match'[v] = match[v]
    BY <1>2 DEF Receive, CInv, IInv, TypeOK
  <2> QED BY <1>1, <2>1, SameAssigned, HoldingShrinks, ClaimKept
<1>3. ASSUME NEW w \in Matchers, Claim(w) PROVE ClaimedOnce(e)'
  BY <1>1, <1>3, ClaimOnce
<1>4. ASSUME NEW w \in Matchers, PublishAssigned(w) PROVE ClaimedOnce(e)'
  BY <1>1, <1>4, PublishOnce
<1>5. ASSUME NEW w \in Matchers, NobodyInRange(w) \/ CallFails(w) PROVE ClaimedOnce(e)'
  <2>1. match[w].pc # "idle" /\ Returns(w) /\ UNCHANGED <<joined, log>>
    BY <1>5 DEF NobodyInRange, CallFails
  <2>2. match'[w].pc # "publish" /\ \A v \in Matchers \ {w} : match'[v] = match[v]
    BY <2>1, ReturnsFacts, NoMatchType DEF CInv, IInv, MatchesOK
  <2>3. pool'[e] = pool[e] \/ pool'[e] = NoPlace
    BY <1>5 DEF NobodyInRange, CallFails, Removed, CInv, IInv, TypeOK
  <2> QED BY <1>1, <2>1, <2>2, <2>3, SameAssigned, HoldingShrinks, ClaimKept
<1>6. ASSUME NEW w \in Matchers, Crash(w) PROVE ClaimedOnce(e)'
  <2>1. /\ UNCHANGED <<pool, joined, log>> /\ match'[w].pc # "publish"
        /\ \A v \in Matchers \ {w} : match'[v] = match[v]
    BY <1>6, NoMatchType DEF Crash, CInv, IInv, TypeOK
  <2> QED BY <1>1, <2>1, SameAssigned, HoldingShrinks, ClaimKept
<1>7. ASSUME UNCHANGED <<pool, joined, match>>, log'["driver.assigned"] = log["driver.assigned"] PROVE ClaimedOnce(e)'
  <2>1. Holding(e)' = Holding(e)
    BY <1>7 DEF Holding
  <2> QED BY <1>1, <1>7, <2>1, SameAssigned, ClaimKept
<1>8. ASSUME NEW w \in Matchers, NEW t \in MatchingTopics, Rebalance(w, t) PROVE ClaimedOnce(e)'
  BY <1>7, <1>8 DEF Rebalance
<1>9. CASE Environment
  <2>l. LogOK(log)
    BY DEF CInv, IInv, TypeOK
  <2>1. ASSUME NEW m \in RequestEvent, RideRequested(m) PROVE ClaimedOnce(e)'
    <3>1. log'["driver.assigned"] = log["driver.assigned"]
      BY <2>l, <2>1, PublishedTopics DEF RideRequested, Topics
    <3> QED BY <1>7, <2>1, <3>1 DEF RideRequested
  <2>2. ASSUME NEW m \in DeclinedEvent, DriverDeclined(m) PROVE ClaimedOnce(e)'
    <3>1. log'["driver.assigned"] = log["driver.assigned"]
      BY <2>l, <2>2, PublishedTopics DEF DriverDeclined, Topics
    <3> QED BY <1>7, <2>2, <3>1 DEF DriverDeclined
  <2>3. ASSUME NEW d \in Drivers, Zrem(d) PROVE ClaimedOnce(e)'
    <3>1. /\ UNCHANGED <<joined, match, log>>
          /\ pool'[e] = pool[e] \/ pool'[e] = NoPlace
      BY <2>3 DEF Zrem, CInv, IInv, TypeOK
    <3>2. Holding(e)' = Holding(e)
      BY <3>1 DEF Holding
    <3> QED BY <1>1, <3>1, <3>2, SameAssigned, ClaimKept
  <2>4. ASSUME NEW d \in Drivers, NEW p \in Places, Geoadd(d, p) PROVE ClaimedOnce(e)'
    BY <1>1, <2>4, GeoaddOnce
  <2> QED BY <1>9, <2>1, <2>2, <2>3, <2>4 DEF Environment
<1>10. CASE UNCHANGED vars
  BY <1>7, <1>10 DEF vars
<1> QED BY <1>2, <1>3, <1>4, <1>5, <1>6, <1>8, <1>9, <1>10 DEF Next, MatcherStep, Trouble

\* NoDoubleClaim: "two matching instances can never claim the same driver", by
\* any number of instances, redeliveries, crashes and lost topics.
THEOREM NobodyClaimedTwice == Spec => []NoDoubleClaim
<1>1. Init => CInv
  <2> SUFFICES ASSUME Init, NEW d \in Drivers PROVE ClaimedOnce(d)
    BY InitInv DEF CInv
  <2>1. AssignedTo(d) = {} /\ Holding(d) = {} /\ InPool(d) = 0 /\ joined[d] = 0
    BY NoMatchType DEF Init, AssignedTo, Holding, InPool, EmptyLog, Topics
  <2>2. Cardinality({}) = 0
    BY FS_EmptySet
  <2> QED BY <2>1, <2>2 DEF ClaimedOnce
<1>2. CInv /\ [Next]_vars => CInv'
  BY StepClaims
<1>3. CInv => NoDoubleClaim
  BY DEF CInv, NoDoubleClaim, ClaimedOnce, InPool
<1> QED BY <1>1, <1>2, <1>3, PTL DEF Spec

-----------------------------------------------------------------------------
(* Deliveries that may still give a ride a driver.                         *)
(*                                                                         *)
(* A request in a topic is worth one driver each time it is delivered: it  *)
(* is pending until the offset passes it, and a fault that takes the       *)
(* offset back makes it pending again.  An instance that lost its topic    *)
(* is worth one more; but then its event was pending when it lost it.      *)

Asking(t, r) == {i \in 1 .. Len(log[t]) : log[t][i].ride = r}
Pending(t, r) == {i \in Asking(t, r) : i > pos[t]}
Stale(r) == {w \in Matchers : match[w].pc # "idle" /\ match[w].ride = r /\ ~Current(w)}

Open(r) ==
    Cardinality(Stale(r)) + Cardinality(Pending("ride.requested", r)) + Cardinality(Pending("driver.declined", r))

Delivered(r) == Cardinality(AssignedFor(r)) + Open(r) <= RequestsFor(r) * (1 + faults)

DInv == IInv /\ \A r \in Rides : Delivered(r)

LEMMA DeliverySets ==
    ASSUME TypeOK, NEW r
    PROVE  /\ IsFiniteSet(AssignedFor(r)) /\ Cardinality(AssignedFor(r)) \in Nat
           /\ IsFiniteSet(Stale(r)) /\ Cardinality(Stale(r)) \in Nat
           /\ \A t \in MatchingTopics :
                /\ IsFiniteSet(Asking(t, r)) /\ Cardinality(Asking(t, r)) \in Nat
                /\ IsFiniteSet(Pending(t, r)) /\ Cardinality(Pending(t, r)) \in Nat
                /\ Cardinality(Pending(t, r)) <= Cardinality(Asking(t, r))
           /\ Open(r) \in Nat /\ RequestsFor(r) \in Nat /\ faults \in Nat
<1>1. IsFiniteSet(AssignedFor(r)) /\ Cardinality(AssignedFor(r)) \in Nat
  <2>1. Len(log["driver.assigned"]) \in Nat /\ AssignedFor(r) \subseteq 1 .. Len(log["driver.assigned"])
    BY TopicFacts DEF AssignedFor
  <2> QED BY <2>1, PartFinite
<1>2. IsFiniteSet(Stale(r)) /\ Cardinality(Stale(r)) \in Nat
  <2>1. Stale(r) \subseteq Matchers /\ IsFiniteSet(Matchers)
    BY MatchingAssumption DEF Stale
  <2> QED BY <2>1, FS_Subset, FS_CardinalityType
<1>3. ASSUME NEW t \in MatchingTopics
      PROVE  /\ IsFiniteSet(Asking(t, r)) /\ Cardinality(Asking(t, r)) \in Nat
             /\ IsFiniteSet(Pending(t, r)) /\ Cardinality(Pending(t, r)) \in Nat
             /\ Cardinality(Pending(t, r)) <= Cardinality(Asking(t, r))
  <2>1. Len(log[t]) \in Nat /\ Asking(t, r) \subseteq 1 .. Len(log[t])
    BY TopicFacts DEF Asking
  <2>2. IsFiniteSet(Asking(t, r)) /\ Cardinality(Asking(t, r)) \in Nat
    BY <2>1, PartFinite
  <2>3. Pending(t, r) \subseteq Asking(t, r)
    BY DEF Pending
  <2> QED BY <2>2, <2>3, FS_Subset, FS_CardinalityType
<1>4. "ride.requested" \in MatchingTopics /\ "driver.declined" \in MatchingTopics
  BY TopicFacts
<1>5. Open(r) \in Nat
  BY <1>2, <1>3, <1>4 DEF Open
<1>6. RequestsFor(r) \in Nat
  <2>1. RequestsFor(r) = Cardinality(Asking("ride.requested", r)) + Cardinality(Asking("driver.declined", r))
    BY DEF RequestsFor, Asking
  <2> QED BY <2>1, <1>3, <1>4
<1> QED BY <1>1, <1>2, <1>3, <1>5, <1>6 DEF TypeOK

LEMMA DeliverySetsNext ==
    ASSUME TypeOK', NEW r
    PROVE  /\ Cardinality(AssignedFor(r)') \in Nat
           /\ Cardinality(Stale(r)') \in Nat
           /\ \A t \in MatchingTopics :
                /\ Cardinality(Pending(t, r)') \in Nat
                /\ Cardinality(Pending(t, r)') <= Cardinality(Asking(t, r)')
           /\ Open(r)' \in Nat /\ RequestsFor(r)' \in Nat
<1>1. \A t \in Topics : Len(log'[t]) \in Nat
  <2>1. ASSUME NEW t \in Topics PROVE Len(log'[t]) \in Nat
    <3>1. PICK S : log'[t] \in Seq(S)
      BY DEF TypeOK, LogOK, Topics
    <3> QED BY <3>1
  <2> QED BY <2>1
<1>2. "driver.assigned" \in Topics /\ MatchingTopics \subseteq Topics
      /\ "ride.requested" \in MatchingTopics /\ "driver.declined" \in MatchingTopics
  BY DEF Topics, MatchingTopics
<1>3. Cardinality(AssignedFor(r)') \in Nat
  <2>1. AssignedFor(r)' \subseteq 1 .. Len(log'["driver.assigned"])
    BY DEF AssignedFor
  <2> QED BY <1>1, <1>2, <2>1, PartFinite
<1>4. Cardinality(Stale(r)') \in Nat
  <2>1. Stale(r)' \subseteq Matchers /\ IsFiniteSet(Matchers)
    BY MatchingAssumption DEF Stale
  <2> QED BY <2>1, FS_Subset, FS_CardinalityType
<1>5. ASSUME NEW t \in MatchingTopics
      PROVE  /\ Cardinality(Asking(t, r)') \in Nat /\ Cardinality(Pending(t, r)') \in Nat
             /\ Cardinality(Pending(t, r)') <= Cardinality(Asking(t, r)')
  <2>1. Len(log'[t]) \in Nat /\ Asking(t, r)' \subseteq 1 .. Len(log'[t])
    BY <1>1, <1>2 DEF Asking
  <2>2. IsFiniteSet(Asking(t, r)') /\ Cardinality(Asking(t, r)') \in Nat
    BY <2>1, PartFinite
  <2>3. Pending(t, r)' \subseteq Asking(t, r)'
    BY DEF Pending
  <2> QED BY <2>2, <2>3, FS_Subset, FS_CardinalityType
<1>6. Open(r)' \in Nat
  BY <1>2, <1>4, <1>5 DEF Open
<1>7. RequestsFor(r)' \in Nat
  <2>1. RequestsFor(r)' = Cardinality(Asking("ride.requested", r)') + Cardinality(Asking("driver.declined", r)')
    BY DEF RequestsFor, Asking
  <2> QED BY <2>1, <1>2, <1>5
<1> QED BY <1>3, <1>4, <1>5, <1>6, <1>7

LEMMA Worth ==
    ASSUME NEW n \in Nat, NEW k \in Nat, NEW f \in Nat
    PROVE  /\ n * (1 + f) \in Nat
           /\ n * (1 + (f + 1)) = n * (1 + f) + n
           /\ (n + k) * (1 + f) = n * (1 + f) + k * (1 + f)
           /\ k <= k * (1 + f)
  <1>1. k * (1 + f) = k + k * f /\ k * f \in Nat
    OBVIOUS
  <1>2. n * (1 + f) \in Nat /\ n * (1 + (f + 1)) = n * (1 + f) + n
    OBVIOUS
  <1>3. (n + k) * (1 + f) = n * (1 + f) + k * (1 + f)
    OBVIOUS
  <1> QED BY <1>1, <1>2, <1>3

\* A step that opens no delivery of ride r, or closes one for each driver it
\* assigns, or asks for r once more.
LEMMA DeliveredKept ==
    ASSUME DInv, TypeOK', NEW r \in Rides, faults' = faults \/ faults' = faults + 1,
           NEW k \in Nat, RequestsFor(r)' = RequestsFor(r) + k,
           Cardinality(AssignedFor(r)') + Open(r)' <= Cardinality(AssignedFor(r)) + Open(r) + k
    PROVE  Delivered(r)'
<1> PICK n : n = RequestsFor(r)
  OBVIOUS
<1> PICK f : f = faults
  OBVIOUS
<1>1. n \in Nat /\ f \in Nat /\ Cardinality(AssignedFor(r)) + Open(r) \in Nat
      /\ Cardinality(AssignedFor(r)') + Open(r)' \in Nat
  BY DeliverySets, DeliverySetsNext DEF DInv, IInv
<1>2. Cardinality(AssignedFor(r)) + Open(r) <= n * (1 + f)
  BY DEF DInv, Delivered
<1>3. Cardinality(AssignedFor(r)') + Open(r)' <= n * (1 + f) + k
  BY <1>1, <1>2, Worth
<1>4. n * (1 + f) + k <= (n + k) * (1 + f)
  BY <1>1, Worth
<1>5. (n + k) * (1 + f) <= (n + k) * (1 + faults')
  <2>1. (n + k) \in Nat /\ (n + k) * (1 + f) \in Nat /\ (n + k) * (1 + (f + 1)) = (n + k) * (1 + f) + (n + k)
    BY <1>1, Worth
  <2>2. CASE faults' = f
    BY <2>1, <2>2
  <2>3. CASE faults' = f + 1
    BY <2>1, <2>3
  <2> QED BY <2>2, <2>3
<1>6. n * (1 + f) \in Nat /\ (n + k) * (1 + f) \in Nat /\ (n + k) * (1 + faults') \in Nat
  <2>1. n + k \in Nat /\ faults' \in Nat
    BY <1>1 DEF TypeOK
  <2> QED BY <1>1, <2>1, Worth
<1>7. Cardinality(AssignedFor(r)') + Open(r)' <= (n + k) * (1 + faults')
  BY <1>1, <1>3, <1>4, <1>5, <1>6
<1>8. RequestsFor(r)' = n + k
  OBVIOUS
<1> QED BY <1>7, <1>8 DEF Delivered

\* A fault that takes offsets back: all requests may be pending again.
LEMMA DeliveredAgain ==
    ASSUME DInv, TypeOK', log' = log, faults' = faults + 1, NEW r \in Rides,
           \/ Cardinality(Stale(r)') <= Cardinality(Stale(r))
           \/ /\ Cardinality(Stale(r)') <= Cardinality(Stale(r)) + 1
              /\ \E t \in MatchingTopics : Pending(t, r) # {}
    PROVE  Delivered(r)'
<1> PICK n : n = RequestsFor(r)
  OBVIOUS
<1> PICK f : f = faults
  OBVIOUS
<1>1. /\ AssignedFor(r)' = AssignedFor(r) /\ RequestsFor(r)' = n
      /\ \A t \in MatchingTopics : Asking(t, r)' = Asking(t, r)
  BY DEF AssignedFor, RequestsFor, Asking
<1>2. "ride.requested" \in MatchingTopics /\ "driver.declined" \in MatchingTopics
      /\ MatchingTopics = {"ride.requested", "driver.declined"}
  BY DEF MatchingTopics
<1>3. n = Cardinality(Asking("ride.requested", r)) + Cardinality(Asking("driver.declined", r))
  BY DEF RequestsFor, Asking
<1>4. Open(r)' <= Cardinality(Stale(r)') + n
  <2>1. /\ Cardinality(Pending("ride.requested", r)') <= Cardinality(Asking("ride.requested", r))
        /\ Cardinality(Pending("driver.declined", r)') <= Cardinality(Asking("driver.declined", r))
        /\ Cardinality(Pending("ride.requested", r)') \in Nat /\ Cardinality(Pending("driver.declined", r)') \in Nat
        /\ Cardinality(Stale(r)') \in Nat
    BY <1>1, <1>2, DeliverySetsNext
  <2>2. Cardinality(Asking("ride.requested", r)) \in Nat /\ Cardinality(Asking("driver.declined", r)) \in Nat
    BY <1>2, DeliverySets DEF DInv, IInv
  <2>3. Open(r)' = Cardinality(Stale(r)') + Cardinality(Pending("ride.requested", r)') + Cardinality(Pending("driver.declined", r)')
    BY DEF Open
  <2> QED BY <1>3, <2>1, <2>2, <2>3
<1>5. Cardinality(Stale(r)') <= Open(r)
  <2>1. /\ Cardinality(Stale(r)) \in Nat /\ Cardinality(Stale(r)') \in Nat
        /\ Cardinality(Pending("ride.requested", r)) \in Nat /\ Cardinality(Pending("driver.declined", r)) \in Nat
    BY <1>2, DeliverySets, DeliverySetsNext DEF DInv, IInv
  <2>2. \/ Cardinality(Stale(r)') <= Cardinality(Stale(r))
        \/ /\ Cardinality(Stale(r)') <= Cardinality(Stale(r)) + 1
           /\ Cardinality(Pending("ride.requested", r)) # 0 \/ Cardinality(Pending("driver.declined", r)) # 0
    <3>1. ASSUME NEW t \in MatchingTopics, Pending(t, r) # {} PROVE Cardinality(Pending(t, r)) # 0
      BY <3>1, DeliverySets, FS_EmptySet DEF DInv, IInv
    <3> QED BY <1>2, <3>1
  <2> PICK s : s = Cardinality(Stale(r))
    OBVIOUS
  <2> PICK s1 : s1 = Cardinality(Stale(r)')
    OBVIOUS
  <2> PICK p1 : p1 = Cardinality(Pending("ride.requested", r))
    OBVIOUS
  <2> PICK p2 : p2 = Cardinality(Pending("driver.declined", r))
    OBVIOUS
  <2>3. s \in Nat /\ s1 \in Nat /\ p1 \in Nat /\ p2 \in Nat
    BY <2>1
  <2>4. s1 <= s \/ (s1 <= s + 1 /\ (p1 # 0 \/ p2 # 0))
    BY <2>2
  <2>5. s1 <= s + p1 + p2
    BY <2>3, <2>4
  <2> QED BY <2>5 DEF Open
<1>6. /\ Cardinality(AssignedFor(r)) \in Nat /\ Open(r) \in Nat /\ n \in Nat /\ f \in Nat /\ Open(r)' \in Nat
      /\ Cardinality(Stale(r)') \in Nat
  BY DeliverySets, DeliverySetsNext DEF DInv, IInv
<1>7. Cardinality(AssignedFor(r)) + Open(r) <= n * (1 + f)
  BY DEF DInv, Delivered
<1>8. n * (1 + f) \in Nat /\ n * (1 + (f + 1)) = n * (1 + f) + n
  BY <1>6, Worth
<1>9. Cardinality(AssignedFor(r)) + Open(r)' <= n * (1 + (f + 1))
  BY <1>4, <1>5, <1>6, <1>7, <1>8
<1> QED BY <1>1, <1>9 DEF Delivered

\* A handler that returns closes one delivery, of the ride it worked for.
LEMMA ReturnCloses ==
    ASSUME IInv, TypeOK', NEW w \in Matchers, match[w].pc # "idle", Returns(w), owner' = owner,
           \A u \in MatchingTopics : log'[u] = log[u], NEW r
    PROVE  /\ r = match[w].ride => Open(r)' + 1 = Open(r)
           /\ r # match[w].ride => Open(r)' = Open(r)
<1> PICK t : t = match[w].topic
  OBVIOUS
<1> PICK x : x = match[w].ride
  OBVIOUS
<1>1. /\ match'[w] = NoMatch /\ t \in MatchingTopics
      /\ \A v \in Matchers \ {w} : match'[v] = match[v]
      /\ \A u \in Topics \ {t} : pos'[u] = pos[u]
      /\ Current(w) => pos'[t] = pos[t] + 1 /\ pos[t] + 1 \in 1 .. Len(log[t]) /\ log[t][pos[t] + 1].ride = x
      /\ ~Current(w) => pos' = pos
  BY ReturnsFacts DEF IInv, MatchesOK
<1>2. /\ MatchingTopics = {"ride.requested", "driver.declined"} /\ MatchingTopics \subseteq Topics
      /\ pos[t] \in Nat /\ Len(log[t]) \in Nat
  BY <1>1, TopicFacts DEF IInv, MatchingTopics
<1>3. /\ Cardinality(Stale(r)) \in Nat /\ IsFiniteSet(Stale(r))
      /\ \A u \in MatchingTopics : IsFiniteSet(Pending(u, r)) /\ Cardinality(Pending(u, r)) \in Nat
  BY DeliverySets DEF IInv
<1>4. ASSUME NEW u \in MatchingTopics, pos'[u] = pos[u] PROVE Pending(u, r)' = Pending(u, r)
  BY <1>4 DEF Pending, Asking
<1>5. CASE Current(w)
  <2>1. Stale(r)' = Stale(r)
    BY <1>1, <1>5, NoMatchType DEF Stale, Current
  <2>2. \A u \in MatchingTopics \ {t} : Pending(u, r)' = Pending(u, r)
    BY <1>1, <1>2, <1>4
  <2>3. CASE r = x
    <3>1. pos[t] + 1 \in Pending(t, r) /\ Pending(t, r)' = Pending(t, r) \ {pos[t] + 1}
      <4>1. Asking(t, r)' = Asking(t, r) /\ pos[t] + 1 \in Asking(t, r)
        BY <1>1, <1>5, <2>3 DEF Asking
      <4>2. pos'[t] = pos[t] + 1 /\ \A i \in Asking(t, r) : i \in Nat
        BY <1>1, <1>5 DEF Asking
      <4>3. Pending(t, r) = {i \in Asking(t, r) : i > pos[t]}
            /\ Pending(t, r)' = {i \in Asking(t, r) : i > pos[t] + 1}
        BY <4>1, <4>2 DEF Pending
      <4> QED BY <1>2, <4>1, <4>2, <4>3
    <3>2. Cardinality(Pending(t, r)') = Cardinality(Pending(t, r)) - 1
      <4> PICK P : P = Pending(t, r)
        OBVIOUS
      <4> PICK Q : Q = Pending(t, r)'
        OBVIOUS
      <4> PICK i : i = pos[t] + 1
        OBVIOUS
      <4>1. IsFiniteSet(P) /\ i \in P /\ Q = P \ {i}
        BY <1>1, <1>3, <3>1
      <4>2. Cardinality(P \ {i}) = Cardinality(P) - 1
        BY <4>1, FS_RemoveElement
      <4>3. Cardinality(P \ {i}) = Cardinality(Q)
        BY <4>1
      <4> QED BY <4>2, <4>3
    <3>3. Cardinality(Stale(r)') = Cardinality(Stale(r))
          /\ \A u \in MatchingTopics \ {t} : Cardinality(Pending(u, r)') = Cardinality(Pending(u, r))
      <4>1. ASSUME NEW u \in MatchingTopics \ {t}
            PROVE  Cardinality(Pending(u, r)') = Cardinality(Pending(u, r))
        <5>1. Pending(u, r)' = Pending(u, r)
          BY <2>2
        <5> QED BY <5>1
      <4> QED BY <2>1, <4>1
    <3>4. t = "ride.requested" \/ t = "driver.declined"
      BY <1>1, <1>2
    <3>5. Open(r)' + 1 = Open(r)
      BY <1>2, <1>3, <3>2, <3>3, <3>4 DEF Open
    <3> QED BY <3>5, <2>3
  <2>4. CASE r # x
    <3>1. Pending(t, r)' = Pending(t, r)
      <4>1. Asking(t, r)' = Asking(t, r) /\ pos[t] + 1 \notin Asking(t, r)
        BY <1>1, <1>5, <2>4 DEF Asking
      <4>2. pos'[t] = pos[t] + 1 /\ \A i \in Asking(t, r) : i \in Nat
        BY <1>1, <1>5 DEF Asking
      <4> QED BY <1>2, <4>1, <4>2 DEF Pending
    <3>2. Open(r)' = Open(r)
      BY <1>2, <2>1, <2>2, <3>1 DEF Open
    <3> QED BY <3>2, <2>4
  <2> QED BY <2>3, <2>4
<1>6. CASE ~Current(w)
  <2>1. \A u \in MatchingTopics : Pending(u, r)' = Pending(u, r)
    BY <1>1, <1>2, <1>4, <1>6
  <2>2. CASE r = x
    <3>1. w \in Stale(r) /\ Stale(r)' = Stale(r) \ {w}
      BY <1>1, <1>6, <2>2, NoMatchType DEF Stale, Current
    <3>2. Cardinality(Stale(r)') = Cardinality(Stale(r)) - 1
      BY <1>3, <3>1, FS_RemoveElement
    <3>3. \A u \in MatchingTopics : Cardinality(Pending(u, r)') = Cardinality(Pending(u, r))
      BY <2>1
    <3>4. Open(r)' + 1 = Open(r)
      BY <1>2, <1>3, <3>2, <3>3 DEF Open
    <3> QED BY <3>4, <2>2
  <2>3. CASE r # x
    <3>1. Stale(r)' = Stale(r)
      BY <1>1, <2>3, NoMatchType DEF Stale, Current
    <3>2. Open(r)' = Open(r)
      BY <1>2, <2>1, <3>1 DEF Open
    <3> QED BY <3>2, <2>3
  <2> QED BY <2>2, <2>3
<1> QED BY <1>5, <1>6

\* A step that changes neither what is open nor what is asked for.
LEMMA DeliveredStays ==
    ASSUME DInv, TypeOK', faults' = faults \/ faults' = faults + 1, NEW r \in Rides,
           log'["driver.assigned"] = log["driver.assigned"],
           \A u \in MatchingTopics : log'[u] = log[u] /\ pos'[u] = pos[u],
           Stale(r)' = Stale(r)
    PROVE  Delivered(r)'
<1>1. \A u \in MatchingTopics : Asking(u, r)' = Asking(u, r) /\ Pending(u, r)' = Pending(u, r)
  BY DEF Asking, Pending
<1>2. "ride.requested" \in MatchingTopics /\ "driver.declined" \in MatchingTopics
  BY DEF MatchingTopics
<1>3. RequestsFor(r)' = RequestsFor(r)
  <2>1. RequestsFor(r) = Cardinality(Asking("ride.requested", r)) + Cardinality(Asking("driver.declined", r))
    BY DEF RequestsFor, Asking
  <2>2. RequestsFor(r)' = Cardinality(Asking("ride.requested", r)') + Cardinality(Asking("driver.declined", r)')
    BY DEF RequestsFor, Asking
  <2> QED BY <1>1, <1>2, <2>1, <2>2
<1>4. AssignedFor(r)' = AssignedFor(r) /\ Open(r)' = Open(r)
  BY <1>1, <1>2, SameAssigned DEF Open
<1>5. RequestsFor(r) \in Nat /\ Cardinality(AssignedFor(r)) \in Nat /\ Open(r) \in Nat
  BY DeliverySets DEF DInv, IInv
<1>6. RequestsFor(r)' = RequestsFor(r) + 0 /\ 0 \in Nat
      /\ Cardinality(AssignedFor(r)') + Open(r)' <= Cardinality(AssignedFor(r)) + Open(r) + 0
  BY <1>3, <1>4, <1>5
<1> QED BY <1>6, DeliveredKept

LEMMA ReturnDelivered ==
    ASSUME DInv, TypeOK', NEW w \in Matchers, NobodyInRange(w) \/ CallFails(w), NEW r \in Rides
    PROVE  Delivered(r)'
<1>1. /\ match[w].pc # "idle" /\ Returns(w) /\ UNCHANGED <<owner, log>>
      /\ faults' = faults \/ faults' = faults + 1
  BY DEF NobodyInRange, CallFails, Fault
<1>2. AssignedFor(r)' = AssignedFor(r) /\ RequestsFor(r)' = RequestsFor(r)
  BY <1>1 DEF AssignedFor, RequestsFor
<1>3. Open(r)' + 1 = Open(r) \/ Open(r)' = Open(r)
  BY <1>1, ReturnCloses DEF DInv
<1>4. /\ RequestsFor(r) \in Nat /\ Cardinality(AssignedFor(r)) \in Nat /\ Open(r) \in Nat
      /\ Open(r)' \in Nat
  BY DeliverySets, DeliverySetsNext DEF DInv, IInv
<1>5. RequestsFor(r)' = RequestsFor(r) + 0 /\ 0 \in Nat
      /\ Cardinality(AssignedFor(r)') + Open(r)' <= Cardinality(AssignedFor(r)) + Open(r) + 0
  BY <1>2, <1>3, <1>4
<1> QED BY <1>1, <1>5, DeliveredKept

LEMMA PublishDelivered ==
    ASSUME DInv, TypeOK', NEW w \in Matchers, PublishAssigned(w), NEW r \in Rides
    PROVE  Delivered(r)'
<1> PICK x : x = match[w].ride
  OBVIOUS
<1> PICK m : m = [ride |-> match[w].ride, driver |-> match[w].driver]
  OBVIOUS
<1> PICK n : n = Len(log["driver.assigned"])
  OBVIOUS
<1>1. /\ match[w].pc = "publish" /\ Returns(w) /\ log' = Published(log, "driver.assigned", m)
      /\ UNCHANGED <<owner, faults>>
  BY DEF PublishAssigned
<1>2. Carries("driver.assigned", m) /\ m.ride = x
  BY <1>1 DEF DInv, IInv, MatchesOK, MatchOK, Carries, AssignedEvent
<1>3. /\ n \in Nat /\ Len(log'["driver.assigned"]) = n + 1 /\ log'["driver.assigned"][n + 1] = m
      /\ \A i \in 1 .. n : log'["driver.assigned"][i] = log["driver.assigned"][i]
      /\ \A u \in MatchingTopics : log'[u] = log[u]
  BY <1>1, <1>2, TopicFacts, PublishedGrew DEF DInv, IInv, LogGrew
<1>4. RequestsFor(r)' = RequestsFor(r)
  <2>1. "ride.requested" \in MatchingTopics /\ "driver.declined" \in MatchingTopics
    BY DEF MatchingTopics
  <2> QED BY <1>3, <2>1 DEF RequestsFor
<1>5. Cardinality(AssignedFor(r)') + Open(r)' <= Cardinality(AssignedFor(r)) + Open(r)
  <2>1. /\ Cardinality(AssignedFor(r)) \in Nat /\ IsFiniteSet(AssignedFor(r)) /\ Open(r) \in Nat
        /\ Open(r)' \in Nat
    BY DeliverySets, DeliverySetsNext DEF DInv, IInv
  <2>2. CASE r = x
    <3>1. AssignedFor(r)' = AssignedFor(r) \cup {n + 1} /\ n + 1 \notin AssignedFor(r)
      BY <1>2, <1>3, <2>2 DEF AssignedFor
    <3>2. Cardinality(AssignedFor(r)') = Cardinality(AssignedFor(r)) + 1
      BY <2>1, <3>1, FS_AddElement
    <3>3. Open(r)' + 1 = Open(r)
      BY <1>1, <1>3, <2>2, ReturnCloses DEF DInv
    <3> QED BY <2>1, <3>2, <3>3
  <2>3. CASE r # x
    <3>1. AssignedFor(r)' = AssignedFor(r)
      BY <1>2, <1>3, <2>3 DEF AssignedFor
    <3>2. Open(r)' = Open(r)
      BY <1>1, <1>3, <2>3, ReturnCloses DEF DInv
    <3> QED BY <2>1, <3>1, <3>2
  <2> QED BY <2>2, <2>3
<1>6. RequestsFor(r) \in Nat /\ RequestsFor(r)' = RequestsFor(r) + 0 /\ 0 \in Nat
      /\ Cardinality(AssignedFor(r)') + Open(r)' <= Cardinality(AssignedFor(r)) + Open(r) + 0
  <2>1. RequestsFor(r) \in Nat /\ Cardinality(AssignedFor(r)) \in Nat /\ Open(r) \in Nat
    BY DeliverySets DEF DInv, IInv
  <2> QED BY <1>4, <1>5, <2>1
<1> QED BY <1>1, <1>6, DeliveredKept

\* A request for ride m.ride, or a driver's no to it, at the end of topic t.
LEMMA AskDelivered ==
    ASSUME DInv, TypeOK', NEW t \in MatchingTopics, NEW m, Carries(t, m), log' = Published(log, t, m),
           UNCHANGED <<match, owner, pos, faults>>, NEW r \in Rides
    PROVE  Delivered(r)'
<1> PICK n : n = Len(log[t])
  OBVIOUS
<1>1. /\ t \in Topics /\ n \in Nat /\ pos[t] \in Nat /\ pos[t] <= n
      /\ MatchingTopics = {"ride.requested", "driver.declined"} /\ MatchingTopics \subseteq Topics
      /\ "driver.assigned" \in Topics \ MatchingTopics
  BY TopicFacts DEF DInv, IInv, TypeOK, MatchingTopics
<1>2. /\ Len(log'[t]) = n + 1 /\ log'[t][n + 1] = m
      /\ \A i \in 1 .. n : log'[t][i] = log[t][i]
      /\ \A u \in Topics \ {t} : log'[u] = log[u]
  BY <1>1, PublishedGrew DEF DInv, IInv, LogGrew
<1>3. AssignedFor(r)' = AssignedFor(r) /\ Stale(r)' = Stale(r)
  BY <1>1, <1>2, SameAssigned DEF Stale, Current
<1>4. \A u \in MatchingTopics \ {t} : Asking(u, r)' = Asking(u, r) /\ Pending(u, r)' = Pending(u, r)
  BY <1>1, <1>2 DEF Asking, Pending
<1>5. /\ RequestsFor(r) = Cardinality(Asking("ride.requested", r)) + Cardinality(Asking("driver.declined", r))
      /\ RequestsFor(r)' = Cardinality(Asking("ride.requested", r)') + Cardinality(Asking("driver.declined", r)')
  BY DEF RequestsFor, Asking
<1>6. CASE m.ride = r
  <2>1. /\ Asking(t, r)' = Asking(t, r) \cup {n + 1} /\ n + 1 \notin Asking(t, r)
        /\ Pending(t, r)' = Pending(t, r) \cup {n + 1} /\ n + 1 \notin Pending(t, r)
    BY <1>1, <1>2, <1>6 DEF Asking, Pending
  <2>2. /\ Cardinality(Asking(t, r)') = Cardinality(Asking(t, r)) + 1
        /\ Cardinality(Pending(t, r)') = Cardinality(Pending(t, r)) + 1
    BY <2>1, DeliverySets, FS_AddElement DEF DInv, IInv
  <2>3. \A u \in MatchingTopics \ {t} : /\ Cardinality(Asking(u, r)') = Cardinality(Asking(u, r))
                                        /\ Cardinality(Pending(u, r)') = Cardinality(Pending(u, r))
    BY <1>4
  <2>4. \A u \in MatchingTopics : Cardinality(Asking(u, r)) \in Nat /\ Cardinality(Pending(u, r)) \in Nat
    BY DeliverySets DEF DInv, IInv
  <2>5. Cardinality(Stale(r)) \in Nat /\ Cardinality(AssignedFor(r)) \in Nat
        /\ Cardinality(Stale(r)') = Cardinality(Stale(r))
        /\ Cardinality(AssignedFor(r)') = Cardinality(AssignedFor(r))
    BY <1>3, DeliverySets DEF DInv, IInv
  <2>6. t = "ride.requested" \/ t = "driver.declined"
    BY <1>1
  <2>7. RequestsFor(r)' = RequestsFor(r) + 1
    BY <1>1, <1>5, <2>2, <2>3, <2>4, <2>6
  <2>8. Open(r)' = Open(r) + 1
    BY <1>1, <2>2, <2>3, <2>4, <2>5, <2>6 DEF Open
  <2>9. Cardinality(AssignedFor(r)') + Open(r)' <= Cardinality(AssignedFor(r)) + Open(r) + 1 /\ 1 \in Nat
    <3>1. Open(r) \in Nat
      BY DeliverySets DEF DInv, IInv
    <3> QED BY <2>5, <2>8, <3>1
  <2> QED BY <2>7, <2>9, DeliveredKept
<1>7. CASE m.ride # r
  <2>1. Asking(t, r)' = Asking(t, r) /\ Pending(t, r)' = Pending(t, r)
    BY <1>1, <1>2, <1>7 DEF Asking, Pending
  <2>2. RequestsFor(r)' = RequestsFor(r)
    BY <1>1, <1>4, <1>5, <2>1
  <2>3. Open(r)' = Open(r)
    BY <1>1, <1>3, <1>4, <2>1 DEF Open
  <2>4. RequestsFor(r) \in Nat /\ Cardinality(AssignedFor(r)) \in Nat /\ Open(r) \in Nat
    BY DeliverySets DEF DInv, IInv
  <2>5. RequestsFor(r)' = RequestsFor(r) + 0 /\ 0 \in Nat
        /\ Cardinality(AssignedFor(r)') + Open(r)' <= Cardinality(AssignedFor(r)) + Open(r) + 0
    BY <1>3, <2>2, <2>3, <2>4
  <2> QED BY <2>5, DeliveredKept
<1> QED BY <1>6, <1>7

\* A crash forgets the delivery its instance was at, and opens all of them.
LEMMA CrashDelivered ==
    ASSUME DInv, TypeOK', NEW w \in Matchers, Crash(w), NEW r \in Rides
    PROVE  Delivered(r)'
<1>1. /\ match'[w].pc = "idle" /\ \A v \in Matchers \ {w} : match'[v] = match[v]
      /\ UNCHANGED <<owner, log>> /\ faults' = faults + 1
  BY NoMatchType DEF Crash, Fault, DInv, IInv, TypeOK
<1>2. Stale(r)' \subseteq Stale(r)
  BY <1>1 DEF Stale, Current
<1>3. Cardinality(Stale(r)') <= Cardinality(Stale(r))
  BY <1>2, DeliverySets, FS_Subset DEF DInv, IInv
<1> QED BY <1>1, <1>3, DeliveredAgain

\* A rebalance makes the old owner's delivery a stale one; it was pending.
LEMMA RebalanceDelivered ==
    ASSUME DInv, TypeOK', NEW w \in Matchers, NEW t \in MatchingTopics, Rebalance(w, t), NEW r \in Rides
    PROVE  Delivered(r)'
<1> PICK o : o = owner[t]
  OBVIOUS
<1>1. /\ match[w].pc = "idle" /\ owner' = [owner EXCEPT ![t] = w]
      /\ UNCHANGED <<match, log>> /\ faults' = faults + 1
  BY DEF Rebalance, Fault
<1>2. owner \in [MatchingTopics -> Matchers] /\ \A v \in Matchers : match[v].topic \in MatchingTopics
  BY DEF DInv, IInv, TypeOK, Match
<1>3. ASSUME NEW v \in Stale(r)', v \notin Stale(r)
      PROVE  v = o /\ v \in Matchers /\ match[v].pc # "idle" /\ match[v].ride = r
             /\ match[v].topic = t /\ Current(v)
  BY <1>1, <1>2, <1>3 DEF Stale, Current
<1>4. IsFiniteSet(Stale(r)) /\ Cardinality(Stale(r)) \in Nat
  BY DeliverySets DEF DInv, IInv
<1>5. CASE Stale(r)' \subseteq Stale(r)
  <2>1. Cardinality(Stale(r)') <= Cardinality(Stale(r))
    BY <1>4, <1>5, FS_Subset
  <2> QED BY <1>1, <2>1, DeliveredAgain
<1>6. CASE ~(Stale(r)' \subseteq Stale(r))
  <2>1. PICK v \in Stale(r)' : v \notin Stale(r)
    BY <1>6
  <2>2. Cardinality(Stale(r)') <= Cardinality(Stale(r)) + 1
    <3>1. Stale(r)' \subseteq Stale(r) \cup {o}
      BY <1>3
    <3>2. IsFiniteSet(Stale(r) \cup {o}) /\ Cardinality(Stale(r) \cup {o}) <= Cardinality(Stale(r)) + 1
      <4> PICK S : S = Stale(r)
        OBVIOUS
      <4> PICK c : c = Cardinality(S)
        OBVIOUS
      <4>1. /\ IsFiniteSet(S) /\ c \in Nat
            /\ IsFiniteSet(S \cup {o})
            /\ Cardinality(S \cup {o}) = IF o \in S THEN c ELSE c + 1
        BY <1>4, FS_AddElement
      <4>2. Cardinality(S \cup {o}) <= c + 1
        BY <4>1
      <4> QED BY <4>1, <4>2
    <3>3. Cardinality(Stale(r)') <= Cardinality(Stale(r) \cup {o})
      BY <3>1, <3>2, FS_Subset
    <3>4. Cardinality(Stale(r)') \in Nat /\ Cardinality(Stale(r) \cup {o}) \in Nat
      BY <3>2, DeliverySetsNext, FS_CardinalityType
    <3> QED BY <1>4, <3>2, <3>3, <3>4
  <2>3. Pending(t, r) # {}
    <3>1. v \in Matchers /\ match[v].pc # "idle" /\ match[v].ride = r /\ match[v].topic = t /\ Current(v)
      BY <1>3, <2>1
    <3>2. HasNext(log[t], pos[t]) /\ NextMessage(log[t], pos[t]).ride = r
      BY <3>1 DEF DInv, IInv, MatchesOK, MatchOK
    <3>3. pos[t] \in Nat /\ Len(log[t]) \in Nat
      BY TopicFacts DEF DInv, IInv, TypeOK
    <3>4. pos[t] + 1 \in Pending(t, r)
      BY <3>2, <3>3 DEF HasNext, NextMessage, Pending, Asking
    <3> QED BY <3>4
  <2> QED BY <1>1, <2>2, <2>3, DeliveredAgain
<1> QED BY <1>5, <1>6

THEOREM StepDeliveries == DInv /\ [Next]_vars => DInv'
<1> SUFFICES ASSUME DInv, [Next]_vars, NEW r \in Rides PROVE Delivered(r)'
  BY StepInv DEF DInv
<1>1. IInv /\ TypeOK /\ IInv' /\ TypeOK'
  BY StepInv DEF DInv, IInv
<1>2. ASSUME UNCHANGED <<match, owner, log, pos, faults>> PROVE Delivered(r)'
  <2>1. Stale(r)' = Stale(r)
    BY <1>2 DEF Stale, Current
  <2> QED BY <1>1, <1>2, <2>1, DeliveredStays
<1>3. ASSUME NEW w \in Matchers, NEW t \in MatchingTopics, Receive(w, t) PROVE Delivered(r)'
  <2>1. /\ match[w].pc = "idle" /\ match'[w].topic = t /\ owner[t] = w
        /\ \A v \in Matchers \ {w} : match'[v] = match[v]
        /\ UNCHANGED <<owner, log, pos, faults>>
    BY <1>1, <1>3 DEF Receive, TypeOK
  <2>2. Stale(r)' = Stale(r)
    BY <2>1 DEF Stale, Current
  <2> QED BY <1>1, <2>1, <2>2, DeliveredStays
<1>4. ASSUME NEW w \in Matchers, Claim(w) PROVE Delivered(r)'
  <2>1. /\ match[w].pc # "idle" /\ match'[w].pc # "idle"
        /\ match'[w].topic = match[w].topic /\ match'[w].ride = match[w].ride
        /\ \A v \in Matchers \ {w} : match'[v] = match[v]
        /\ UNCHANGED <<owner, log, pos, faults>>
    BY <1>1, <1>4, ClaimFacts DEF Claim
  <2>2. Stale(r)' = Stale(r)
    BY <2>1 DEF Stale, Current
  <2> QED BY <1>1, <2>1, <2>2, DeliveredStays
<1>5. ASSUME NEW w \in Matchers, NobodyInRange(w) \/ CallFails(w) PROVE Delivered(r)'
  BY <1>1, <1>5, ReturnDelivered
<1>6. ASSUME NEW w \in Matchers, PublishAssigned(w) PROVE Delivered(r)'
  BY <1>1, <1>6, PublishDelivered
<1>7. ASSUME NEW w \in Matchers, Crash(w) PROVE Delivered(r)'
  BY <1>1, <1>7, CrashDelivered
<1>8. ASSUME NEW w \in Matchers, NEW t \in MatchingTopics, Rebalance(w, t) PROVE Delivered(r)'
  BY <1>1, <1>8, RebalanceDelivered
<1>9. CASE Environment
  <2>1. ASSUME NEW m \in RequestEvent, RideRequested(m) PROVE Delivered(r)'
    <3>1. Carries("ride.requested", m) /\ "ride.requested" \in MatchingTopics
      BY DEF Carries, MatchingTopics
    <3> QED BY <1>1, <2>1, <3>1, AskDelivered DEF RideRequested
  <2>2. ASSUME NEW m \in DeclinedEvent, DriverDeclined(m) PROVE Delivered(r)'
    <3>1. Carries("driver.declined", m) /\ "driver.declined" \in MatchingTopics
      BY DEF Carries, MatchingTopics
    <3> QED BY <1>1, <2>2, <3>1, AskDelivered DEF DriverDeclined
  <2>3. ASSUME NEW d \in Drivers, Zrem(d) \/ \E p \in Places : Geoadd(d, p) PROVE Delivered(r)'
    BY <1>2, <2>3 DEF Zrem, Geoadd
  <2> QED BY <1>9, <2>1, <2>2, <2>3 DEF Environment
<1>10. CASE UNCHANGED vars
  BY <1>2, <1>10 DEF vars
<1> QED BY <1>3, <1>4, <1>5, <1>6, <1>7, <1>8, <1>9, <1>10 DEF Next, MatcherStep, Trouble

\* ExtraDriversCostFaults: a ride is given one driver for each time somebody
\* asked for one, and once more for each of them only after a failure, however
\* many instances read the topics.
THEOREM ExtraDriversPaid == Spec => []ExtraDriversCostFaults
<1>1. Init => DInv
  <2> SUFFICES ASSUME Init, NEW r \in Rides PROVE Delivered(r)
    BY InitInv DEF DInv
  <2>1. /\ AssignedFor(r) = {} /\ Stale(r) = {}
        /\ \A t \in MatchingTopics : Pending(t, r) = {}
    BY NoMatchType DEF Init, AssignedFor, Stale, Pending, Asking, EmptyLog, Topics, MatchingTopics
  <2>2. Cardinality({}) = 0
    BY FS_EmptySet
  <2>3. Cardinality(AssignedFor(r)) = 0 /\ Open(r) = 0
    BY <2>1, <2>2 DEF Open, MatchingTopics
  <2>4. RequestsFor(r) * (1 + faults) \in Nat
    BY InitInv, DeliverySets, Worth DEF IInv
  <2> QED BY <2>3, <2>4 DEF Delivered
<1>2. DInv /\ [Next]_vars => DInv'
  BY StepDeliveries
<1>3. DInv => ExtraDriversCostFaults
  <2> SUFFICES ASSUME DInv, NEW r \in Rides
               PROVE  Cardinality(AssignedFor(r)) <= RequestsFor(r) * (1 + faults)
    BY DEF ExtraDriversCostFaults
  <2>1. Cardinality(AssignedFor(r)) \in Nat /\ Open(r) \in Nat /\ RequestsFor(r) * (1 + faults) \in Nat
    BY DeliverySets, Worth DEF DInv, IInv
  <2>2. Cardinality(AssignedFor(r)) + Open(r) <= RequestsFor(r) * (1 + faults)
    BY DEF DInv, Delivered
  <2> QED BY <2>1, <2>2
<1> QED BY <1>1, <1>2, <1>3, PTL DEF Spec
=============================================================================
