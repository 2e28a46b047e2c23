------------------------- MODULE NotificationProofs -------------------------
(***************************************************************************)
(* Proofs about NotificationService, for any instances, clients, topics    *)
(* and bounds.                                                             *)
(*                                                                         *)
(* What a client has and what Redis is bringing to its instance belong     *)
(* together: a push that leaves the one reaches the other.  Invariants are *)
(* therefore about sockets and queues ("rooms"), and are first shown of    *)
(* one emit, then of the two emits of a handler.                           *)
(***************************************************************************)
EXTENDS NotificationService, FiniteSetTheorems, TLAPS

SocketOK(s) ==
    /\ s.pc = "open" => s.at \in Servers
    /\ s.pc # "open" => s.got = << >>

SocketsOK == \A c \in Clients : SocketOK(socket[c])

\* A client is connected to instance k.
OpenAt(s, k) == s.pc = "open" /\ s.at = k

\* p has reached a socket, or the queue to its instance.
Reached(s, q, p) == p \in Messages(s.got) \cup Messages(q)

\* What NoPushLost says of one push to a client whose instance is k.
Accounted(c, k, t, i, who) ==
    LET p == PushTo(t, i, who) IN
    \/ Reached(socket[c], bus[k], p)
    \/ i > pos[t] \/ i \in committed[t].skipped
    \/ [at |-> k, push |-> p] \in lost

\* The pushes client c has a right to.
Due(c, t, i, who) == i \in socket[c].since[t] + 1 .. Len(log[t]) /\ Addressed(c, t, i, who)

AllAccounted ==
    \A c \in Clients, k \in Servers, t \in UsedTopics, who \in Parties : \A i \in Nat :
        OpenAt(socket[c], k) /\ Due(c, t, i, who) => Accounted(c, k, t, i, who)

\* Connections that are open have an instance, and no push is unaccounted for.
Rooms == TypeOK /\ SocketsOK /\ AllAccounted

IInv == Rooms /\ GaugeCountsSockets

\* Rooms whose pushes come in order, also when those in the queues are heard.
Sorted(queue) == \A i, j \in 1 .. Len(queue) : i < j => Before(queue[i], queue[j])

Ordered(sockets, queues) ==
    /\ \A c \in Clients : Sorted(sockets[c].got)
    /\ \A n \in Servers : Sorted(queues[n])
    /\ \A c \in Clients : sockets[c].pc = "open" =>
         \A p \in Messages(sockets[c].got), q \in Messages(queues[sockets[c].at]) : Before(p, q)

\* M has all pushes that there are.
Holds(M, sockets, queues) ==
    /\ \A c \in Clients : Messages(sockets[c].got) \subseteq M
    /\ \A n \in Servers : Messages(queues[n]) \subseteq M

\* The instance that reads a topic hears of it from nobody else.
NotFromOthers == \A t \in UsedTopics : \A p \in Messages(bus[owner[t]]) : p.topic # t

\* Pushes are of events that were handled.
Handled == {p \in Push : p.index <= pos[p.topic]}

Order == Ordered(socket, bus) /\ NotFromOthers /\ Holds(Handled, socket, bus)

InOrder == moves = 0 => Order

OInv == IInv /\ InOrder

\* No client has more than b copies of p, or will have when its instance has
\* heard all that Redis brings.
Within(sockets, queues, p, b) ==
    /\ \A n \in Servers : Copies(queues[n], p) <= b
    /\ \A c \in Clients : sockets[c].pc = "open" =>
         Copies(sockets[c].got, p) + Copies(queues[sockets[c].at], p) <= b

\* An event that is still to be handled is worth one copy.
Allowed(p) == moves + (IF p.index > pos[p.topic] THEN 0 ELSE 1)

CopiesPaid == \A p \in Push : Within(socket, bus, p, Allowed(p))

CInv == IInv /\ CopiesPaid

-----------------------------------------------------------------------------
(* Queues.                                                                 *)

LEMMA AppendFacts ==
    ASSUME NEW T, NEW q \in Seq(T), NEW m \in T
    PROVE  /\ Append(q, m) \in Seq(T)
           /\ Len(q) \in Nat /\ Len(Append(q, m)) = Len(q) + 1
           /\ \A i \in 1 .. Len(q) : Append(q, m)[i] = q[i]
           /\ Append(q, m)[Len(q) + 1] = m
           /\ Messages(q) \subseteq T
           /\ Messages(Append(q, m)) = Messages(q) \cup {m}
<1>1. Len(q) \in Nat /\ Len(Append(q, m)) = Len(q) + 1 /\ Append(q, m) \in Seq(T)
  OBVIOUS
<1>2. \A i \in 1 .. Len(q) : Append(q, m)[i] = q[i]
  OBVIOUS
<1>3. Append(q, m)[Len(q) + 1] = m
  OBVIOUS
<1>4. Messages(q) \subseteq T
  BY DEF Messages
<1>5. Messages(Append(q, m)) = Messages(q) \cup {m}
  BY <1>1, <1>2, <1>3 DEF Messages
<1> QED BY <1>1, <1>2, <1>3, <1>4, <1>5

LEMMA TailFacts ==
    ASSUME NEW T, NEW q \in Seq(T), q # << >>
    PROVE  /\ Head(q) = q[1] /\ Head(q) \in T /\ Head(q) \in Messages(q)
           /\ Tail(q) \in Seq(T) /\ Len(q) \in Nat \ {0} /\ Len(Tail(q)) = Len(q) - 1
           /\ \A i \in 1 .. Len(Tail(q)) : Tail(q)[i] = q[i + 1]
           /\ Messages(q) = Messages(Tail(q)) \cup {Head(q)}
<1>1. /\ Head(q) = q[1] /\ Tail(q) \in Seq(T) /\ Len(q) \in Nat \ {0} /\ Len(Tail(q)) = Len(q) - 1
      /\ \A i \in 1 .. Len(Tail(q)) : Tail(q)[i] = q[i + 1]
  OBVIOUS
<1>2. Head(q) \in T /\ Head(q) \in Messages(q)
  BY <1>1 DEF Messages
<1>3. ASSUME NEW m \in Messages(q) PROVE m \in Messages(Tail(q)) \cup {Head(q)}
  <2>1. PICK i \in 1 .. Len(q) : m = q[i]
    BY DEF Messages
  <2>2. CASE i = 1
    BY <1>1, <2>1, <2>2
  <2>3. CASE i # 1
    <3>1. i - 1 \in 1 .. Len(Tail(q)) /\ (i - 1) + 1 = i
      BY <1>1, <2>3
    <3>2. Tail(q)[i - 1] = q[i]
      BY <1>1, <3>1
    <3> QED BY <2>1, <3>1, <3>2 DEF Messages
  <2> QED BY <2>2, <2>3
<1>4. ASSUME NEW m \in Messages(Tail(q)) PROVE m \in Messages(q)
  <2>1. PICK i \in 1 .. Len(Tail(q)) : m = Tail(q)[i]
    BY DEF Messages
  <2>2. m = q[i + 1] /\ i + 1 \in 1 .. Len(q)
    BY <1>1, <2>1
  <2> QED BY <2>2 DEF Messages
<1> QED BY <1>1, <1>2, <1>3, <1>4

LEMMA EmptyQueue ==
    ASSUME NEW p
    PROVE  /\ Messages(<< >>) = {} /\ Sorted(<< >>) /\ Copies(<< >>, p) = 0
           /\ \A T : << >> \in Seq(T)
<1>1. Len(<< >>) = 0 /\ 1 .. 0 = {}
  OBVIOUS
<1>2. Copies(<< >>, p) = Cardinality({})
  <2>1. {i \in 1 .. Len(<< >>) : << >>[i] = p} = {}
    BY <1>1
  <2> QED BY <2>1 DEF Copies
<1>3. Cardinality({}) = 0
  BY FS_EmptySet
<1> QED BY <1>1, <1>2, <1>3 DEF Messages, Sorted

LEMMA SortedAppend ==
    ASSUME NEW q \in Seq(Push), Sorted(q), NEW p \in Push, \A m \in Messages(q) : Before(m, p)
    PROVE  Sorted(Append(q, p))
<1>1. /\ Len(q) \in Nat /\ Len(Append(q, p)) = Len(q) + 1
      /\ \A i \in 1 .. Len(q) : Append(q, p)[i] = q[i]
      /\ Append(q, p)[Len(q) + 1] = p
  BY AppendFacts
<1>2. ASSUME NEW i \in 1 .. Len(q) + 1, NEW j \in 1 .. Len(q) + 1, i < j
      PROVE  Before(Append(q, p)[i], Append(q, p)[j])
  <2>1. i \in 1 .. Len(q) /\ Append(q, p)[i] = q[i] /\ q[i] \in Messages(q)
    BY <1>1, <1>2 DEF Messages
  <2>2. CASE j = Len(q) + 1
    BY <1>1, <2>1, <2>2
  <2>3. CASE j # Len(q) + 1
    <3>1. j \in 1 .. Len(q) /\ Append(q, p)[j] = q[j]
      BY <1>1, <2>3
    <3> QED BY <1>2, <2>1, <3>1 DEF Sorted
  <2> QED BY <2>2, <2>3
<1> QED BY <1>1, <1>2 DEF Sorted

LEMMA SortedTail ==
    ASSUME NEW q \in Seq(Push), q # << >>, Sorted(q)
    PROVE  Sorted(Tail(q)) /\ \A m \in Messages(Tail(q)) : Before(Head(q), m)
<1>1. /\ Head(q) = q[1] /\ Len(q) \in Nat \ {0} /\ Len(Tail(q)) = Len(q) - 1
      /\ \A i \in 1 .. Len(Tail(q)) : Tail(q)[i] = q[i + 1]
  BY TailFacts
<1>2. ASSUME NEW i \in 1 .. Len(Tail(q)), NEW j \in 1 .. Len(Tail(q)), i < j
      PROVE  Before(Tail(q)[i], Tail(q)[j])
  <2>1. i + 1 \in 1 .. Len(q) /\ j + 1 \in 1 .. Len(q) /\ i + 1 < j + 1
    BY <1>1, <1>2
  <2>2. Before(q[i + 1], q[j + 1])
    BY <2>1 DEF Sorted
  <2> QED BY <1>1, <2>2
<1>3. ASSUME NEW m \in Messages(Tail(q)) PROVE Before(Head(q), m)
  <2>1. PICK i \in 1 .. Len(Tail(q)) : m = Tail(q)[i]
    BY DEF Messages
  <2>2. i + 1 \in 1 .. Len(q) /\ 1 \in 1 .. Len(q) /\ 1 < i + 1
    BY <1>1
  <2>3. Before(q[1], q[i + 1])
    BY <2>2 DEF Sorted
  <2> QED BY <1>1, <2>1, <2>3
<1> QED BY <1>2, <1>3 DEF Sorted

\* Where p is in a queue, as a finite set of numbers.
Places(q, p) == {i \in 1 .. Len(q) : q[i] = p}

LEMMA CopiesType ==
    ASSUME NEW T, NEW q \in Seq(T), NEW p
    PROVE  /\ Copies(q, p) = Cardinality(Places(q, p)) /\ Copies(q, p) \in Nat
           /\ IsFiniteSet(Places(q, p))
<1>1. Len(q) \in Nat /\ Places(q, p) \subseteq 1 .. Len(q)
  BY DEF Places
<1>2. IsFiniteSet(1 .. Len(q))
  BY <1>1, FS_Interval
<1>3. IsFiniteSet(Places(q, p)) /\ Cardinality(Places(q, p)) \in Nat
  BY <1>1, <1>2, FS_Subset, FS_CardinalityType
<1>4. Copies(q, p) = Cardinality(Places(q, p))
  BY DEF Copies, Places
<1> QED BY <1>3, <1>4

LEMMA CopiesAppend ==
    ASSUME NEW T, NEW q \in Seq(T), NEW m \in T, NEW p
    PROVE  Copies(Append(q, m), p) = Copies(q, p) + (IF m = p THEN 1 ELSE 0)
<1> PICK n : n = Len(q)
  OBVIOUS
<1> PICK P : P = Places(q, p)
  OBVIOUS
<1>1. /\ n \in Nat /\ Len(Append(q, m)) = n + 1 /\ Append(q, m)[n + 1] = m
      /\ \A i \in 1 .. n : Append(q, m)[i] = q[i]
  BY AppendFacts
<1>2. Append(q, m) \in Seq(T)
  BY AppendFacts
<1>3. /\ IsFiniteSet(P) /\ Copies(q, p) = Cardinality(P) /\ Copies(q, p) \in Nat
      /\ Copies(Append(q, m), p) = Cardinality(Places(Append(q, m), p))
  BY <1>2, CopiesType
<1>4. CASE m = p
  <2>1. Places(Append(q, m), p) = P \cup {n + 1} /\ n + 1 \notin P
    BY <1>1, <1>4 DEF Places
  <2>2. Cardinality(P \cup {n + 1}) = Cardinality(P) + 1
    BY <1>3, <2>1, FS_AddElement
  <2> QED BY <1>3, <1>4, <2>1, <2>2
<1>5. CASE m # p
  <2>1. Places(Append(q, m), p) = P
    BY <1>1, <1>5 DEF Places
  <2> QED BY <1>3, <1>5, <2>1
<1> QED BY <1>4, <1>5

LEMMA CopiesTail ==
    ASSUME NEW T, NEW q \in Seq(T), q # << >>, NEW p
    PROVE  Copies(Tail(q), p) + (IF Head(q) = p THEN 1 ELSE 0) <= Copies(q, p)
<1> PICK P : P = Places(q, p)
  OBVIOUS
<1> PICK P2 : P2 = Places(Tail(q), p)
  OBVIOUS
<1>1. /\ Head(q) = q[1] /\ Tail(q) \in Seq(T) /\ Len(q) \in Nat \ {0} /\ Len(Tail(q)) = Len(q) - 1
      /\ \A i \in 1 .. Len(Tail(q)) : Tail(q)[i] = q[i + 1]
  BY TailFacts
<1>2. /\ IsFiniteSet(P) /\ Copies(q, p) = Cardinality(P) /\ Copies(q, p) \in Nat
      /\ IsFiniteSet(P2) /\ Copies(Tail(q), p) = Cardinality(P2) /\ Copies(Tail(q), p) \in Nat
  BY <1>1, CopiesType
<1>3. Cardinality(P2) <= Cardinality(P \ {1})
  <2> PICK f : f = [i \in P2 |-> i + 1]
    OBVIOUS
  <2>1. \A i \in P2 : i \in Nat /\ i + 1 \in P \ {1}
    BY <1>1 DEF Places
  <2>2. f \in [P2 -> P \ {1}] /\ \A i, j \in P2 : f[i] = f[j] => i = j
    BY <2>1
  <2>3. f \in Injection(P2, P \ {1})
    BY <2>2 DEF Injection, IsInjective
  <2>4. IsFiniteSet(P \ {1})
    BY <1>2, FS_RemoveElement
  <2> QED BY <2>3, <2>4, FS_Injection
<1>4. Cardinality(P \ {1}) = IF 1 \in P THEN Cardinality(P) - 1 ELSE Cardinality(P)
  BY <1>2, FS_RemoveElement
<1>5. 1 \in P <=> Head(q) = p
  BY <1>1 DEF Places
<1>6. Cardinality(P) \in Nat /\ Cardinality(P2) \in Nat
  BY <1>2
<1> QED BY <1>2, <1>3, <1>4, <1>5, <1>6

-----------------------------------------------------------------------------
(* One emit.                                                               *)

Sockets == [Clients -> Socket]
Queues == [Servers -> Seq(Push)]

\* The rooms before and after p was emitted, and before and after emitToUser for
\* one of the two people of an event.
Emits(S, Q, S2, Q2, n, p) == S2 = Delivered(S, n, p) /\ Q2 = BusAfter(Q, n, p)

Emission(S, Q, S2, Q2, n, t, i, who) ==
    IF Concerns(t, log[t][i], who)
    THEN Emits(S, Q, S2, Q2, n, PushTo(t, i, who))
    ELSE S2 = S /\ Q2 = Q

\* Whether client c hears what instance n emits to the room of p.to.
Hears(s, c, n, p) == s.pc = "open" /\ s.at = n /\ IdOf[c] = p.to

\* What an emit does to one socket s and to one queue.
SocketAfter(s, s2, heard, p) ==
    /\ s2.pc = s.pc /\ s2.at = s.at /\ s2.since = s.since
    /\ s2.got = IF heard THEN Append(s.got, p) ELSE s.got

QueueAfter(q, q2, own, p) == q2 = IF own THEN q ELSE Append(q, p)

LEMMA EmitsToSocket ==
    ASSUME NEW S \in Sockets, NEW Q \in Queues, NEW S2, NEW Q2, NEW n \in Servers, NEW p \in Push,
           Emits(S, Q, S2, Q2, n, p), NEW c \in Clients
    PROVE  SocketAfter(S[c], S2[c], Hears(S[c], c, n, p), p) /\ S[c] \in Socket /\ S2[c] \in Socket
<1>1. S2[c] = IF Hears(S[c], c, n, p) THEN [S[c] EXCEPT !.got = Append(S[c].got, p)] ELSE S[c]
  BY DEF Emits, Delivered, Hears
<1> PICK s : s = S[c]
  OBVIOUS
<1> PICK g : g = Append(s.got, p)
  OBVIOUS
<1> PICK s2 : s2 = [s EXCEPT !.got = g]
  OBVIOUS
<1>2. s \in Socket /\ s.got \in Seq(Push)
  BY DEF Sockets, Socket
<1>3. g \in Seq(Push)
  BY <1>2
<1>4. s2 \in Socket /\ s2.pc = s.pc /\ s2.at = s.at /\ s2.since = s.since /\ s2.got = g
  BY <1>2, <1>3 DEF Socket
<1> QED BY <1>1, <1>2, <1>4 DEF SocketAfter

LEMMA EmitsToQueue ==
    ASSUME NEW S \in Sockets, NEW Q \in Queues, NEW S2, NEW Q2, NEW n \in Servers, NEW p \in Push,
           Emits(S, Q, S2, Q2, n, p), NEW k \in Servers
    PROVE  QueueAfter(Q[k], Q2[k], k = n, p) /\ Q[k] \in Seq(Push) /\ Q2[k] \in Seq(Push)
<1>1. Q2[k] = IF k = n THEN Q[k] ELSE Append(Q[k], p)
  BY DEF Emits, BusAfter
<1> PICK q : q = Q[k]
  OBVIOUS
<1>2. q \in Seq(Push) /\ Append(q, p) \in Seq(Push)
  BY DEF Queues
<1> QED BY <1>1, <1>2 DEF QueueAfter

LEMMA EmitsType ==
    ASSUME NEW S \in Sockets, NEW Q \in Queues, NEW S2, NEW Q2, NEW n \in Servers, NEW p \in Push,
           Emits(S, Q, S2, Q2, n, p)
    PROVE  S2 \in Sockets /\ Q2 \in Queues
<1>1. S2 = [c \in Clients |-> S2[c]]
  BY DEF Emits, Delivered
<1>2. \A c \in Clients : S2[c] \in Socket
  BY EmitsToSocket
<1>3. Q2 = [k \in Servers |-> Q2[k]]
  BY DEF Emits, BusAfter
<1>4. \A k \in Servers : Q2[k] \in Seq(Push)
  BY EmitsToQueue
<1>5. S2 \in [Clients -> Socket]
  BY <1>1, <1>2
<1>6. Q2 \in [Servers -> Seq(Push)]
  BY <1>3, <1>4
<1> QED BY <1>5, <1>6 DEF Sockets, Queues

\* What is emitted is a push to whom it may concern.
LEMMA PushType ==
    ASSUME TypeOK, NEW t \in UsedTopics, NEW i \in 1 .. Len(log[t]), NEW who \in Parties,
           Concerns(t, log[t][i], who)
    PROVE  PushTo(t, i, who) \in Push
<1>1. log[t] \in Seq(EventSet) /\ i \in Nat
  BY DEF TypeOK
<1>2. log[t][i] \in [rider : Ids \cup {NoId}, driver : Ids \cup {NoId}, junk : BOOLEAN]
  <2>1. log[t][i] \in EventSet
    BY <1>1
  <2> QED BY <2>1, NotificationAssumption
<1>3. Party(log[t][i], who) \in Ids
  BY <1>2 DEF Concerns, Party, Parties
<1> QED BY <1>1, <1>3 DEF PushTo, Push

\* A handler emits to the rider, then to the driver.
LEMMA HandleFacts ==
    ASSUME TypeOK, NEW n \in Servers, NEW t \in UsedTopics, Handle(n, t), NEW i, i = pos[t] + 1
    PROVE  /\ i \in 1 .. Len(log[t]) /\ ~log[t][i].junk /\ owner[t] = n
           /\ \E S2, Q2 : /\ Emission(socket, bus, S2, Q2, n, t, i, "rider")
                          /\ Emission(S2, Q2, socket', bus', n, t, i, "driver")
           /\ pos' = [pos EXCEPT ![t] = i]
           /\ UNCHANGED <<log, committed, owner, gauge, lost, moves, drops>>
<1>1. pos[t] \in Nat /\ Len(log[t]) \in Nat
  BY DEF TypeOK
<1>2. i \in 1 .. Len(log[t]) /\ ~log[t][i].junk /\ owner[t] = n
  BY <1>1 DEF Handle, HasNext, NextMessage, Reads
<1>3. /\ pos' = [pos EXCEPT ![t] = i]
      /\ UNCHANGED <<log, committed, owner, gauge, lost, moves, drops>>
  BY DEF Handle, history
<1> PICK r1 : r1 = Emitted([socket |-> socket, bus |-> bus], n, t, i, "rider")
  OBVIOUS
<1> PICK r2 : r2 = Emitted(r1, n, t, i, "driver")
  OBVIOUS
<1>4. socket' = r2.socket /\ bus' = r2.bus
  BY DEF Handle
<1>5. Emission(socket, bus, r1.socket, r1.bus, n, t, i, "rider")
  BY DEF Emitted, Emission, Emits
<1>6. Emission(r1.socket, r1.bus, r2.socket, r2.bus, n, t, i, "driver")
  BY DEF Emitted, Emission, Emits
<1> QED BY <1>2, <1>3, <1>4, <1>5, <1>6

\* What any emit leaves of the rooms.
Keeps(s, s2) ==
    s2.pc = s.pc /\ s2.at = s.at /\ s2.since = s.since /\ (s.pc # "open" => s2.got = s.got)

LEMMA EmissionKeeps ==
    ASSUME TypeOK, NEW S \in Sockets, NEW Q \in Queues, NEW S2, NEW Q2, NEW n \in Servers, NEW t \in UsedTopics,
           NEW i \in 1 .. Len(log[t]), NEW who \in Parties, Emission(S, Q, S2, Q2, n, t, i, who)
    PROVE  S2 \in Sockets /\ Q2 \in Queues /\ \A c \in Clients : Keeps(S[c], S2[c])
<1>1. CASE Concerns(t, log[t][i], who)
  <2> PICK p : p = PushTo(t, i, who)
    OBVIOUS
  <2>1. p \in Push /\ Emits(S, Q, S2, Q2, n, p)
    BY <1>1, PushType DEF Emission
  <2>2. S2 \in Sockets /\ Q2 \in Queues
    BY <2>1, EmitsType
  <2>3. ASSUME NEW c \in Clients PROVE Keeps(S[c], S2[c])
    <3>1. SocketAfter(S[c], S2[c], Hears(S[c], c, n, p), p)
      BY <2>1, EmitsToSocket
    <3> QED BY <3>1 DEF SocketAfter, Hears, Keeps
  <2> QED BY <2>2, <2>3
<1>2. CASE ~Concerns(t, log[t][i], who)
  <2>1. S2 = S /\ Q2 = Q
    BY <1>2 DEF Emission
  <2> QED BY <2>1 DEF Keeps
<1> QED BY <1>1, <1>2

LEMMA EmissionReaches ==
    ASSUME TypeOK, NEW S \in Sockets, NEW Q \in Queues, NEW S2, NEW Q2, NEW n \in Servers, NEW t \in UsedTopics,
           NEW i \in 1 .. Len(log[t]), NEW who \in Parties, Emission(S, Q, S2, Q2, n, t, i, who),
           NEW c \in Clients, NEW k \in Servers, OpenAt(S[c], k)
    PROVE  /\ \A p : Reached(S[c], Q[k], p) => Reached(S2[c], Q2[k], p)
           /\ Concerns(t, log[t][i], who) /\ Party(log[t][i], who) = IdOf[c]
                => Reached(S2[c], Q2[k], PushTo(t, i, who))
<1>1. CASE Concerns(t, log[t][i], who)
  <2> PICK q : q = PushTo(t, i, who)
    OBVIOUS
  <2>1. q \in Push /\ Emits(S, Q, S2, Q2, n, q) /\ q.to = Party(log[t][i], who)
    BY <1>1, PushType DEF Emission, PushTo
  <2>2. SocketAfter(S[c], S2[c], Hears(S[c], c, n, q), q) /\ S[c] \in Socket
    BY <2>1, EmitsToSocket
  <2>3. QueueAfter(Q[k], Q2[k], k = n, q) /\ Q[k] \in Seq(Push)
    BY <2>1, EmitsToQueue
  <2> PICK g : g = S[c].got
    OBVIOUS
  <2> PICK b : b = Q[k]
    OBVIOUS
  <2>4. g \in Seq(Push) /\ b \in Seq(Push)
    BY <2>2, <2>3 DEF Socket
  <2>a. Messages(Append(g, q)) = Messages(g) \cup {q} /\ Messages(Append(b, q)) = Messages(b) \cup {q}
    BY <2>1, <2>4, AppendFacts
  <2>5. Messages(S2[c].got) = IF Hears(S[c], c, n, q) THEN Messages(g) \cup {q} ELSE Messages(g)
    BY <2>2, <2>a DEF SocketAfter
  <2>6. Messages(Q2[k]) = IF k = n THEN Messages(b) ELSE Messages(b) \cup {q}
    BY <2>3, <2>a DEF QueueAfter
  <2>7. \A p : Reached(S[c], Q[k], p) => Reached(S2[c], Q2[k], p)
    BY <2>5, <2>6 DEF Reached
  <2>8. Party(log[t][i], who) = IdOf[c] => q \in Messages(S2[c].got) \cup Messages(Q2[k])
    <3>1. CASE k = n
      BY <2>1, <2>5, <3>1 DEF Hears, OpenAt
    <3>2. CASE k # n
      BY <2>6, <3>2
    <3> QED BY <3>1, <3>2
  <2> QED BY <2>7, <2>8 DEF Reached
<1>2. CASE ~Concerns(t, log[t][i], who)
  <2>1. S2 = S /\ Q2 = Q
    BY <1>2 DEF Emission
  <2> QED BY <1>2, <2>1
<1> QED BY <1>1, <1>2

-----------------------------------------------------------------------------
(* Rooms, action by action.                                                *)

LEMMA AccountedMeans == TypeOK /\ SocketsOK => (NoPushLost <=> AllAccounted)
<1> SUFFICES ASSUME TypeOK, SocketsOK PROVE NoPushLost <=> AllAccounted
  OBVIOUS
<1>1. \A c \in Clients, t \in UsedTopics : socket[c].since[t] \in Nat /\ Len(log[t]) \in Nat
  BY DEF TypeOK, Socket
<1>2. ASSUME NoPushLost, NEW c \in Clients, NEW k \in Servers, NEW t \in UsedTopics, NEW who \in Parties,
             NEW i \in Nat, OpenAt(socket[c], k), Due(c, t, i, who)
      PROVE  Accounted(c, k, t, i, who)
  <2>1. socket[c].pc = "open" /\ socket[c].at = k
    BY <1>2 DEF OpenAt
  <2>2. i \in socket[c].since[t] + 1 .. Len(log[t]) /\ Addressed(c, t, i, who)
    BY <1>2 DEF Due
  <2> QED BY <1>2, <2>1, <2>2 DEF NoPushLost, Accounted, Reached
<1>3. ASSUME AllAccounted, NEW c \in Clients, socket[c].pc = "open", NEW t \in UsedTopics, NEW who \in Parties,
             NEW i \in socket[c].since[t] + 1 .. Len(log[t]), Addressed(c, t, i, who)
      PROVE  Accounted(c, socket[c].at, t, i, who)
  <2> PICK k \in Servers : k = socket[c].at
    BY <1>3 DEF SocketsOK, SocketOK
  <2>1. i \in Nat /\ Due(c, t, i, who) /\ OpenAt(socket[c], k)
    BY <1>1, <1>3 DEF Due, OpenAt
  <2>2. Accounted(c, k, t, i, who)
    BY <1>3, <2>1 DEF AllAccounted
  <2> QED BY <2>2
<1>4. ASSUME AllAccounted PROVE NoPushLost
  BY <1>3, <1>4 DEF NoPushLost, Accounted, Reached
<1>5. ASSUME NoPushLost PROVE AllAccounted
  BY <1>2, <1>5 DEF AllAccounted
<1> QED BY <1>4, <1>5

LEMMA HandleRooms ==
    ASSUME Rooms, NEW n \in Servers, NEW h \in UsedTopics, Handle(n, h)
    PROVE  /\ Rooms' /\ UNCHANGED gauge
           /\ \A c \in Clients : Keeps(socket[c], socket'[c])
<1>j. PICK j : j = pos[h] + 1
  OBVIOUS
<1>0. TypeOK /\ SocketsOK /\ AllAccounted
  BY DEF Rooms
<1>1. /\ j \in 1 .. Len(log[h]) /\ ~log[h][j].junk /\ owner[h] = n
      /\ \E S, Q : /\ Emission(socket, bus, S, Q, n, h, j, "rider")
                   /\ Emission(S, Q, socket', bus', n, h, j, "driver")
      /\ pos' = [pos EXCEPT ![h] = j]
      /\ UNCHANGED <<log, committed, owner, gauge, lost, moves, drops>>
  BY <1>0, <1>j, HandleFacts
<1>2. PICK S, Q : /\ Emission(socket, bus, S, Q, n, h, j, "rider")
                  /\ Emission(S, Q, socket', bus', n, h, j, "driver")
  BY <1>1
<1>3. socket \in Sockets /\ bus \in Queues /\ "rider" \in Parties /\ "driver" \in Parties
  BY <1>0 DEF TypeOK, Sockets, Queues, Parties
<1>a. j \in 1 .. Len(log[h])
  BY <1>1
<1>4. S \in Sockets /\ Q \in Queues /\ \A c \in Clients : Keeps(socket[c], S[c])
  BY <1>0, <1>a, <1>2, <1>3, EmissionKeeps
<1>5. socket' \in Sockets /\ bus' \in Queues /\ \A c \in Clients : Keeps(S[c], socket'[c])
  BY <1>0, <1>a, <1>2, <1>3, <1>4, EmissionKeeps
<1>6. ASSUME NEW c \in Clients PROVE Keeps(socket[c], socket'[c])
  BY <1>4, <1>5 DEF Keeps
<1>7. TypeOK'
  <2>1. /\ pos' \in [UsedTopics -> Nat]
        /\ \A t \in UsedTopics : committed[t].from <= pos'[t] + 1 /\ pos'[t] <= Len(log[t])
    BY <1>0, <1>1, <1>j DEF TypeOK, Commit
  <2>2. socket' \in [Clients -> Socket] /\ bus' \in [Servers -> Seq(Push)]
    BY <1>5 DEF Sockets, Queues
  <2> QED BY <1>0, <1>1, <2>1, <2>2 DEF TypeOK
<1>8. SocketsOK'
  <2>1. ASSUME NEW c \in Clients PROVE SocketOK(socket'[c])
    <3>1. SocketOK(socket[c]) /\ Keeps(socket[c], socket'[c])
      BY <1>0, <1>6 DEF SocketsOK
    <3> QED BY <3>1 DEF SocketOK, Keeps
  <2> QED BY <2>1 DEF SocketsOK
<1>9. ASSUME NEW c \in Clients, NEW k \in Servers, NEW t \in UsedTopics, NEW who \in Parties, NEW i \in Nat,
             OpenAt(socket'[c], k), Due(c, t, i, who)'
      PROVE  Accounted(c, k, t, i, who)'
  <2>1. /\ OpenAt(socket[c], k) /\ OpenAt(S[c], k) /\ socket'[c].since = socket[c].since
    BY <1>4, <1>6, <1>9 DEF OpenAt, Keeps
  <2>2. Due(c, t, i, who) /\ PushTo(t, i, who)' = PushTo(t, i, who)
    BY <1>1, <1>9, <2>1 DEF Due, Addressed, PushTo
  <2>3. Accounted(c, k, t, i, who)
    BY <1>0, <2>1, <2>2 DEF AllAccounted
  <2>p. PICK p : p = PushTo(t, i, who)
    OBVIOUS
  <2>4. /\ \A q : Reached(socket[c], bus[k], q) => Reached(S[c], Q[k], q)
        /\ Concerns(h, log[h][j], "rider") /\ Party(log[h][j], "rider") = IdOf[c]
              => Reached(S[c], Q[k], PushTo(h, j, "rider"))
    BY <1>0, <1>a, <1>2, <1>3, <2>1, EmissionReaches
  <2>5. /\ \A q : Reached(S[c], Q[k], q) => Reached(socket'[c], bus'[k], q)
        /\ Concerns(h, log[h][j], "driver") /\ Party(log[h][j], "driver") = IdOf[c]
              => Reached(socket'[c], bus'[k], PushTo(h, j, "driver"))
    BY <1>0, <1>a, <1>2, <1>3, <1>4, <2>1, EmissionReaches
  <2>6. CASE Reached(socket[c], bus[k], p)
    BY <2>2, <2>4, <2>5, <2>6, <2>p DEF Accounted
  <2>7. CASE i \in committed[t].skipped \/ [at |-> k, push |-> p] \in lost
    BY <1>1, <2>2, <2>7, <2>p DEF Accounted
  <2>8. CASE i > pos[t] /\ (t # h \/ i # j)
    <3>1. pos[h] \in Nat /\ j = pos[h] + 1 /\ pos' = [pos EXCEPT ![h] = j] /\ pos \in [UsedTopics -> Nat]
      BY <1>0, <1>1, <1>j DEF TypeOK
    <3>2. i > pos'[t]
      BY <2>8, <3>1
    <3> QED BY <3>2 DEF Accounted
  <2>9. CASE t = h /\ i = j
    <3>1. Concerns(t, log[t][i], who) /\ Party(log[t][i], who) = IdOf[c]
      BY <2>2 DEF Due, Addressed
    <3>2. Reached(socket'[c], bus'[k], p)
      BY <2>4, <2>5, <2>9, <2>p, <3>1 DEF Parties
    <3> QED BY <2>2, <2>p, <3>2 DEF Accounted
  <2> QED BY <2>3, <2>p, <2>6, <2>7, <2>8, <2>9 DEF Accounted
<1> QED BY <1>1, <1>6, <1>7, <1>8, <1>9 DEF Rooms, AllAccounted

LEMMA SkipBadRooms ==
    ASSUME Rooms, NEW n \in Servers, NEW h \in UsedTopics, SkipBad(n, h)
    PROVE  Rooms' /\ UNCHANGED <<socket, gauge>>
<1>0. TypeOK /\ SocketsOK /\ AllAccounted
  BY DEF Rooms
<1> PICK j : j = pos[h] + 1
  OBVIOUS
<1>1. /\ pos[h] \in Nat /\ j \in 1 .. Len(log[h]) /\ log[h][j].junk
      /\ pos' = [pos EXCEPT ![h] = j] /\ pos \in [UsedTopics -> Nat]
      /\ UNCHANGED <<log, committed, owner, socket, bus, gauge, lost, moves, drops>>
  BY <1>0 DEF SkipBad, TypeOK, HasNext, NextMessage, history
<1>2. TypeOK'
  <2>1. /\ pos' \in [UsedTopics -> Nat]
        /\ \A t \in UsedTopics : committed[t].from <= pos'[t] + 1 /\ pos'[t] <= Len(log[t])
    BY <1>0, <1>1 DEF TypeOK, Commit
  <2> QED BY <1>0, <1>1, <2>1 DEF TypeOK
<1>3. SocketsOK'
  BY <1>0, <1>1 DEF SocketsOK, SocketOK
<1>4. ASSUME NEW c \in Clients, NEW k \in Servers, NEW t \in UsedTopics, NEW who \in Parties, NEW i \in Nat,
             OpenAt(socket'[c], k), Due(c, t, i, who)'
      PROVE  Accounted(c, k, t, i, who)'
  <2>1. OpenAt(socket[c], k) /\ Due(c, t, i, who) /\ PushTo(t, i, who)' = PushTo(t, i, who)
    BY <1>1, <1>4 DEF Due, Addressed, PushTo
  <2>2. Accounted(c, k, t, i, who)
    BY <1>0, <2>1 DEF AllAccounted
  <2>3. t = h => i # j
    BY <1>1, <2>1 DEF Due, Addressed
  <2>4. i > pos[t] => i > pos'[t]
    BY <1>1, <2>3
  <2> QED BY <1>1, <2>1, <2>2, <2>4 DEF Accounted
<1> QED BY <1>1, <1>2, <1>3, <1>4 DEF Rooms, AllAccounted

LEMMA PublishRooms ==
    ASSUME Rooms, NEW h \in UsedTopics, NEW e \in EventSet, Publish(h, e)
    PROVE  Rooms' /\ UNCHANGED <<socket, gauge>>
<1>0. TypeOK /\ SocketsOK /\ AllAccounted
  BY DEF Rooms
<1>1. /\ log' = [log EXCEPT ![h] = Append(@, e)]
      /\ UNCHANGED <<pos, committed, owner, socket, bus, gauge, lost, moves, drops>>
  BY DEF Publish, history
<1>2. ASSUME NEW t \in UsedTopics
      PROVE  /\ log[t] \in Seq(EventSet) /\ log'[t] \in Seq(EventSet)
             /\ Len(log[t]) \in Nat /\ Len(log'[t]) \in Nat /\ Len(log'[t]) >= Len(log[t])
             /\ \A i \in 1 .. Len(log[t]) : log'[t][i] = log[t][i]
  BY <1>0, <1>1 DEF TypeOK
<1>3. TypeOK'
  <2>1. log' \in [UsedTopics -> Seq(EventSet)]
    BY <1>0, <1>1, <1>2 DEF TypeOK
  <2>2. \A t \in UsedTopics : committed[t].from <= pos[t] + 1 /\ pos[t] <= Len(log'[t])
    BY <1>0, <1>2 DEF TypeOK
  <2> QED BY <1>0, <1>1, <2>1, <2>2 DEF TypeOK
<1>4. SocketsOK'
  BY <1>0, <1>1 DEF SocketsOK, SocketOK
<1>5. ASSUME NEW c \in Clients, NEW k \in Servers, NEW t \in UsedTopics, NEW who \in Parties, NEW i \in Nat,
             OpenAt(socket'[c], k), Due(c, t, i, who)'
      PROVE  Accounted(c, k, t, i, who)'
  <2>1. OpenAt(socket[c], k) /\ i \in socket[c].since[t] + 1 .. Len(log'[t]) /\ socket[c].since[t] \in Nat
    BY <1>0, <1>1, <1>5 DEF Due, TypeOK, Socket
  <2>2. CASE i > Len(log[t])
    <3>1. i > pos'[t]
      BY <1>0, <1>1, <1>2, <2>2 DEF TypeOK
    <3> QED BY <3>1 DEF Accounted
  <2>3. CASE i <= Len(log[t])
    <3>1. i \in socket[c].since[t] + 1 .. Len(log[t]) /\ log'[t][i] = log[t][i]
      BY <1>2, <2>1, <2>3
    <3>2. Due(c, t, i, who) /\ PushTo(t, i, who)' = PushTo(t, i, who)
      BY <1>1, <1>5, <3>1 DEF Due, Addressed, PushTo
    <3>3. Accounted(c, k, t, i, who)
      BY <1>0, <2>1, <3>2 DEF AllAccounted
    <3> QED BY <1>1, <3>2, <3>3 DEF Accounted
  <2> QED BY <1>2, <2>2, <2>3
<1> QED BY <1>1, <1>3, <1>4, <1>5 DEF Rooms, AllAccounted

\* A group that joins anew resumes between its commit and its offset, or jumps
\* over what it has not handled.
LEMMA RejoinedFacts ==
    ASSUME NEW c \in Commit, NEW n \in Nat, NEW len \in Nat, c.from <= n + 1, n <= len, NEW w \in Rejoined(c, n, len)
    PROVE  /\ w.pos \in Nat /\ w.pos <= len
           /\ w.committed \in Commit /\ w.committed.from <= w.pos + 1 /\ c.from <= w.committed.from
           /\ \/ c.from <= w.pos /\ w.pos <= n /\ w.committed.skipped = c.skipped
              \/ /\ w.pos = len /\ w.committed.skipped = c.skipped \cup ((n + 1) .. len)
                 /\ w.committed.from = len + 1 \/ n = len
<1> DEFINE atEnd == [pos |-> len,
                     committed |-> [from |-> IF len \in ResumePoints(c.from, n) THEN len ELSE len + 1,
                                    sure |-> FALSE, skipped |-> c.skipped \cup ((n + 1) .. len)]]
<1>0. /\ c = [from |-> c.from, sure |-> c.sure, skipped |-> c.skipped]
      /\ c.from \in Nat /\ c.skipped \subseteq Nat
  BY DEF Commit
<1>1. CASE w = atEnd
  <2>1. w.committed.skipped \subseteq Nat
    BY <1>0, <1>1
  <2>2. w.committed \in Commit
    BY <1>0, <1>1, <2>1 DEF Commit
  <2>3. CASE len \in ResumePoints(c.from, n)
    BY <1>0, <1>1, <2>2, <2>3 DEF ResumePoints
  <2>4. CASE len \notin ResumePoints(c.from, n)
    BY <1>0, <1>1, <2>2, <2>4 DEF ResumePoints
  <2> QED BY <2>3, <2>4
<1>2. CASE w # atEnd
  <2>1. PICK k \in ResumePoints(c.from, n) :
            w = [pos |-> k, committed |-> [c EXCEPT !.from = k, !.sure = TRUE]]
    BY <1>2 DEF Rejoined
  <2>2. k \in Nat /\ c.from <= k /\ k <= n
    BY <1>0, <2>1 DEF ResumePoints
  <2>3. w.pos = k /\ w.committed = [from |-> k, sure |-> TRUE, skipped |-> c.skipped]
    BY <1>0, <2>1
  <2>4. w.committed \in Commit
    BY <1>0, <2>2, <2>3 DEF Commit
  <2> QED BY <2>2, <2>3, <2>4
<1> QED BY <1>1, <1>2

LEMMA ReassignFacts ==
    ASSUME TypeOK, Reassign
    PROVE  /\ pos' \in [UsedTopics -> Nat] /\ committed' \in [UsedTopics -> Commit]
           /\ owner' \in [UsedTopics -> Servers] /\ moves' = moves + 1
           /\ \A t \in UsedTopics :
                 /\ committed'[t].from <= pos'[t] + 1 /\ pos'[t] <= Len(log[t])
                 /\ \/ pos'[t] <= pos[t] /\ committed'[t].skipped = committed[t].skipped
                    \/ /\ pos'[t] = Len(log[t])
                       /\ committed'[t].skipped = committed[t].skipped \cup ((pos[t] + 1) .. Len(log[t]))
<1>1. PICK k \in Joins : /\ pos' = [t \in UsedTopics |-> k[t].pos]
                        /\ committed' = [t \in UsedTopics |-> k[t].committed]
  BY DEF Reassign
<1>2. \A t \in UsedTopics : k[t] \in Rejoined(committed[t], pos[t], Len(log[t]))
  <2> DEFINE ways == [t \in UsedTopics |-> Rejoined(committed[t], pos[t], Len(log[t]))]
  <2>1. \A t \in UsedTopics : k[t] \in ways[t]
    BY DEF Joins
  <2> QED BY <2>1
<1>3. ASSUME NEW t \in UsedTopics
      PROVE  /\ pos'[t] \in Nat /\ committed'[t] \in Commit
             /\ committed'[t].from <= pos'[t] + 1 /\ pos'[t] <= Len(log[t])
             /\ \/ pos'[t] <= pos[t] /\ committed'[t].skipped = committed[t].skipped
                \/ /\ pos'[t] = Len(log[t])
                   /\ committed'[t].skipped = committed[t].skipped \cup ((pos[t] + 1) .. Len(log[t]))
  <2>1. pos'[t] = k[t].pos /\ committed'[t] = k[t].committed
    BY <1>1
  <2>2. /\ committed[t] \in Commit /\ pos[t] \in Nat /\ Len(log[t]) \in Nat
        /\ committed[t].from <= pos[t] + 1 /\ pos[t] <= Len(log[t])
    BY DEF TypeOK
  <2>p. PICK c, n, len, w : c = committed[t] /\ n = pos[t] /\ len = Len(log[t]) /\ w = k[t]
    OBVIOUS
  <2>3. c \in Commit /\ n \in Nat /\ len \in Nat /\ c.from <= n + 1 /\ n <= len /\ w \in Rejoined(c, n, len)
    BY <1>2, <2>2, <2>p
  <2>4. /\ w.pos \in Nat /\ w.pos <= len
        /\ w.committed \in Commit /\ w.committed.from <= w.pos + 1 /\ c.from <= w.committed.from
        /\ \/ c.from <= w.pos /\ w.pos <= n /\ w.committed.skipped = c.skipped
           \/ /\ w.pos = len /\ w.committed.skipped = c.skipped \cup ((n + 1) .. len)
              /\ w.committed.from = len + 1 \/ n = len
    BY <2>3, RejoinedFacts
  <2> QED BY <2>1, <2>4, <2>p
<1>4. pos' \in [UsedTopics -> Nat] /\ committed' \in [UsedTopics -> Commit]
  BY <1>1, <1>3
<1>5. owner' \in [UsedTopics -> Servers] /\ moves' = moves + 1
  BY DEF Reassign
<1> QED BY <1>3, <1>4, <1>5

\* What resumes later than it was has jumped over what it leaves out.
LEMMA ReassignAccounts ==
    ASSUME TypeOK, Reassign, NEW t \in UsedTopics, NEW i \in 1 .. Len(log[t]), i > pos[t] \/ i \in committed[t].skipped
    PROVE  i > pos'[t] \/ i \in committed'[t].skipped
<1>1. /\ Len(log[t]) \in Nat /\ pos[t] \in Nat /\ pos'[t] \in Nat
      /\ \/ pos'[t] <= pos[t] /\ committed'[t].skipped = committed[t].skipped
         \/ committed'[t].skipped = committed[t].skipped \cup ((pos[t] + 1) .. Len(log[t]))
  BY ReassignFacts DEF TypeOK
<1> QED BY <1>1

LEMMA RebalanceRooms ==
    ASSUME Rooms, Rebalance
    PROVE  Rooms' /\ UNCHANGED <<socket, gauge>>
<1>0. TypeOK /\ SocketsOK /\ AllAccounted
  BY DEF Rooms
<1>1. Reassign /\ UNCHANGED <<log, socket, bus, gauge, lost, drops>>
  BY DEF Rebalance
<1>2. /\ pos' \in [UsedTopics -> Nat] /\ committed' \in [UsedTopics -> Commit]
      /\ owner' \in [UsedTopics -> Servers] /\ moves' = moves + 1
      /\ \A t \in UsedTopics : committed'[t].from <= pos'[t] + 1 /\ pos'[t] <= Len(log[t])
  BY <1>0, <1>1, ReassignFacts
<1>3. TypeOK'
  BY <1>0, <1>1, <1>2 DEF TypeOK
<1>4. SocketsOK'
  BY <1>0, <1>1 DEF SocketsOK, SocketOK
<1>5. ASSUME NEW c \in Clients, NEW k \in Servers, NEW t \in UsedTopics, NEW who \in Parties, NEW i \in Nat,
             OpenAt(socket'[c], k), Due(c, t, i, who)'
      PROVE  Accounted(c, k, t, i, who)'
  <2>1. /\ OpenAt(socket[c], k) /\ Due(c, t, i, who) /\ PushTo(t, i, who)' = PushTo(t, i, who)
    BY <1>1, <1>5 DEF Due, Addressed, PushTo
  <2>2. Accounted(c, k, t, i, who)
    BY <1>0, <2>1 DEF AllAccounted
  <2>3. i \in 1 .. Len(log[t])
    BY <1>0, <2>1 DEF Due, TypeOK, Socket
  <2>4. i > pos[t] \/ i \in committed[t].skipped => i > pos'[t] \/ i \in committed'[t].skipped
    BY <1>0, <1>1, <2>3, ReassignAccounts
  <2> QED BY <1>1, <2>1, <2>2, <2>4 DEF Accounted
<1> QED BY <1>1, <1>3, <1>4, <1>5 DEF Rooms, AllAccounted

LEMMA ClosedType == Closed \in Socket /\ SocketOK(Closed) /\ \A k \in Servers : ~OpenAt(Closed, k)
<1>1. << >> \in Seq(Push) /\ [t \in UsedTopics |-> 0] \in [UsedTopics -> Nat]
  BY EmptyQueue
<1> QED BY <1>1 DEF Closed, Socket, SocketOK, OpenAt

LEMMA CrashRooms ==
    ASSUME Rooms, NEW n \in Servers, Crash(n)
    PROVE  /\ Rooms' /\ gauge' = [gauge EXCEPT ![n] = 0]
           /\ \A c \in Clients : socket'[c] = IF socket[c].at = n THEN Closed ELSE socket[c]
<1>0. TypeOK /\ SocketsOK /\ AllAccounted
  BY DEF Rooms
<1>1. /\ Reassign /\ UNCHANGED <<log, lost, drops>>
      /\ socket' = [c \in Clients |-> IF socket[c].at = n THEN Closed ELSE socket[c]]
      /\ bus' = [bus EXCEPT ![n] = << >>] /\ gauge' = [gauge EXCEPT ![n] = 0]
  BY DEF Crash
<1>2. /\ pos' \in [UsedTopics -> Nat] /\ committed' \in [UsedTopics -> Commit]
      /\ owner' \in [UsedTopics -> Servers] /\ moves' = moves + 1
      /\ \A t \in UsedTopics : committed'[t].from <= pos'[t] + 1 /\ pos'[t] <= Len(log[t])
  BY <1>0, <1>1, ReassignFacts
<1>3. TypeOK'
  <2>1. socket' \in [Clients -> Socket]
    BY <1>0, <1>1, ClosedType DEF TypeOK
  <2>2. bus' \in [Servers -> Seq(Push)] /\ gauge' \in [Servers -> Int]
    BY <1>0, <1>1, EmptyQueue DEF TypeOK
  <2>3. moves' \in Nat
    BY <1>0, <1>2 DEF TypeOK
  <2> QED BY <1>0, <1>1, <1>2, <2>1, <2>2, <2>3 DEF TypeOK
<1>4. SocketsOK'
  BY <1>0, <1>1, ClosedType DEF SocketsOK
<1>5. ASSUME NEW c \in Clients, NEW k \in Servers, NEW t \in UsedTopics, NEW who \in Parties, NEW i \in Nat,
             OpenAt(socket'[c], k), Due(c, t, i, who)'
      PROVE  Accounted(c, k, t, i, who)'
  <2>1. socket'[c] = socket[c] /\ k # n
    BY <1>1, <1>5, ClosedType DEF OpenAt
  <2>2. bus'[k] = bus[k]
    BY <1>0, <1>1, <2>1 DEF TypeOK
  <2>3. /\ OpenAt(socket[c], k) /\ Due(c, t, i, who) /\ PushTo(t, i, who)' = PushTo(t, i, who)
    BY <1>1, <1>5, <2>1 DEF Due, Addressed, PushTo
  <2>4. Accounted(c, k, t, i, who)
    BY <1>0, <2>3 DEF AllAccounted
  <2>5. i \in 1 .. Len(log[t])
    BY <1>0, <2>3 DEF Due, TypeOK, Socket
  <2>6. i > pos[t] \/ i \in committed[t].skipped => i > pos'[t] \/ i \in committed'[t].skipped
    BY <1>0, <1>1, <2>5, ReassignAccounts
  <2> QED BY <1>1, <2>1, <2>2, <2>3, <2>4, <2>6 DEF Accounted
<1> QED BY <1>1, <1>3, <1>4, <1>5 DEF Rooms, AllAccounted

LEMMA BusLosesRooms ==
    ASSUME Rooms, NEW n \in Servers, BusLoses(n)
    PROVE  Rooms' /\ UNCHANGED <<socket, gauge>>
<1>0. TypeOK /\ SocketsOK /\ AllAccounted
  BY DEF Rooms
<1>1. /\ bus[n] # << >> /\ bus' = [bus EXCEPT ![n] = Tail(@)]
      /\ lost' = lost \cup {[at |-> n, push |-> Head(bus[n])]} /\ drops' = drops + 1
      /\ UNCHANGED <<log, pos, committed, owner, socket, gauge, moves>>
  BY DEF BusLoses, kafkaVars
<1>2. PICK q : q = bus[n]
  OBVIOUS
<1>3. /\ q \in Seq(Push) /\ Tail(q) \in Seq(Push) /\ Head(q) \in Push
      /\ Messages(q) = Messages(Tail(q)) \cup {Head(q)}
  <2>1. q \in Seq(Push) /\ q # << >>
    BY <1>0, <1>1, <1>2 DEF TypeOK
  <2> QED BY <2>1, TailFacts
<1>4. TypeOK'
  <2>1. bus' \in [Servers -> Seq(Push)] /\ lost' \subseteq [at : Servers, push : Push]
    BY <1>0, <1>1, <1>2, <1>3 DEF TypeOK
  <2> QED BY <1>0, <1>1, <2>1 DEF TypeOK
<1>5. SocketsOK'
  BY <1>0, <1>1 DEF SocketsOK, SocketOK
<1>6. ASSUME NEW c \in Clients, NEW k \in Servers, NEW t \in UsedTopics, NEW who \in Parties, NEW i \in Nat,
             OpenAt(socket'[c], k), Due(c, t, i, who)'
      PROVE  Accounted(c, k, t, i, who)'
  <2>1. OpenAt(socket[c], k) /\ Due(c, t, i, who) /\ PushTo(t, i, who)' = PushTo(t, i, who)
    BY <1>1, <1>6 DEF Due, Addressed, PushTo
  <2>2. Accounted(c, k, t, i, who)
    BY <1>0, <2>1 DEF AllAccounted
  <2>3. PICK p : p = PushTo(t, i, who)
    OBVIOUS
  <2>4. Reached(socket[c], bus[k], p) => Reached(socket'[c], bus'[k], p) \/ [at |-> k, push |-> p] \in lost'
    <3>1. CASE k = n
      BY <1>0, <1>1, <1>2, <1>3, <3>1 DEF TypeOK, Reached
    <3>2. CASE k # n
      BY <1>0, <1>1, <3>2 DEF TypeOK, Reached
    <3> QED BY <3>1, <3>2
  <2> QED BY <1>1, <2>1, <2>2, <2>3, <2>4 DEF Accounted
<1> QED BY <1>1, <1>4, <1>5, <1>6 DEF Rooms, AllAccounted

LEMMA BusDeliversRooms ==
    ASSUME Rooms, NEW n \in Servers, BusDelivers(n)
    PROVE  /\ Rooms' /\ UNCHANGED gauge
           /\ \A c \in Clients : Keeps(socket[c], socket'[c])
<1>0. TypeOK /\ SocketsOK /\ AllAccounted
  BY DEF Rooms
<1>2. PICK q : q = bus[n]
  OBVIOUS
<1>h. PICK h : h = Head(q)
  OBVIOUS
<1>1. /\ q # << >> /\ bus' = [bus EXCEPT ![n] = Tail(q)]
      /\ socket' = Delivered(socket, n, h)
      /\ UNCHANGED <<log, pos, committed, owner, gauge, lost, moves, drops>>
  BY <1>2, <1>h DEF BusDelivers, kafkaVars, history
<1>3. q \in Seq(Push) /\ Tail(q) \in Seq(Push) /\ h \in Push /\ Messages(q) = Messages(Tail(q)) \cup {h}
  <2>1. q \in Seq(Push) /\ q # << >>
    BY <1>0, <1>1, <1>2 DEF TypeOK
  <2> QED BY <2>1, <1>h, TailFacts
<1>4. PICK B : B = BusAfter(bus, n, h)
  OBVIOUS
<1>5. Emits(socket, bus, socket', B, n, h) /\ socket \in Sockets /\ bus \in Queues
  BY <1>0, <1>1, <1>4 DEF Emits, TypeOK, Sockets, Queues
<1>6. socket' \in Sockets
  BY <1>3, <1>5, EmitsType
<1>7. ASSUME NEW c \in Clients
      PROVE  SocketAfter(socket[c], socket'[c], Hears(socket[c], c, n, h), h) /\ Keeps(socket[c], socket'[c])
  <2>1. SocketAfter(socket[c], socket'[c], Hears(socket[c], c, n, h), h)
    BY <1>3, <1>5, EmitsToSocket
  <2> QED BY <2>1 DEF SocketAfter, Keeps, Hears
<1>8. TypeOK'
  <2>1. bus' \in [Servers -> Seq(Push)] /\ socket' \in [Clients -> Socket]
    BY <1>0, <1>1, <1>3, <1>6 DEF TypeOK, Sockets
  <2> QED BY <1>0, <1>1, <2>1 DEF TypeOK
<1>9. SocketsOK'
  <2>1. ASSUME NEW c \in Clients PROVE SocketOK(socket'[c])
    <3>1. SocketOK(socket[c]) /\ Keeps(socket[c], socket'[c])
      BY <1>0, <1>7 DEF SocketsOK
    <3> QED BY <3>1 DEF SocketOK, Keeps
  <2> QED BY <2>1 DEF SocketsOK
<1>10. ASSUME NEW c \in Clients, NEW k \in Servers, NEW t \in UsedTopics, NEW who \in Parties, NEW i \in Nat,
              OpenAt(socket'[c], k), Due(c, t, i, who)'
       PROVE  Accounted(c, k, t, i, who)'
  <2>a. SocketAfter(socket[c], socket'[c], Hears(socket[c], c, n, h), h)
    BY <1>7
  <2>1. OpenAt(socket[c], k) /\ socket'[c].since = socket[c].since
    BY <1>10, <2>a DEF OpenAt, SocketAfter
  <2>b. Due(c, t, i, who) /\ PushTo(t, i, who)' = PushTo(t, i, who)
    BY <1>1, <1>10, <2>1 DEF Due, Addressed, PushTo
  <2>2. Accounted(c, k, t, i, who)
    BY <1>0, <2>1, <2>b DEF AllAccounted
  <2>3. PICK p : p = PushTo(t, i, who)
    OBVIOUS
  <2>4. PICK g : g = socket[c].got
    OBVIOUS
  <2>5. g \in Seq(Push)
    BY <1>0, <2>4 DEF TypeOK, Socket
  <2>6. Messages(Append(g, h)) = Messages(g) \cup {h}
    BY <1>3, <2>5, AppendFacts
  <2>7. Messages(socket'[c].got) = IF Hears(socket[c], c, n, h) THEN Messages(g) \cup {h} ELSE Messages(g)
    BY <2>a, <2>4, <2>6 DEF SocketAfter
  <2>8. ASSUME Reached(socket[c], bus[k], p) PROVE Reached(socket'[c], bus'[k], p)
    <3>1. CASE k = n /\ p = h
      <4>1. Hears(socket[c], c, n, h)
        BY <2>1, <2>3, <2>b, <3>1 DEF OpenAt, Hears, Due, Addressed, PushTo
      <4> QED BY <2>7, <3>1, <4>1 DEF Reached
    <3>2. CASE k = n /\ p # h
      BY <1>0, <1>1, <1>2, <1>3, <2>4, <2>7, <2>8, <3>2 DEF TypeOK, Reached
    <3>3. CASE k # n
      BY <1>0, <1>1, <2>4, <2>7, <2>8, <3>3 DEF TypeOK, Reached
    <3> QED BY <3>1, <3>2, <3>3
  <2> QED BY <1>1, <2>b, <2>2, <2>3, <2>8 DEF Accounted
<1> QED BY <1>1, <1>7, <1>8, <1>9, <1>10 DEF Rooms, AllAccounted

\* The sockets that the gauge of instance k counts.
OpenOn(k) == {c \in Clients : OpenAt(socket[c], k)}

LEMMA OpenOnFacts ==
    /\ \A k \in Servers : IsFiniteSet(OpenOn(k)) /\ Cardinality(OpenOn(k)) \in Nat
    /\ GaugeCountsSockets <=> \A k \in Servers : gauge[k] = Cardinality(OpenOn(k))
<1>1. ASSUME NEW k \in Servers PROVE IsFiniteSet(OpenOn(k)) /\ Cardinality(OpenOn(k)) \in Nat
  <2>1. OpenOn(k) \subseteq Clients /\ IsFiniteSet(Clients)
    BY NotificationAssumption DEF OpenOn
  <2> QED BY <2>1, FS_Subset, FS_CardinalityType
<1>2. ASSUME NEW k \in Servers PROVE OpenOn(k) = {c \in Clients : socket[c].pc = "open" /\ socket[c].at = k}
  BY DEF OpenOn, OpenAt
<1>3. GaugeCountsSockets <=> \A k \in Servers : gauge[k] = Cardinality(OpenOn(k))
  BY <1>2 DEF GaugeCountsSockets
<1> QED BY <1>1, <1>3

\* The gauge still counts when sockets stay open or closed where they are.
LEMMA GaugeKept ==
    ASSUME GaugeCountsSockets, \A c \in Clients : Keeps(socket[c], socket'[c]), UNCHANGED gauge
    PROVE  GaugeCountsSockets'
<1>1. ASSUME NEW k \in Servers
      PROVE  {c \in Clients : socket'[c].pc = "open" /\ socket'[c].at = k}
                 = {c \in Clients : socket[c].pc = "open" /\ socket[c].at = k}
  BY DEF Keeps
<1> QED BY <1>1 DEF GaugeCountsSockets

LEMMA ConnectionRooms ==
    ASSUME Rooms, NEW n \in Servers, NEW d \in Clients, handleConnection(d, n)
    PROVE  /\ Rooms'
           /\ socket[d].pc = "closed" /\ socket'[d].at = n
           /\ \/ socket'[d].pc = "open" /\ gauge' = [gauge EXCEPT ![n] = @ + 1]
              \/ socket'[d].pc = "refused" /\ gauge' = gauge
           /\ socket'[d].got = << >>
           /\ \A c \in Clients \ {d} : socket'[c] = socket[c]
<1>0. TypeOK /\ SocketsOK /\ AllAccounted
  BY DEF Rooms
<1>a. UNCHANGED <<log, pos, committed, owner, bus, lost, moves, drops>>
  BY DEF handleConnection, kafkaVars, history
<1>s. PICK since : since = [t \in UsedTopics |-> Len(log[t])]
  OBVIOUS
<1>n. PICK s : s = [pc |-> IF IdOf[d] = NoId THEN "refused" ELSE "open", at |-> n, got |-> << >>, since |-> since]
  OBVIOUS
<1>1. /\ socket' = [socket EXCEPT ![d] = s]
      /\ \/ s.pc = "open" /\ gauge' = [gauge EXCEPT ![n] = @ + 1]
         \/ s.pc = "refused" /\ gauge' = gauge
      /\ socket[d].pc = "closed"
  BY <1>s, <1>n DEF handleConnection, Closed
<1>2. since \in [UsedTopics -> Nat] /\ \A t \in UsedTopics : Len(log[t]) \in Nat
  BY <1>0, <1>s DEF TypeOK
<1>3. s \in Socket /\ SocketOK(s)
  <2>1. << >> \in Seq(Push)
    BY EmptyQueue
  <2> QED BY <1>2, <1>n, <2>1 DEF Socket, SocketOK
<1>4. /\ socket'[d] = s /\ socket' \in [Clients -> Socket]
      /\ \A c \in Clients \ {d} : socket'[c] = socket[c]
  BY <1>0, <1>1, <1>3 DEF TypeOK
<1>5. TypeOK'
  <2>1. gauge' \in [Servers -> Int]
    BY <1>0, <1>1 DEF TypeOK
  <2> QED BY <1>0, <1>a, <1>4, <2>1 DEF TypeOK
<1>6. SocketsOK'
  BY <1>0, <1>3, <1>4 DEF SocketsOK
<1>7. ASSUME NEW c \in Clients, NEW k \in Servers, NEW t \in UsedTopics, NEW who \in Parties, NEW i \in Nat,
             OpenAt(socket'[c], k), Due(c, t, i, who)'
      PROVE  Accounted(c, k, t, i, who)'
  <2>1. c # d
    <3>1. ASSUME c = d PROVE FALSE
      <4>1. i \in since[t] + 1 .. Len(log[t]) /\ since[t] = Len(log[t])
        BY <1>a, <1>s, <1>n, <1>4, <1>7, <3>1 DEF Due
      <4> QED BY <1>2, <4>1
    <3> QED BY <3>1
  <2>2. OpenAt(socket[c], k) /\ Due(c, t, i, who) /\ PushTo(t, i, who)' = PushTo(t, i, who)
    BY <1>a, <1>4, <1>7, <2>1 DEF Due, Addressed, PushTo
  <2>3. Accounted(c, k, t, i, who)
    BY <1>0, <2>2 DEF AllAccounted
  <2> QED BY <1>a, <1>4, <2>1, <2>2, <2>3 DEF Accounted
<1> QED BY <1>1, <1>n, <1>4, <1>5, <1>6, <1>7 DEF Rooms, AllAccounted

LEMMA DisconnectRooms ==
    ASSUME Rooms, NEW d \in Clients, handleDisconnect(d)
    PROVE  /\ Rooms' /\ socket'[d] = Closed
           /\ \A c \in Clients \ {d} : socket'[c] = socket[c]
<1>0. TypeOK /\ SocketsOK /\ AllAccounted
  BY DEF Rooms
<1>1. /\ UNCHANGED <<log, pos, committed, owner, bus, lost, moves, drops>>
      /\ gauge' = IF Counted(d) THEN [gauge EXCEPT ![socket[d].at] = @ - 1] ELSE gauge
      /\ socket' = [socket EXCEPT ![d] = Closed]
  BY DEF handleDisconnect, kafkaVars, history
<1>2. /\ socket'[d] = Closed /\ socket' \in [Clients -> Socket]
      /\ \A c \in Clients \ {d} : socket'[c] = socket[c]
  BY <1>0, <1>1, ClosedType DEF TypeOK
<1>3. TypeOK'
  <2>1. gauge' \in [Servers -> Int]
    <3>1. PICK k : k = socket[d].at
      OBVIOUS
    <3>2. Counted(d) => k \in Servers
      BY <1>0, <3>1 DEF Counted, SocketsOK, SocketOK
    <3>3. gauge' = IF Counted(d) THEN [gauge EXCEPT ![k] = gauge[k] - 1] ELSE gauge
      BY <1>1, <3>1
    <3>4. CASE Counted(d)
      BY <1>0, <3>2, <3>3, <3>4 DEF TypeOK
    <3>5. CASE ~Counted(d)
      BY <1>0, <3>3, <3>5 DEF TypeOK
    <3> QED BY <3>4, <3>5
  <2> QED BY <1>0, <1>1, <1>2, <2>1 DEF TypeOK
<1>4. SocketsOK'
  BY <1>0, <1>2, ClosedType DEF SocketsOK
<1>5. ASSUME NEW c \in Clients, NEW k \in Servers, NEW t \in UsedTopics, NEW who \in Parties, NEW i \in Nat,
             OpenAt(socket'[c], k), Due(c, t, i, who)'
      PROVE  Accounted(c, k, t, i, who)'
  <2>1. socket'[c] = socket[c]
    BY <1>2, <1>5, ClosedType
  <2>2. OpenAt(socket[c], k) /\ Due(c, t, i, who) /\ PushTo(t, i, who)' = PushTo(t, i, who)
    BY <1>1, <1>5, <2>1 DEF Due, Addressed, PushTo
  <2>3. Accounted(c, k, t, i, who)
    BY <1>0, <2>2 DEF AllAccounted
  <2> QED BY <1>1, <2>1, <2>2, <2>3 DEF Accounted
<1> QED BY <1>2, <1>3, <1>4, <1>5 DEF Rooms, AllAccounted

-----------------------------------------------------------------------------
(* The gauge.                                                              *)

LEMMA ConnectionGauge ==
    ASSUME Rooms, GaugeCountsSockets, NEW n \in Servers, NEW d \in Clients, handleConnection(d, n)
    PROVE  GaugeCountsSockets'
<1>1. /\ socket[d].pc = "closed" /\ socket'[d].at = n
      /\ \/ socket'[d].pc = "open" /\ gauge' = [gauge EXCEPT ![n] = @ + 1]
         \/ socket'[d].pc = "refused" /\ gauge' = gauge
      /\ \A c \in Clients \ {d} : socket'[c] = socket[c]
  BY ConnectionRooms
<1>2. gauge \in [Servers -> Int]
  BY DEF Rooms, TypeOK
<1>3. /\ \A k \in Servers : gauge[k] = Cardinality(OpenOn(k)) /\ IsFiniteSet(OpenOn(k))
  BY OpenOnFacts
<1>4. ASSUME NEW k \in Servers
      PROVE  gauge'[k] = Cardinality({c \in Clients : socket'[c].pc = "open" /\ socket'[c].at = k})
  <2>1. PICK A : A = OpenOn(k)
    OBVIOUS
  <2>2. PICK A2 : A2 = {c \in Clients : socket'[c].pc = "open" /\ socket'[c].at = k}
    OBVIOUS
  <2>3. d \notin A
    BY <1>1, <2>1 DEF OpenOn, OpenAt
  <2>4. A2 = IF k = n /\ socket'[d].pc = "open" THEN A \cup {d} ELSE A
    BY <1>1, <2>1, <2>2 DEF OpenOn, OpenAt
  <2>5. Cardinality(A \cup {d}) = Cardinality(A) + 1
    BY <1>3, <2>1, <2>3, FS_AddElement
  <2>6. gauge[k] = Cardinality(A)
    BY <1>3, <2>1
  <2>7. gauge'[k] = IF k = n /\ socket'[d].pc = "open" THEN gauge[k] + 1 ELSE gauge[k]
    BY <1>1, <1>2
  <2>8. gauge'[k] = Cardinality(A2)
    BY <2>4, <2>5, <2>6, <2>7
  <2> QED BY <2>2, <2>8
<1> QED BY <1>4 DEF GaugeCountsSockets

LEMMA DisconnectGauge ==
    ASSUME Rooms, GaugeCountsSockets, NEW d \in Clients, handleDisconnect(d)
    PROVE  GaugeCountsSockets'
<1>1. socket'[d] = Closed /\ \A c \in Clients \ {d} : socket'[c] = socket[c]
  BY DisconnectRooms
<1>m. PICK m : m = socket[d].at
  OBVIOUS
<1>2. gauge' = IF OpenAt(socket[d], m) THEN [gauge EXCEPT ![m] = gauge[m] - 1] ELSE gauge
  BY <1>m DEF handleDisconnect, Counted, OpenAt
<1>3. gauge \in [Servers -> Int] /\ (OpenAt(socket[d], m) => m \in Servers)
  BY <1>m DEF Rooms, TypeOK, SocketsOK, SocketOK, OpenAt
<1>4. \A k \in Servers : gauge[k] = Cardinality(OpenOn(k)) /\ IsFiniteSet(OpenOn(k))
  BY OpenOnFacts
<1>5. ASSUME NEW k \in Servers
      PROVE  gauge'[k] = Cardinality({c \in Clients : socket'[c].pc = "open" /\ socket'[c].at = k})
  <2>1. PICK A : A = OpenOn(k)
    OBVIOUS
  <2>2. PICK A2 : A2 = {c \in Clients : socket'[c].pc = "open" /\ socket'[c].at = k}
    OBVIOUS
  <2>3. d \in A <=> k = m /\ OpenAt(socket[d], m)
    BY <1>m, <2>1 DEF OpenOn, OpenAt
  <2>4. A2 = A \ {d}
    <3>1. ~(socket'[d].pc = "open" /\ socket'[d].at = k)
      BY <1>1, ClosedType DEF OpenAt
    <3> QED BY <1>1, <2>1, <2>2, <3>1 DEF OpenOn, OpenAt
  <2>5. Cardinality(A \ {d}) = IF d \in A THEN Cardinality(A) - 1 ELSE Cardinality(A)
    BY <1>4, <2>1, FS_RemoveElement
  <2>6. gauge[k] = Cardinality(A)
    BY <1>4, <2>1
  <2>7. gauge'[k] = IF d \in A THEN gauge[k] - 1 ELSE gauge[k]
    BY <1>2, <1>3, <2>3
  <2>8. gauge'[k] = Cardinality(A2)
    BY <2>4, <2>5, <2>6, <2>7
  <2> QED BY <2>2, <2>8
<1> QED BY <1>5 DEF GaugeCountsSockets

LEMMA CrashGauge ==
    ASSUME Rooms, GaugeCountsSockets, NEW n \in Servers, Crash(n)
    PROVE  GaugeCountsSockets'
<1>1. /\ gauge' = [gauge EXCEPT ![n] = 0]
      /\ \A c \in Clients : socket'[c] = IF socket[c].at = n THEN Closed ELSE socket[c]
  BY CrashRooms
<1>2. gauge \in [Servers -> Int]
  BY DEF Rooms, TypeOK
<1>3. ASSUME NEW k \in Servers
      PROVE  gauge'[k] = Cardinality({c \in Clients : socket'[c].pc = "open" /\ socket'[c].at = k})
  <2>1. PICK A2 : A2 = {c \in Clients : socket'[c].pc = "open" /\ socket'[c].at = k}
    OBVIOUS
  <2>2. ~(Closed.pc = "open" /\ Closed.at = k)
    BY ClosedType DEF OpenAt
  <2>3. CASE k = n
    <3>1. A2 = {}
      BY <1>1, <2>1, <2>2, <2>3
    <3> QED BY <1>1, <1>2, <2>1, <2>3, <3>1, FS_EmptySet
  <2>4. CASE k # n
    <3>1. A2 = {c \in Clients : socket[c].pc = "open" /\ socket[c].at = k}
      BY <1>1, <2>1, <2>2, <2>4
    <3>2. gauge'[k] = gauge[k]
      BY <1>1, <1>2, <2>4
    <3> QED BY <2>1, <3>1, <3>2 DEF GaugeCountsSockets
  <2> QED BY <2>3, <2>4
<1> QED BY <1>3 DEF GaugeCountsSockets

-----------------------------------------------------------------------------
LEMMA InitInv == Init => IInv
<1> SUFFICES ASSUME Init PROVE IInv
  OBVIOUS
<1>1. /\ log = [t \in UsedTopics |-> << >>] /\ pos = [t \in UsedTopics |-> 0]
      /\ committed = [t \in UsedTopics |-> FirstCommit] /\ owner \in [UsedTopics -> Servers]
      /\ socket = [c \in Clients |-> Closed] /\ bus = [n \in Servers |-> << >>]
      /\ gauge = [n \in Servers |-> 0] /\ lost = {} /\ moves = 0 /\ drops = 0
  BY DEF Init
<1>2. \A T : << >> \in Seq(T)
  BY EmptyQueue
<1>3. TypeOK
  <2>1. socket \in [Clients -> Socket]
    BY <1>1, ClosedType
  <2>2. bus \in [Servers -> Seq(Push)] /\ log \in [UsedTopics -> Seq(EventSet)]
    BY <1>1, <1>2
  <2>3. /\ committed \in [UsedTopics -> Commit]
        /\ \A t \in UsedTopics : pos[t] = 0 /\ Len(log[t]) = 0 /\ committed[t].from = 0
    BY <1>1 DEF Commit, FirstCommit
  <2> QED BY <1>1, <2>1, <2>2, <2>3 DEF TypeOK
<1>4. SocketsOK
  BY <1>1, ClosedType DEF SocketsOK
<1>5. AllAccounted
  BY <1>1, ClosedType DEF AllAccounted
<1>6. GaugeCountsSockets
  <2>1. ASSUME NEW k \in Servers PROVE gauge[k] = Cardinality({c \in Clients : socket[c].pc = "open" /\ socket[c].at = k})
    <3>1. {c \in Clients : socket[c].pc = "open" /\ socket[c].at = k} = {}
      BY <1>1 DEF Closed
    <3>2. gauge[k] = 0
      BY <1>1
    <3> QED BY <3>1, <3>2, FS_EmptySet
  <2> QED BY <2>1 DEF GaugeCountsSockets
<1> QED BY <1>3, <1>4, <1>5, <1>6 DEF IInv, Rooms

LEMMA NextInv == IInv /\ [Next]_vars => IInv'
<1> SUFFICES ASSUME IInv, [Next]_vars PROVE IInv'
  OBVIOUS
<1>0. Rooms /\ GaugeCountsSockets
  BY DEF IInv
<1>1. ASSUME NEW c \in Clients, handleDisconnect(c) PROVE IInv'
  BY <1>0, <1>1, DisconnectRooms, DisconnectGauge DEF IInv
<1>2. ASSUME NEW c \in Clients, NEW n \in Servers, handleConnection(c, n) PROVE IInv'
  BY <1>0, <1>2, ConnectionRooms, ConnectionGauge DEF IInv
<1>3. ASSUME NEW t \in UsedTopics, NEW n \in Servers, Handle(n, t) PROVE IInv'
  <2>1. Rooms' /\ UNCHANGED gauge /\ \A c \in Clients : Keeps(socket[c], socket'[c])
    BY <1>0, <1>3, HandleRooms
  <2> QED BY <1>0, <2>1, GaugeKept DEF IInv
<1>4. ASSUME NEW t \in UsedTopics, NEW n \in Servers, SkipBad(n, t) PROVE IInv'
  <2>1. Rooms' /\ UNCHANGED <<socket, gauge>>
    BY <1>0, <1>4, SkipBadRooms
  <2> QED BY <1>0, <2>1 DEF IInv, GaugeCountsSockets
<1>5. ASSUME NEW t \in UsedTopics, NEW e \in EventSet, Publish(t, e) PROVE IInv'
  <2>1. Rooms' /\ UNCHANGED <<socket, gauge>>
    BY <1>0, <1>5, PublishRooms
  <2> QED BY <1>0, <2>1 DEF IInv, GaugeCountsSockets
<1>6. ASSUME NEW n \in Servers, BusDelivers(n) PROVE IInv'
  <2>1. Rooms' /\ UNCHANGED gauge /\ \A c \in Clients : Keeps(socket[c], socket'[c])
    BY <1>0, <1>6, BusDeliversRooms
  <2> QED BY <1>0, <2>1, GaugeKept DEF IInv
<1>7. ASSUME Rebalance PROVE IInv'
  <2>1. Rooms' /\ UNCHANGED <<socket, gauge>>
    BY <1>0, <1>7, RebalanceRooms
  <2> QED BY <1>0, <2>1 DEF IInv, GaugeCountsSockets
<1>8. ASSUME NEW n \in Servers, Crash(n) PROVE IInv'
  BY <1>0, <1>8, CrashRooms, CrashGauge DEF IInv
<1>9. ASSUME NEW n \in Servers, BusLoses(n) PROVE IInv'
  <2>1. Rooms' /\ UNCHANGED <<socket, gauge>>
    BY <1>0, <1>9, BusLosesRooms
  <2> QED BY <1>0, <2>1 DEF IInv, GaugeCountsSockets
<1>10. CASE UNCHANGED vars
  <2>1. UNCHANGED <<log, pos, committed, owner, socket, bus, gauge, lost, moves, drops>>
    BY <1>10 DEF vars, kafkaVars
  <2>2. TypeOK' /\ SocketsOK'
    BY <1>0, <2>1 DEF Rooms, TypeOK, SocketsOK, SocketOK
  <2>3. AllAccounted'
    BY <1>0, <2>1 DEF Rooms, AllAccounted, Accounted, Due, Addressed, PushTo
  <2> QED BY <1>0, <2>1, <2>2, <2>3 DEF IInv, Rooms, GaugeCountsSockets
<1> QED
  BY <1>1, <1>2, <1>3, <1>4, <1>5, <1>6, <1>7, <1>8, <1>9, <1>10 DEF Next, Consumes, Trouble

LEMMA InvHolds == Spec => []IInv
<1> QED BY InitInv, NextInv, PTL DEF Spec

\* The state is what the module says it is, through crashes, rebalances and what
\* Redis loses.
THEOREM TypeCorrect == Spec => []TypeOK
<1>1. IInv => TypeOK
  BY DEF IInv, Rooms
<1> QED BY <1>1, InvHolds, PTL

\* socket_connections_active counts the accepted open connections of an
\* instance: handleConnection adds one, handleDisconnect takes one back for no
\* other, and a refused client never counted.
THEOREM GaugeCorrect == Spec => []GaugeCountsSockets
<1>1. IInv => GaugeCountsSockets
  BY DEF IInv
<1> QED BY <1>1, InvHolds, PTL

\* Whichever instance handles an event, what emitToUser sends reaches every
\* client that was connected when it was published, or is on its way, or Redis
\* dropped it, or the group jumped over the event.
THEOREM NoPushIsLost == Spec => []NoPushLost
<1>1. IInv => NoPushLost
  BY AccountedMeans DEF IInv, Rooms
<1> QED BY <1>1, InvHolds, PTL

-----------------------------------------------------------------------------
(* The order.                                                              *)

\* One emit of instance n, of a push that is of a topic nobody else brings to it.
LEMMA EmitsOrdered ==
    ASSUME NEW S \in Sockets, NEW Q \in Queues, NEW S2, NEW Q2, NEW n \in Servers, NEW p \in Push,
           Emits(S, Q, S2, Q2, n, p), Ordered(S, Q), NEW M, Holds(M, S, Q), \A m \in M : Before(m, p),
           \A m \in Messages(Q[n]) : m.topic # p.topic,
           \A c \in Clients : SocketOK(S[c])
    PROVE  Ordered(S2, Q2) /\ Holds(M \cup {p}, S2, Q2)
<1>1. ASSUME NEW c \in Clients
      PROVE  /\ Sorted(S2[c].got) /\ Messages(S2[c].got) \subseteq M \cup {p}
             /\ Messages(S2[c].got) = IF Hears(S[c], c, n, p) THEN Messages(S[c].got) \cup {p} ELSE Messages(S[c].got)
  <2>1. SocketAfter(S[c], S2[c], Hears(S[c], c, n, p), p) /\ S[c] \in Socket
    BY EmitsToSocket
  <2>2. PICK g : g = S[c].got
    OBVIOUS
  <2>3. g \in Seq(Push) /\ Sorted(g) /\ Messages(g) \subseteq M
    BY <2>1, <2>2 DEF Socket, Ordered, Holds
  <2>4. Messages(Append(g, p)) = Messages(g) \cup {p}
    BY <2>3, AppendFacts
  <2>5. \A m \in Messages(g) : Before(m, p)
    BY <2>3
  <2>6. Sorted(Append(g, p))
    BY <2>3, <2>5, SortedAppend
  <2> QED BY <2>1, <2>2, <2>3, <2>4, <2>6 DEF SocketAfter
<1>2. ASSUME NEW k \in Servers
      PROVE  /\ Sorted(Q2[k]) /\ Messages(Q2[k]) \subseteq M \cup {p}
             /\ Messages(Q2[k]) = IF k = n THEN Messages(Q[k]) ELSE Messages(Q[k]) \cup {p}
  <2>1. QueueAfter(Q[k], Q2[k], k = n, p) /\ Q[k] \in Seq(Push)
    BY EmitsToQueue
  <2>2. PICK g : g = Q[k]
    OBVIOUS
  <2>3. g \in Seq(Push) /\ Sorted(g) /\ Messages(g) \subseteq M
    BY <2>1, <2>2 DEF Ordered, Holds
  <2>4. Messages(Append(g, p)) = Messages(g) \cup {p}
    BY <2>3, AppendFacts
  <2>5. \A m \in Messages(g) : Before(m, p)
    BY <2>3
  <2>6. Sorted(Append(g, p))
    BY <2>3, <2>5, SortedAppend
  <2> QED BY <2>1, <2>2, <2>3, <2>4, <2>6 DEF QueueAfter
<1>3. ASSUME NEW c \in Clients, S2[c].pc = "open",
             NEW a \in Messages(S2[c].got), NEW b \in Messages(Q2[S2[c].at])
      PROVE  Before(a, b)
  <2>1. SocketAfter(S[c], S2[c], Hears(S[c], c, n, p), p)
    BY EmitsToSocket
  <2>2. S[c].pc = "open" /\ S2[c].at = S[c].at
    BY <1>3, <2>1 DEF SocketAfter
  <2>3. PICK k \in Servers : k = S[c].at
    BY <2>2 DEF SocketOK
  <2>4. b \in Messages(Q2[k])
    BY <1>3, <2>2, <2>3
  <2>5. \A x \in Messages(S[c].got), y \in Messages(Q[k]) : Before(x, y)
    BY <2>2, <2>3 DEF Ordered
  <2>6. \A x \in Messages(S[c].got) : Before(x, p)
    BY DEF Holds
  <2>7. CASE k = n
    <3>1. b \in Messages(Q[k]) /\ b.topic # p.topic
      BY <1>2, <2>4, <2>7
    <3>2. CASE a \in Messages(S[c].got)
      BY <2>5, <3>1, <3>2
    <3>3. CASE a = p
      BY <3>1, <3>3 DEF Before
    <3> QED BY <1>1, <1>3, <3>2, <3>3
  <2>8. CASE k # n
    <3>1. a \in Messages(S[c].got)
      BY <1>1, <1>3, <2>3, <2>8 DEF Hears
    <3>2. b \in Messages(Q[k]) \/ b = p
      BY <1>2, <2>4
    <3> QED BY <2>5, <2>6, <3>1, <3>2
  <2> QED BY <2>7, <2>8
<1>4. Ordered(S2, Q2)
  BY <1>1, <1>2, <1>3 DEF Ordered
<1>5. Holds(M \cup {p}, S2, Q2)
  BY <1>1, <1>2 DEF Holds
<1> QED BY <1>4, <1>5

\* The instances other than n may hear p.
OnlyAdds(Q, Q2, n, p) ==
    /\ Q2[n] = Q[n]
    /\ \A k \in Servers : Messages(Q2[k]) \subseteq Messages(Q[k]) \cup {p}

LEMMA EmissionOrdered ==
    ASSUME TypeOK, NEW S \in Sockets, NEW Q \in Queues, NEW S2, NEW Q2, NEW n \in Servers, NEW t \in UsedTopics,
           NEW i \in 1 .. Len(log[t]), NEW who \in Parties, Emission(S, Q, S2, Q2, n, t, i, who),
           Ordered(S, Q), NEW M, Holds(M, S, Q), \A m \in M : Before(m, PushTo(t, i, who)),
           \A m \in Messages(Q[n]) : m.topic # t,
           \A c \in Clients : SocketOK(S[c])
    PROVE  /\ Ordered(S2, Q2) /\ Holds(M \cup {PushTo(t, i, who)}, S2, Q2)
           /\ OnlyAdds(Q, Q2, n, PushTo(t, i, who))
<1>1. CASE Concerns(t, log[t][i], who)
  <2>p. PICK p : p = PushTo(t, i, who)
    OBVIOUS
  <2>1. p \in Push /\ Emits(S, Q, S2, Q2, n, p) /\ p.topic = t
    BY <1>1, <2>p, PushType DEF Emission, PushTo
  <2>2. (\A m \in M : Before(m, p)) /\ \A m \in Messages(Q[n]) : m.topic # p.topic
    BY <2>p, <2>1
  <2>3. Ordered(S2, Q2) /\ Holds(M \cup {p}, S2, Q2)
    BY <2>1, <2>2, EmitsOrdered
  <2>4. ASSUME NEW k \in Servers
        PROVE  Messages(Q2[k]) \subseteq Messages(Q[k]) \cup {p} /\ (k = n => Q2[k] = Q[k])
    <3>1. QueueAfter(Q[k], Q2[k], k = n, p) /\ Q[k] \in Seq(Push)
      BY <2>1, EmitsToQueue
    <3>2. PICK g : g = Q[k]
      OBVIOUS
    <3>3. Messages(Append(g, p)) = Messages(g) \cup {p}
      BY <2>1, <3>1, <3>2, AppendFacts
    <3> QED BY <3>1, <3>2, <3>3 DEF QueueAfter
  <2>5. OnlyAdds(Q, Q2, n, p)
    BY <2>4 DEF OnlyAdds
  <2> QED BY <2>p, <2>3, <2>5
<1>2. CASE ~Concerns(t, log[t][i], who)
  <2>1. S2 = S /\ Q2 = Q
    BY <1>2 DEF Emission
  <2> QED BY <2>1 DEF Holds, OnlyAdds
<1> QED BY <1>1, <1>2

LEMMA HandleOrdered ==
    ASSUME Rooms, InOrder,
           NEW n \in Servers, NEW h \in UsedTopics, Handle(n, h), moves' = 0
    PROVE  Order'
<1>j. PICK j : j = pos[h] + 1
  OBVIOUS
<1>0. TypeOK /\ SocketsOK
  BY DEF Rooms
<1>1. /\ j \in 1 .. Len(log[h]) /\ owner[h] = n
      /\ \E S, Q : /\ Emission(socket, bus, S, Q, n, h, j, "rider")
                   /\ Emission(S, Q, socket', bus', n, h, j, "driver")
      /\ pos' = [pos EXCEPT ![h] = j]
      /\ UNCHANGED <<log, committed, owner, gauge, lost, moves, drops>>
  BY <1>0, <1>j, HandleFacts
<1>2. PICK S, Q : /\ Emission(socket, bus, S, Q, n, h, j, "rider")
                  /\ Emission(S, Q, socket', bus', n, h, j, "driver")
  BY <1>1
<1>3. socket \in Sockets /\ bus \in Queues /\ "rider" \in Parties /\ "driver" \in Parties
  BY <1>0 DEF TypeOK, Sockets, Queues, Parties
<1>a. j \in 1 .. Len(log[h])
  BY <1>1
<1>4. Ordered(socket, bus) /\ NotFromOthers /\ Holds(Handled, socket, bus)
  BY <1>1 DEF InOrder, Order
<1>p. PICK p : p = PushTo(h, j, "rider")
  OBVIOUS
<1>q. PICK q : q = PushTo(h, j, "driver")
  OBVIOUS
<1>5. /\ p.topic = h /\ p.index = j /\ p.as = "rider"
      /\ q.topic = h /\ q.index = j /\ q.as = "driver"
  BY <1>p, <1>q DEF PushTo
<1>m. PICK M : M = Handled
  OBVIOUS
<1>6. ASSUME NEW m \in M PROVE Before(m, p) /\ Before(m, q)
  <2>1. m.topic = h => m.index < j
    <3>1. m \in Push /\ m.index <= pos[m.topic] /\ pos[h] \in Nat
      BY <1>0, <1>m DEF Handled, TypeOK
    <3>2. m.index \in Nat
      BY <3>1 DEF Push
    <3> QED BY <1>j, <3>1, <3>2
  <2> QED BY <1>5, <2>1 DEF Before
<1>7. \A m \in Messages(bus[n]) : m.topic # h
  BY <1>1, <1>4 DEF NotFromOthers
<1>8. \A c \in Clients : SocketOK(socket[c])
  BY <1>0 DEF SocketsOK
<1>9. Ordered(S, Q) /\ Holds(M \cup {p}, S, Q) /\ OnlyAdds(bus, Q, n, p)
  <2>1. Holds(M, socket, bus) /\ \A m \in M : Before(m, PushTo(h, j, "rider"))
    BY <1>4, <1>6, <1>m, <1>p
  <2>2. /\ Ordered(S, Q) /\ Holds(M \cup {PushTo(h, j, "rider")}, S, Q)
        /\ OnlyAdds(bus, Q, n, PushTo(h, j, "rider"))
    BY <1>0, <1>a, <1>2, <1>3, <1>4, <1>7, <1>8, <2>1, EmissionOrdered
  <2> QED BY <1>p, <2>2
<1>10. S \in Sockets /\ Q \in Queues /\ \A c \in Clients : Keeps(socket[c], S[c])
  BY <1>0, <1>a, <1>2, <1>3, EmissionKeeps
<1>11. ASSUME NEW c \in Clients PROVE SocketOK(S[c])
  <2>1. SocketOK(socket[c]) /\ Keeps(socket[c], S[c])
    BY <1>8, <1>10
  <2> QED BY <2>1 DEF SocketOK, Keeps
<1>12. \A m \in Messages(Q[n]) : m.topic # h
  BY <1>7, <1>9 DEF OnlyAdds
<1>13. \A m \in M \cup {p} : Before(m, q)
  BY <1>5, <1>6 DEF Before
<1>14. Ordered(socket', bus') /\ Holds((M \cup {p}) \cup {q}, socket', bus') /\ OnlyAdds(Q, bus', n, q)
  <2>1. \A m \in M \cup {p} : Before(m, PushTo(h, j, "driver"))
    BY <1>13, <1>q
  <2>n. PICK N : N = M \cup {p}
    OBVIOUS
  <2>h. Holds(N, S, Q) /\ \A m \in N : Before(m, PushTo(h, j, "driver"))
    BY <1>9, <2>1, <2>n
  <2>2. /\ Ordered(socket', bus') /\ Holds(N \cup {PushTo(h, j, "driver")}, socket', bus')
        /\ OnlyAdds(Q, bus', n, PushTo(h, j, "driver"))
    BY <1>0, <1>a, <1>2, <1>3, <1>9, <1>10, <1>11, <1>12, <2>h, EmissionOrdered
  <2> QED BY <1>q, <2>n, <2>2
<1>15. TypeOK'
  BY HandleRooms DEF Rooms
<1>16. ASSUME NEW m \in (M \cup {p}) \cup {q}, m \in Push PROVE m \in Handled'
  <2>1. /\ pos' = [pos EXCEPT ![h] = j] /\ j = pos[h] + 1 /\ pos \in [UsedTopics -> Nat]
    BY <1>0, <1>1, <1>j DEF TypeOK
  <2>2. m.topic \in UsedTopics /\ m.index \in Nat
    BY <1>16 DEF Push
  <2>3. CASE m \in M
    <3>1. m.index <= pos[m.topic]
      BY <1>m, <2>3 DEF Handled
    <3>2. m.index <= pos'[m.topic]
      BY <2>1, <2>2, <3>1
    <3> QED BY <1>16, <3>2 DEF Handled
  <2>4. CASE m = p \/ m = q
    <3>1. m.index <= pos'[m.topic]
      BY <1>5, <2>1, <2>2, <2>4
    <3> QED BY <1>16, <3>1 DEF Handled
  <2> QED BY <1>16, <2>3, <2>4
<1>17. Holds(Handled, socket, bus)'
  <2>1. /\ \A c \in Clients : \A m \in Messages(socket'[c].got) : m \in Push
        /\ \A k \in Servers : \A m \in Messages(bus'[k]) : m \in Push
    BY <1>15 DEF TypeOK, Socket, Messages
  <2>2. /\ \A c \in Clients : \A m \in Messages(socket'[c].got) : m \in (M \cup {p}) \cup {q}
        /\ \A k \in Servers : \A m \in Messages(bus'[k]) : m \in (M \cup {p}) \cup {q}
    BY <1>14 DEF Holds
  <2>3. /\ \A c \in Clients : \A m \in Messages(socket'[c].got) : m \in Handled'
        /\ \A k \in Servers : \A m \in Messages(bus'[k]) : m \in Handled'
    BY <1>16, <2>1, <2>2
  <2> QED BY <2>3 DEF Holds
<1>18. NotFromOthers'
  <2>1. ASSUME NEW t \in UsedTopics, NEW m \in Messages(bus'[owner[t]]) PROVE m.topic # t
    <3>k. PICK k \in Servers : k = owner[t]
      BY <1>0 DEF TypeOK
    <3>1. m \in (Messages(bus[k]) \cup {p}) \cup {q}
      BY <1>9, <1>14, <2>1, <3>k DEF OnlyAdds
    <3>2. CASE t = h
      <4>1. bus'[k] = bus[k]
        BY <1>1, <1>9, <1>14, <3>2, <3>k DEF OnlyAdds
      <4> QED BY <1>4, <2>1, <3>k, <4>1 DEF NotFromOthers
    <3>3. CASE t # h
      BY <1>4, <1>5, <3>1, <3>3, <3>k DEF NotFromOthers
    <3> QED BY <3>2, <3>3
  <2> QED BY <1>1, <2>1 DEF NotFromOthers
<1> QED BY <1>14, <1>17, <1>18 DEF Order

\* Nothing is out of order where nothing new is said.
LEMMA QuietOrdered ==
    ASSUME TypeOK, Order, UNCHANGED <<bus, owner>>, \A t \in UsedTopics : pos'[t] \in Nat /\ pos[t] <= pos'[t],
           \A c \in Clients : socket'[c] = socket[c] \/ socket'[c].got = << >>
    PROVE  Order'
<1>0. Ordered(socket, bus) /\ NotFromOthers /\ Holds(Handled, socket, bus)
  BY DEF Order
<1>e. Messages(<< >>) = {} /\ Sorted(<< >>)
  BY EmptyQueue
<1>1. Ordered(socket, bus)'
  BY <1>0, <1>e DEF Ordered
<1>2. Handled \subseteq Handled'
  <2>1. ASSUME NEW p \in Handled PROVE p \in Handled'
    <3>1. p \in Push /\ p.index <= pos[p.topic] /\ p.index \in Nat /\ p.topic \in UsedTopics
      BY DEF Handled, Push
    <3>2. pos[p.topic] \in Nat /\ pos'[p.topic] \in Nat /\ pos[p.topic] <= pos'[p.topic]
      BY <3>1 DEF TypeOK
    <3>3. p.index <= pos'[p.topic]
      BY <3>1, <3>2
    <3> QED BY <3>1, <3>3 DEF Handled
  <2> QED BY <2>1
<1>3. Holds(Handled, socket, bus)'
  <2>1. PICK M : M = Handled
    OBVIOUS
  <2>2. PICK M2 : M2 = Handled'
    OBVIOUS
  <2>3. M \subseteq M2
    BY <1>2, <2>1, <2>2
  <2>4. Holds(M, socket, bus)
    BY <1>0, <2>1
  <2>5. ASSUME NEW c \in Clients PROVE Messages(socket'[c].got) \subseteq M2
    <3>1. Messages(socket[c].got) \subseteq M2
      BY <2>3, <2>4 DEF Holds
    <3> QED BY <1>e, <3>1
  <2>6. ASSUME NEW n \in Servers PROVE Messages(bus'[n]) \subseteq M2
    BY <2>3, <2>4 DEF Holds
  <2> QED BY <2>2, <2>5, <2>6 DEF Holds
<1>4. NotFromOthers'
  BY <1>0 DEF NotFromOthers
<1> QED BY <1>1, <1>3, <1>4 DEF Order

LEMMA BusLosesOrdered ==
    ASSUME TypeOK, SocketsOK, Order, NEW n \in Servers, BusLoses(n)
    PROVE  Order'
<1>0. Ordered(socket, bus) /\ NotFromOthers /\ Holds(Handled, socket, bus)
  BY DEF Order
<1>1. bus[n] # << >> /\ bus' = [bus EXCEPT ![n] = Tail(@)] /\ UNCHANGED <<pos, owner, socket>>
  BY DEF BusLoses, kafkaVars
<1>2. ASSUME NEW k \in Servers PROVE Messages(bus'[k]) \subseteq Messages(bus[k]) /\ Sorted(bus'[k])
  <2>q. PICK q : q = bus[n]
    OBVIOUS
  <2>1. q \in Seq(Push) /\ q # << >> /\ Sorted(q)
    BY <1>0, <1>1, <2>q DEF TypeOK, Ordered
  <2>2. Messages(Tail(q)) \subseteq Messages(q) /\ Sorted(Tail(q))
    BY <2>1, TailFacts, SortedTail
  <2>3. bus'[k] = IF k = n THEN Tail(q) ELSE bus[k]
    BY <1>1, <2>q DEF TypeOK
  <2> QED BY <1>0, <2>2, <2>3, <2>q DEF Ordered
<1>3. Ordered(socket, bus)'
  <2>1. ASSUME NEW c \in Clients, socket[c].pc = "open",
               NEW a \in Messages(socket[c].got), NEW b \in Messages(bus'[socket[c].at])
        PROVE  Before(a, b)
    <3>1. socket[c].at \in Servers
      BY <2>1 DEF SocketsOK, SocketOK
    <3>2. b \in Messages(bus[socket[c].at])
      BY <1>2, <2>1, <3>1
    <3> QED BY <1>0, <2>1, <3>2 DEF Ordered
  <2> QED BY <1>0, <1>1, <1>2, <2>1 DEF Ordered
<1>4. Holds(Handled, socket, bus)'
  <2>1. Handled' = Handled
    BY <1>1 DEF Handled
  <2> QED BY <1>0, <1>1, <1>2, <2>1 DEF Holds
<1>5. NotFromOthers'
  <2>1. \A t \in UsedTopics : owner[t] \in Servers
    BY DEF TypeOK
  <2> QED BY <1>0, <1>1, <1>2, <2>1 DEF NotFromOthers
<1> QED BY <1>3, <1>4, <1>5 DEF Order

LEMMA BusDeliversOrdered ==
    ASSUME Rooms, Order, NEW n \in Servers, BusDelivers(n)
    PROVE  Order'
<1>0. /\ Ordered(socket, bus) /\ NotFromOthers /\ Holds(Handled, socket, bus)
      /\ TypeOK /\ SocketsOK
  BY DEF Order, Rooms
<1>q. PICK q : q = bus[n]
  OBVIOUS
<1>h. PICK h : h = Head(q)
  OBVIOUS
<1>1. /\ q # << >> /\ bus' = [bus EXCEPT ![n] = Tail(q)]
      /\ socket' = Delivered(socket, n, h) /\ UNCHANGED <<pos, owner>>
  BY <1>q, <1>h DEF BusDelivers, kafkaVars
<1>2. /\ q \in Seq(Push) /\ Sorted(q) /\ h \in Push /\ h \in Messages(q)
      /\ Messages(Tail(q)) \subseteq Messages(q) /\ Sorted(Tail(q))
      /\ \A m \in Messages(Tail(q)) : Before(h, m)
  <2>1. q \in Seq(Push) /\ q # << >> /\ Sorted(q)
    BY <1>0, <1>1, <1>q DEF TypeOK, Ordered
  <2> QED BY <2>1, <1>h, TailFacts, SortedTail
<1>3. ASSUME NEW k \in Servers
      PROVE  bus'[k] = (IF k = n THEN Tail(q) ELSE bus[k]) /\ Messages(bus'[k]) \subseteq Messages(bus[k]) /\ Sorted(bus'[k])
  <2>1. bus'[k] = IF k = n THEN Tail(q) ELSE bus[k]
    BY <1>0, <1>1 DEF TypeOK
  <2> QED BY <1>0, <1>2, <1>q, <2>1 DEF Ordered
<1>4. PICK B : B = BusAfter(bus, n, h)
  OBVIOUS
<1>5. Emits(socket, bus, socket', B, n, h) /\ socket \in Sockets /\ bus \in Queues
  BY <1>0, <1>1, <1>4 DEF Emits, TypeOK, Sockets, Queues
<1>m. PICK M : M = Handled
  OBVIOUS
<1>6. Holds(M, socket, bus) /\ h \in M
  BY <1>0, <1>2, <1>m, <1>q DEF Holds
<1>7. ASSUME NEW c \in Clients
      PROVE  /\ Sorted(socket'[c].got) /\ Messages(socket'[c].got) \subseteq M
             /\ socket'[c].pc = socket[c].pc /\ socket'[c].at = socket[c].at
             /\ Messages(socket'[c].got) = IF Hears(socket[c], c, n, h) THEN Messages(socket[c].got) \cup {h}
                                           ELSE Messages(socket[c].got)
  <2>1. SocketAfter(socket[c], socket'[c], Hears(socket[c], c, n, h), h) /\ socket[c] \in Socket
    BY <1>2, <1>5, EmitsToSocket
  <2>2. PICK g : g = socket[c].got
    OBVIOUS
  <2>3. g \in Seq(Push) /\ Sorted(g) /\ Messages(g) \subseteq M
    BY <1>0, <1>6, <2>1, <2>2 DEF Socket, Ordered, Holds
  <2>4. Messages(Append(g, h)) = Messages(g) \cup {h}
    BY <1>2, <2>3, AppendFacts
  <2>5. Hears(socket[c], c, n, h) => \A m \in Messages(g) : Before(m, h)
    BY <1>0, <1>2, <1>q, <2>2 DEF Ordered, Hears
  <2>6. Hears(socket[c], c, n, h) => Sorted(Append(g, h))
    BY <1>2, <2>3, <2>5, SortedAppend
  <2> QED BY <1>6, <2>1, <2>2, <2>3, <2>4, <2>6 DEF SocketAfter
<1>8. ASSUME NEW c \in Clients, socket'[c].pc = "open",
             NEW a \in Messages(socket'[c].got), NEW b \in Messages(bus'[socket'[c].at])
      PROVE  Before(a, b)
  <2>1. socket[c].pc = "open" /\ socket'[c].at = socket[c].at
    BY <1>7, <1>8
  <2>2. PICK k \in Servers : k = socket[c].at
    BY <1>0, <2>1 DEF SocketsOK, SocketOK
  <2>3. b \in Messages(bus'[k]) /\ b \in Messages(bus[k])
    BY <1>3, <1>8, <2>1, <2>2
  <2>4. CASE a \in Messages(socket[c].got)
    BY <1>0, <2>1, <2>2, <2>3, <2>4 DEF Ordered
  <2>5. CASE a \notin Messages(socket[c].got)
    <3>1. a = h /\ k = n
      BY <1>7, <1>8, <2>2, <2>5 DEF Hears
    <3> QED BY <1>2, <1>3, <2>3, <3>1
  <2> QED BY <2>4, <2>5
<1>9. Ordered(socket, bus)'
  BY <1>3, <1>7, <1>8 DEF Ordered
<1>10. Holds(Handled, socket, bus)'
  <2>1. Handled' = M
    BY <1>1, <1>m DEF Handled
  <2>2. \A k \in Servers : Messages(bus'[k]) \subseteq M
    BY <1>3, <1>6 DEF Holds
  <2>3. Holds(M, socket', bus')
    BY <1>7, <2>2 DEF Holds
  <2> QED BY <2>1, <2>3
<1>11. NotFromOthers'
  <2>1. \A t \in UsedTopics : owner[t] \in Servers
    BY <1>0 DEF TypeOK
  <2> QED BY <1>0, <1>1, <1>3, <2>1 DEF NotFromOthers
<1> QED BY <1>9, <1>10, <1>11 DEF Order

LEMMA NextOrdered == OInv /\ [Next]_vars => OInv'
<1> SUFFICES ASSUME OInv, [Next]_vars PROVE OInv'
  OBVIOUS
<1>0. IInv /\ IInv' /\ InOrder /\ Rooms /\ TypeOK /\ SocketsOK
  BY NextInv DEF OInv, IInv, Rooms
<1>1. ASSUME Order, moves' = 0, UNCHANGED <<bus, owner>>,
             \A t \in UsedTopics : pos'[t] \in Nat /\ pos[t] <= pos'[t],
             \A c \in Clients : socket'[c] = socket[c] \/ socket'[c].got = << >>
      PROVE  Order'
  BY <1>0, <1>1, QuietOrdered
<1>2. \A t \in UsedTopics : pos[t] \in Nat /\ pos[t] <= pos[t]
  BY <1>0 DEF TypeOK
<1> SUFFICES ASSUME moves' = 0 PROVE Order'
  BY <1>0 DEF OInv, InOrder
<1>3. ASSUME NEW c \in Clients, handleDisconnect(c) PROVE Order'
  <2>1. UNCHANGED <<pos, bus, owner, moves>>
    BY <1>3 DEF handleDisconnect, kafkaVars, history
  <2>2. \A d \in Clients : socket'[d] = socket[d] \/ socket'[d].got = << >>
    <3>1. socket'[c] = Closed /\ \A d \in Clients \ {c} : socket'[d] = socket[d]
      BY <1>0, <1>3, DisconnectRooms
    <3> QED BY <3>1 DEF Closed
  <2>3. Order
    BY <1>0, <2>1 DEF InOrder
  <2> QED BY <1>1, <1>2, <2>1, <2>2, <2>3
<1>4. ASSUME NEW c \in Clients, NEW n \in Servers, handleConnection(c, n) PROVE Order'
  <2>1. UNCHANGED <<pos, bus, owner, moves>>
    BY <1>4 DEF handleConnection, kafkaVars, history
  <2>2. \A d \in Clients : socket'[d] = socket[d] \/ socket'[d].got = << >>
    BY <1>0, <1>4, ConnectionRooms
  <2>3. Order
    BY <1>0, <2>1 DEF InOrder
  <2> QED BY <1>1, <1>2, <2>1, <2>2, <2>3
<1>5. ASSUME NEW t \in UsedTopics, NEW n \in Servers, Handle(n, t) PROVE Order'
  BY <1>0, <1>5, HandleOrdered
<1>6. ASSUME NEW h \in UsedTopics, NEW n \in Servers, SkipBad(n, h) PROVE Order'
  <2>1. UNCHANGED <<bus, owner, moves, socket>> /\ pos' = [pos EXCEPT ![h] = @ + 1]
    BY <1>6 DEF SkipBad, history
  <2>2. \A t \in UsedTopics : pos'[t] \in Nat /\ pos[t] <= pos'[t]
    <3>1. pos \in [UsedTopics -> Nat]
      BY <1>0 DEF TypeOK
    <3> QED BY <2>1, <3>1
  <2>3. Order
    BY <1>0, <2>1 DEF InOrder
  <2> QED BY <1>1, <2>1, <2>2, <2>3
<1>7. ASSUME NEW t \in UsedTopics, NEW e \in EventSet, Publish(t, e) PROVE Order'
  <2>1. UNCHANGED <<bus, owner, moves, socket, pos>>
    BY <1>7 DEF Publish, history
  <2>2. Order
    BY <1>0, <2>1 DEF InOrder
  <2> QED BY <1>1, <1>2, <2>1, <2>2
<1>8. ASSUME NEW n \in Servers, BusDelivers(n) PROVE Order'
  <2>1. Order
    BY <1>0, <1>8 DEF InOrder, BusDelivers, history
  <2> QED BY <1>0, <1>8, <2>1, BusDeliversOrdered
<1>9. ASSUME Reassign PROVE FALSE
  BY <1>0, <1>9 DEF Reassign, TypeOK
<1>10. ASSUME Rebalance PROVE Order'
  BY <1>9, <1>10 DEF Rebalance
<1>11. ASSUME NEW n \in Servers, Crash(n) PROVE Order'
  BY <1>9, <1>11 DEF Crash
<1>12. ASSUME NEW n \in Servers, BusLoses(n) PROVE Order'
  <2>1. Order
    BY <1>0, <1>12 DEF InOrder, BusLoses
  <2> QED BY <1>0, <1>12, <2>1, BusLosesOrdered
<1>13. CASE UNCHANGED vars
  <2>1. UNCHANGED <<bus, owner, moves, socket, pos>>
    BY <1>13 DEF vars, kafkaVars
  <2>2. Order
    BY <1>0, <2>1 DEF InOrder
  <2> QED BY <1>1, <1>2, <2>1, <2>2
<1> QED
  BY <1>3, <1>4, <1>5, <1>6, <1>7, <1>8, <1>10, <1>11, <1>12, <1>13 DEF Next, Consumes, Trouble

LEMMA InitOrdered == Init => OInv
<1> SUFFICES ASSUME Init PROVE OInv
  OBVIOUS
<1>1. IInv
  BY InitInv
<1>2. /\ socket = [c \in Clients |-> Closed] /\ bus = [n \in Servers |-> << >>]
      /\ owner \in [UsedTopics -> Servers]
  BY DEF Init
<1>3. Messages(<< >>) = {} /\ Sorted(<< >>) /\ Closed.got = << >> /\ Closed.pc = "closed"
  BY EmptyQueue DEF Closed
<1>4. Ordered(socket, bus)
  BY <1>2, <1>3 DEF Ordered
<1>5. Holds(Handled, socket, bus)
  BY <1>2, <1>3 DEF Holds
<1>6. NotFromOthers
  BY <1>2, <1>3 DEF NotFromOthers
<1> QED BY <1>1, <1>4, <1>5, <1>6 DEF OInv, InOrder, Order

\* While no instance dies and no partition moves, a client hears a topic in the
\* topic's order, although the instance that handles it and the client's own may
\* differ.
THEOREM PushesComeInOrder == Spec => []PushesInOrder
<1>1. OInv => PushesInOrder
  <2> SUFFICES ASSUME OInv, moves = 0, NEW c \in Clients, NEW i \in DOMAIN socket[c].got,
                      NEW j \in DOMAIN socket[c].got, i < j
               PROVE  Before(socket[c].got[i], socket[c].got[j])
    BY DEF PushesInOrder
  <2>1. Sorted(socket[c].got) /\ socket[c].got \in Seq(Push)
    BY DEF OInv, IInv, Rooms, TypeOK, Socket, InOrder, Order, Ordered
  <2> QED BY <2>1 DEF Sorted
<1> QED BY <1>1, InitOrdered, NextOrdered, PTL DEF Spec

-----------------------------------------------------------------------------
(* The copies.                                                             *)

LEMMA EmitsWithin ==
    ASSUME NEW S \in Sockets, NEW Q \in Queues, NEW S2, NEW Q2, NEW n \in Servers, NEW m \in Push,
           Emits(S, Q, S2, Q2, n, m), NEW p, NEW b \in Nat, Within(S, Q, p, b),
           \A c \in Clients : SocketOK(S[c])
    PROVE  Within(S2, Q2, p, b + (IF m = p THEN 1 ELSE 0))
<1>o. PICK o : o = IF m = p THEN 1 ELSE 0
  OBVIOUS
<1>1. ASSUME NEW k \in Servers
      PROVE  /\ Copies(Q[k], p) \in Nat /\ Copies(Q[k], p) <= b
             /\ Copies(Q2[k], p) = IF k = n THEN Copies(Q[k], p) ELSE Copies(Q[k], p) + o
  <2>1. QueueAfter(Q[k], Q2[k], k = n, m) /\ Q[k] \in Seq(Push)
    BY EmitsToQueue
  <2>q. PICK q : q = Q[k]
    OBVIOUS
  <2>2. Copies(q, p) \in Nat /\ Copies(Append(q, m), p) = Copies(q, p) + o
    BY <1>o, <2>1, <2>q, CopiesType, CopiesAppend
  <2> QED BY <2>1, <2>q, <2>2 DEF QueueAfter, Within
<1>2. ASSUME NEW c \in Clients
      PROVE  /\ S2[c].pc = S[c].pc /\ S2[c].at = S[c].at /\ Copies(S[c].got, p) \in Nat
             /\ Copies(S2[c].got, p) = IF Hears(S[c], c, n, m) THEN Copies(S[c].got, p) + o ELSE Copies(S[c].got, p)
  <2>1. SocketAfter(S[c], S2[c], Hears(S[c], c, n, m), m) /\ S[c] \in Socket
    BY EmitsToSocket
  <2>g. PICK g : g = S[c].got
    OBVIOUS
  <2>2. g \in Seq(Push)
    BY <2>1, <2>g DEF Socket
  <2>3. Copies(g, p) \in Nat /\ Copies(Append(g, m), p) = Copies(g, p) + o
    BY <1>o, <2>2, CopiesType, CopiesAppend
  <2> QED BY <2>1, <2>g, <2>3 DEF SocketAfter
<1>3. o \in {0, 1}
  BY <1>o
<1>4. ASSUME NEW c \in Clients, S2[c].pc = "open"
      PROVE  Copies(S2[c].got, p) + Copies(Q2[S2[c].at], p) <= b + o
  <2>1. S[c].pc = "open" /\ S2[c].at = S[c].at
    BY <1>2, <1>4
  <2>2. PICK k \in Servers : k = S[c].at
    BY <2>1 DEF SocketOK
  <2>3. Copies(S[c].got, p) + Copies(Q[k], p) <= b
    BY <2>1, <2>2 DEF Within
  <2>4. Copies(S2[c].got, p) + Copies(Q2[k], p) <= b + o
    <3>1. CASE k = n
      BY <1>1, <1>2, <1>3, <2>3, <3>1
    <3>2. CASE k # n
      <4>1. ~Hears(S[c], c, n, m)
        BY <2>2, <3>2 DEF Hears
      <4> QED BY <1>1, <1>2, <1>3, <2>3, <3>2, <4>1
    <3> QED BY <3>1, <3>2
  <2> QED BY <2>1, <2>2, <2>4
<1>5. \A k \in Servers : Copies(Q2[k], p) <= b + o
  BY <1>1, <1>3
<1> QED BY <1>o, <1>4, <1>5 DEF Within

LEMMA WithinMore ==
    ASSUME NEW S \in Sockets, NEW Q \in Queues, NEW p, NEW b \in Nat, NEW b2 \in Nat, b <= b2,
           Within(S, Q, p, b), \A c \in Clients : SocketOK(S[c])
    PROVE  Within(S, Q, p, b2)
<1>1. ASSUME NEW k \in Servers PROVE Copies(Q[k], p) \in Nat
  BY CopiesType DEF Queues
<1>2. ASSUME NEW c \in Clients PROVE Copies(S[c].got, p) \in Nat
  BY CopiesType DEF Sockets, Socket
<1>3. ASSUME NEW k \in Servers PROVE Copies(Q[k], p) <= b2
  <2>1. Copies(Q[k], p) <= b
    BY DEF Within
  <2> QED BY <1>1, <2>1
<1>4. ASSUME NEW c \in Clients, S[c].pc = "open"
      PROVE  Copies(S[c].got, p) + Copies(Q[S[c].at], p) <= b2
  <2>1. Copies(S[c].got, p) + Copies(Q[S[c].at], p) <= b
    BY <1>4 DEF Within
  <2>2. S[c].at \in Servers
    BY <1>4 DEF SocketOK
  <2> QED BY <1>1, <1>2, <2>1, <2>2
<1> QED BY <1>3, <1>4 DEF Within

LEMMA EmissionWithin ==
    ASSUME TypeOK, NEW S \in Sockets, NEW Q \in Queues, NEW S2, NEW Q2, NEW n \in Servers, NEW t \in UsedTopics,
           NEW i \in 1 .. Len(log[t]), NEW who \in Parties, Emission(S, Q, S2, Q2, n, t, i, who),
           NEW p, NEW b \in Nat, Within(S, Q, p, b), \A c \in Clients : SocketOK(S[c])
    PROVE  /\ Within(S2, Q2, p, b + 1)
           /\ PushTo(t, i, who) # p => Within(S2, Q2, p, b)
<1>1. CASE Concerns(t, log[t][i], who)
  <2>p. PICK m : m = PushTo(t, i, who)
    OBVIOUS
  <2>1. m \in Push /\ Emits(S, Q, S2, Q2, n, m)
    BY <1>1, <2>p, PushType DEF Emission
  <2>2. Within(S2, Q2, p, b + (IF m = p THEN 1 ELSE 0))
    BY <2>1, EmitsWithin
  <2>3. CASE m = p
    BY <2>p, <2>2, <2>3
  <2>4. CASE m # p
    <3>1. b + 0 = b /\ b + 1 \in Nat /\ b <= b + 1
      OBVIOUS
    <3>2. Within(S2, Q2, p, b)
      BY <2>2, <2>4, <3>1
    <3>3. S2 \in Sockets /\ Q2 \in Queues
      BY <2>1, EmitsType
    <3>4. ASSUME NEW c \in Clients PROVE SocketOK(S2[c])
      <4>1. SocketAfter(S[c], S2[c], Hears(S[c], c, n, m), m) /\ SocketOK(S[c])
        BY <2>1, EmitsToSocket
      <4> QED BY <4>1 DEF SocketAfter, SocketOK, Hears
    <3>5. Within(S2, Q2, p, b + 1)
      BY <3>1, <3>2, <3>3, <3>4, WithinMore
    <3> QED BY <3>2, <3>5
  <2> QED BY <2>3, <2>4
<1>2. CASE ~Concerns(t, log[t][i], who)
  <2>1. S2 = S /\ Q2 = Q
    BY <1>2 DEF Emission
  <2>2. b + 1 \in Nat /\ b <= b + 1
    OBVIOUS
  <2>3. Within(S, Q, p, b + 1)
    BY <2>2, WithinMore
  <2> QED BY <2>1, <2>3
<1> QED BY <1>1, <1>2

LEMMA AllowedType == TypeOK => \A p \in Push : Allowed(p) \in Nat
<1> SUFFICES ASSUME TypeOK, NEW p \in Push PROVE Allowed(p) \in Nat
  OBVIOUS
<1>1. moves \in Nat
  BY DEF TypeOK
<1> QED BY <1>1 DEF Allowed

LEMMA HandleWithin ==
    ASSUME Rooms, CopiesPaid, NEW n \in Servers, NEW h \in UsedTopics, Handle(n, h)
    PROVE  CopiesPaid'
<1>j. PICK j : j = pos[h] + 1
  OBVIOUS
<1>0. TypeOK /\ SocketsOK
  BY DEF Rooms
<1>1. /\ j \in 1 .. Len(log[h])
      /\ \E S, Q : /\ Emission(socket, bus, S, Q, n, h, j, "rider")
                   /\ Emission(S, Q, socket', bus', n, h, j, "driver")
      /\ pos' = [pos EXCEPT ![h] = j] /\ moves' = moves
  BY <1>0, <1>j, HandleFacts
<1>2. PICK S, Q : /\ Emission(socket, bus, S, Q, n, h, j, "rider")
                  /\ Emission(S, Q, socket', bus', n, h, j, "driver")
  BY <1>1
<1>3. socket \in Sockets /\ bus \in Queues /\ "rider" \in Parties /\ "driver" \in Parties
  BY <1>0 DEF TypeOK, Sockets, Queues, Parties
<1>a. j \in 1 .. Len(log[h])
  BY <1>1
<1>4. S \in Sockets /\ Q \in Queues /\ \A c \in Clients : Keeps(socket[c], S[c])
  BY <1>0, <1>a, <1>2, <1>3, EmissionKeeps
<1>5. \A c \in Clients : SocketOK(socket[c])
  BY <1>0 DEF SocketsOK
<1>6. ASSUME NEW c \in Clients PROVE SocketOK(S[c])
  <2>1. SocketOK(socket[c]) /\ Keeps(socket[c], S[c])
    BY <1>4, <1>5
  <2> QED BY <2>1 DEF SocketOK, Keeps
<1>7. ASSUME NEW p \in Push PROVE Within(socket', bus', p, Allowed(p)')
  <2>b. PICK b \in Nat : b = Allowed(p)
    BY <1>0, AllowedType
  <2>1. Within(socket, bus, p, b)
    BY <2>b DEF CopiesPaid
  <2>r. PICK r : r = PushTo(h, j, "rider")
    OBVIOUS
  <2>d. PICK d : d = PushTo(h, j, "driver")
    OBVIOUS
  <2>2. Within(S, Q, p, b + 1) /\ (PushTo(h, j, "rider") # p => Within(S, Q, p, b))
    BY <1>0, <1>a, <1>2, <1>3, <1>5, <2>1, EmissionWithin
  <2>e. ASSUME NEW x \in Nat, Within(S, Q, p, x)
        PROVE  /\ Within(socket', bus', p, x + 1)
               /\ PushTo(h, j, "driver") # p => Within(socket', bus', p, x)
    BY <1>0, <1>a, <1>2, <1>3, <1>4, <1>6, <2>e, EmissionWithin
  <2>3. /\ r.topic = h /\ r.index = j /\ r.as = "rider"
        /\ d.topic = h /\ d.index = j /\ d.as = "driver"
    BY <2>r, <2>d DEF PushTo
  <2>4. /\ p.topic \in UsedTopics /\ p.index \in Nat
        /\ moves \in Nat /\ pos \in [UsedTopics -> Nat]
        /\ b = moves + (IF p.index > pos[p.topic] THEN 0 ELSE 1)
        /\ Allowed(p)' = moves + (IF p.index > pos'[p.topic] THEN 0 ELSE 1)
    BY <1>0, <1>1, <2>b DEF Push, Allowed, TypeOK
  <2>5. CASE p.topic = h /\ p.index = j
    <3>1. Allowed(p)' = b + 1
      BY <1>1, <1>j, <2>4, <2>5
    <3>2. CASE p = r
      <4>1. PushTo(h, j, "driver") # p /\ b + 1 \in Nat
        BY <2>3, <2>d, <3>2
      <4>2. Within(socket', bus', p, b + 1)
        BY <2>2, <2>e, <4>1
      <4> QED BY <3>1, <4>2
    <3>3. CASE p # r
      <4>1. Within(S, Q, p, b)
        BY <2>2, <2>r, <3>3
      <4>2. Within(socket', bus', p, b + 1)
        BY <2>e, <4>1
      <4> QED BY <3>1, <4>2
    <3> QED BY <3>2, <3>3
  <2>6. CASE ~(p.topic = h /\ p.index = j)
    <3>1. Allowed(p)' = b
      BY <1>1, <1>j, <2>4, <2>6
    <3>2. PushTo(h, j, "rider") # p /\ PushTo(h, j, "driver") # p
      BY <2>3, <2>6, <2>r, <2>d
    <3>3. Within(S, Q, p, b)
      BY <2>2, <3>2
    <3>4. Within(socket', bus', p, b)
      BY <2>e, <3>2, <3>3
    <3> QED BY <3>1, <3>4
  <2> QED BY <2>5, <2>6
<1> QED BY <1>7 DEF CopiesPaid

\* Where nothing new is said, nobody has more copies.
LEMMA QuietWithin ==
    ASSUME TypeOK, SocketsOK, SocketsOK', bus' \in Queues, NEW p, NEW b \in Nat, NEW b2 \in Nat, b <= b2,
           Within(socket, bus, p, b),
           \A k \in Servers : Copies(bus'[k], p) <= Copies(bus[k], p),
           \A c \in Clients : socket'[c] = socket[c] \/ socket'[c].got = << >>
    PROVE  Within(socket', bus', p, b2)
<1>1. ASSUME NEW k \in Servers
      PROVE  /\ Copies(bus[k], p) \in Nat /\ Copies(bus[k], p) <= b
             /\ Copies(bus'[k], p) \in Nat /\ Copies(bus'[k], p) <= Copies(bus[k], p)
  <2>1. bus[k] \in Seq(Push) /\ bus'[k] \in Seq(Push)
    BY DEF TypeOK, Queues
  <2> QED BY <2>1, CopiesType DEF Within
<1>2. ASSUME NEW c \in Clients PROVE Copies(socket[c].got, p) \in Nat
  <2>1. socket[c].got \in Seq(Push)
    BY DEF TypeOK, Socket
  <2> QED BY <2>1, CopiesType
<1>3. ASSUME NEW c \in Clients, socket'[c].pc = "open"
      PROVE  Copies(socket'[c].got, p) + Copies(bus'[socket'[c].at], p) <= b2
  <2>k. PICK k \in Servers : k = socket'[c].at
    BY <1>3 DEF SocketsOK, SocketOK
  <2>1. CASE socket'[c] = socket[c]
    <3>1. Copies(socket[c].got, p) + Copies(bus[k], p) <= b
      BY <1>3, <2>k, <2>1 DEF Within
    <3>2. Copies(socket[c].got, p) + Copies(bus'[k], p) <= b2
      BY <1>1, <1>2, <3>1
    <3> QED BY <2>k, <2>1, <3>2
  <2>2. CASE socket'[c].got = << >>
    <3>1. Copies(<< >>, p) = 0
      BY EmptyQueue
    <3>2. 0 + Copies(bus'[k], p) <= b2
      BY <1>1
    <3> QED BY <2>k, <2>2, <3>1, <3>2
  <2> QED BY <2>1, <2>2
<1>4. \A k \in Servers : Copies(bus'[k], p) <= b2
  BY <1>1
<1> QED BY <1>3, <1>4 DEF Within

\* Trouble allows one copy more, and no step takes one back.
LEMMA AllowedGrows ==
    ASSUME TypeOK, TypeOK', NEW p \in Push,
           \/ moves' = moves /\ pos[p.topic] <= pos'[p.topic]
           \/ moves' = moves + 1
    PROVE  Allowed(p) \in Nat /\ Allowed(p)' \in Nat /\ Allowed(p) <= Allowed(p)'
<1>1. /\ moves \in Nat /\ p.index \in Nat /\ pos[p.topic] \in Nat /\ pos'[p.topic] \in Nat
      /\ Allowed(p) = moves + (IF p.index > pos[p.topic] THEN 0 ELSE 1)
      /\ Allowed(p)' = moves' + (IF p.index > pos'[p.topic] THEN 0 ELSE 1)
  BY DEF TypeOK, Push, Allowed
<1> QED BY <1>1

LEMMA QuietPaid ==
    ASSUME Rooms, Rooms', CopiesPaid,
           \/ moves' = moves /\ \A t \in UsedTopics : pos[t] <= pos'[t]
           \/ moves' = moves + 1,
           \A k \in Servers, p \in Push : Copies(bus'[k], p) <= Copies(bus[k], p),
           \A c \in Clients : socket'[c] = socket[c] \/ socket'[c].got = << >>
    PROVE  CopiesPaid'
<1>1. TypeOK /\ SocketsOK /\ TypeOK' /\ SocketsOK' /\ bus' \in Queues
  BY DEF Rooms, TypeOK, Queues
<1>2. ASSUME NEW p \in Push PROVE Within(socket', bus', p, Allowed(p)')
  <2>1. p.topic \in UsedTopics
    BY DEF Push
  <2>b. PICK b : b = Allowed(p)
    OBVIOUS
  <2>d. PICK b2 : b2 = Allowed(p)'
    OBVIOUS
  <2>2. b \in Nat /\ b2 \in Nat /\ b <= b2
    BY <1>1, <2>1, <2>b, <2>d, AllowedGrows
  <2>3. Within(socket, bus, p, b)
    BY <2>b DEF CopiesPaid
  <2>4. Within(socket', bus', p, b2)
    BY <1>1, <2>2, <2>3, QuietWithin
  <2> QED BY <2>d, <2>4
<1> QED BY <1>2 DEF CopiesPaid

LEMMA BusDeliversPaid ==
    ASSUME Rooms, CopiesPaid, NEW n \in Servers, BusDelivers(n)
    PROVE  CopiesPaid'
<1>0. TypeOK /\ SocketsOK
  BY DEF Rooms
<1>q. PICK q : q = bus[n]
  OBVIOUS
<1>h. PICK h : h = Head(q)
  OBVIOUS
<1>1. /\ q # << >> /\ bus' = [bus EXCEPT ![n] = Tail(q)]
      /\ socket' = Delivered(socket, n, h) /\ UNCHANGED <<pos, moves>>
  BY <1>q, <1>h DEF BusDelivers, kafkaVars, history
<1>2. q \in Seq(Push) /\ Tail(q) \in Seq(Push) /\ h \in Push
  <2>1. q \in Seq(Push) /\ q # << >>
    BY <1>0, <1>1, <1>q DEF TypeOK
  <2> QED BY <2>1, <1>h, TailFacts
<1>4. PICK B : B = BusAfter(bus, n, h)
  OBVIOUS
<1>5. Emits(socket, bus, socket', B, n, h) /\ socket \in Sockets /\ bus \in Queues
  BY <1>0, <1>1, <1>4 DEF Emits, TypeOK, Sockets, Queues
<1>6. ASSUME NEW p \in Push PROVE Within(socket', bus', p, Allowed(p)')
  <2>b. PICK b \in Nat : b = Allowed(p)
    BY <1>0, AllowedType
  <2>1. Within(socket, bus, p, b) /\ Allowed(p)' = b
    BY <1>1, <2>b DEF CopiesPaid, Allowed
  <2>o. PICK o : o = IF h = p THEN 1 ELSE 0
    OBVIOUS
  <2>2. ASSUME NEW k \in Servers
        PROVE  /\ Copies(bus[k], p) \in Nat /\ Copies(bus[k], p) <= b /\ Copies(bus'[k], p) \in Nat
               /\ IF k = n THEN Copies(bus'[k], p) + o <= Copies(bus[k], p) ELSE Copies(bus'[k], p) = Copies(bus[k], p)
    <3>1. bus'[k] = IF k = n THEN Tail(q) ELSE bus[k]
      BY <1>0, <1>1 DEF TypeOK
    <3>k. PICK g : g = bus[k]
      OBVIOUS
    <3>2. g \in Seq(Push)
      BY <1>0, <3>k DEF TypeOK
    <3>3. Copies(g, p) \in Nat /\ Copies(Tail(q), p) \in Nat
      BY <1>2, <3>2, CopiesType
    <3>4. Copies(Tail(q), p) + o <= Copies(q, p)
      BY <1>1, <1>2, <1>h, <2>o, CopiesTail
    <3>5. Copies(g, p) <= b
      BY <2>1, <3>k DEF Within
    <3> QED BY <1>q, <3>1, <3>k, <3>3, <3>4, <3>5
  <2>3. ASSUME NEW c \in Clients
        PROVE  /\ socket'[c].pc = socket[c].pc /\ socket'[c].at = socket[c].at /\ Copies(socket[c].got, p) \in Nat
               /\ Copies(socket'[c].got, p) = IF Hears(socket[c], c, n, h) THEN Copies(socket[c].got, p) + o
                                              ELSE Copies(socket[c].got, p)
    <3>1. SocketAfter(socket[c], socket'[c], Hears(socket[c], c, n, h), h) /\ socket[c] \in Socket
      BY <1>2, <1>5, EmitsToSocket
    <3>g. PICK g : g = socket[c].got
      OBVIOUS
    <3>2. g \in Seq(Push)
      BY <3>1, <3>g DEF Socket
    <3>3. Copies(g, p) \in Nat /\ Copies(Append(g, h), p) = Copies(g, p) + o
      BY <1>2, <2>o, <3>2, CopiesType, CopiesAppend
    <3> QED BY <3>1, <3>g, <3>3 DEF SocketAfter
  <2>4. o \in {0, 1}
    BY <2>o
  <2>5. ASSUME NEW c \in Clients, socket'[c].pc = "open"
        PROVE  Copies(socket'[c].got, p) + Copies(bus'[socket'[c].at], p) <= b
    <3>1. socket[c].pc = "open" /\ socket'[c].at = socket[c].at
      BY <2>3, <2>5
    <3>k. PICK k \in Servers : k = socket[c].at
      BY <1>0, <3>1 DEF SocketsOK, SocketOK
    <3>2. Copies(socket[c].got, p) + Copies(bus[k], p) <= b
      BY <2>1, <3>1, <3>k DEF Within
    <3>3. Copies(socket'[c].got, p) + Copies(bus'[k], p) <= b
      <4>1. CASE k = n
        BY <2>2, <2>3, <2>4, <3>2, <4>1
      <4>2. CASE k # n
        <5>1. ~Hears(socket[c], c, n, h)
          BY <3>k, <4>2 DEF Hears
        <5> QED BY <2>2, <2>3, <3>2, <4>2, <5>1
      <4> QED BY <4>1, <4>2
    <3> QED BY <3>1, <3>k, <3>3
  <2>6. \A k \in Servers : Copies(bus'[k], p) <= b
    BY <2>2, <2>4
  <2> QED BY <2>1, <2>5, <2>6 DEF Within
<1> QED BY <1>6 DEF CopiesPaid

LEMMA InitPaid == Init => CInv
<1> SUFFICES ASSUME Init PROVE CInv
  OBVIOUS
<1>1. IInv /\ TypeOK
  BY InitInv DEF IInv, Rooms
<1>2. ASSUME NEW p \in Push PROVE Within(socket, bus, p, Allowed(p))
  <2>b. PICK b \in Nat : b = Allowed(p)
    BY <1>1, AllowedType
  <2>1. \A n \in Servers : Copies(bus[n], p) = 0
    BY EmptyQueue DEF Init
  <2>2. \A c \in Clients : socket[c].pc # "open"
    BY DEF Init, Closed
  <2>3. Within(socket, bus, p, b)
    BY <2>1, <2>2 DEF Within
  <2> QED BY <2>b, <2>3
<1> QED BY <1>1, <1>2 DEF CInv, CopiesPaid

LEMMA NextPaid == CInv /\ [Next]_vars => CInv'
<1> SUFFICES ASSUME CInv, [Next]_vars PROVE CInv'
  OBVIOUS
<1>0. IInv' /\ CopiesPaid /\ Rooms /\ Rooms' /\ TypeOK /\ TypeOK' /\ SocketsOK
  BY NextInv DEF CInv, IInv, Rooms
<1> SUFFICES CopiesPaid'
  BY <1>0 DEF CInv
<1>1. ASSUME \/ moves' = moves /\ \A t \in UsedTopics : pos[t] <= pos'[t]
             \/ moves' = moves + 1,
             \A k \in Servers, p \in Push : Copies(bus'[k], p) <= Copies(bus[k], p),
             \A c \in Clients : socket'[c] = socket[c] \/ socket'[c].got = << >>
      PROVE  CopiesPaid'
  BY <1>0, <1>1, QuietPaid
<1>2. \A t \in UsedTopics : pos[t] \in Nat /\ pos[t] <= pos[t]
  BY <1>0 DEF TypeOK
<1>3. \A k \in Servers, p \in Push : Copies(bus[k], p) \in Nat /\ Copies(bus[k], p) <= Copies(bus[k], p)
  <2>1. ASSUME NEW k \in Servers, NEW p \in Push PROVE Copies(bus[k], p) \in Nat
    <3>1. bus[k] \in Seq(Push)
      BY <1>0 DEF TypeOK
    <3> QED BY <3>1, CopiesType
  <2> QED BY <2>1
<1>4. ASSUME NEW c \in Clients, handleDisconnect(c) PROVE CopiesPaid'
  <2>1. UNCHANGED <<pos, bus, moves>>
    BY <1>4 DEF handleDisconnect, kafkaVars, history
  <2>2. \A d \in Clients : socket'[d] = socket[d] \/ socket'[d].got = << >>
    <3>1. socket'[c] = Closed /\ \A d \in Clients \ {c} : socket'[d] = socket[d]
      BY <1>0, <1>4, DisconnectRooms
    <3> QED BY <3>1 DEF Closed
  <2> QED BY <1>1, <1>2, <1>3, <2>1, <2>2
<1>5. ASSUME NEW c \in Clients, NEW n \in Servers, handleConnection(c, n) PROVE CopiesPaid'
  <2>1. UNCHANGED <<pos, bus, moves>>
    BY <1>5 DEF handleConnection, kafkaVars, history
  <2>2. \A d \in Clients : socket'[d] = socket[d] \/ socket'[d].got = << >>
    BY <1>0, <1>5, ConnectionRooms
  <2> QED BY <1>1, <1>2, <1>3, <2>1, <2>2
<1>6. ASSUME NEW t \in UsedTopics, NEW n \in Servers, Handle(n, t) PROVE CopiesPaid'
  BY <1>0, <1>6, HandleWithin
<1>7. ASSUME NEW h \in UsedTopics, NEW n \in Servers, SkipBad(n, h) PROVE CopiesPaid'
  <2>1. UNCHANGED <<bus, moves, socket>> /\ pos' = [pos EXCEPT ![h] = @ + 1]
    BY <1>7 DEF SkipBad, history
  <2>2. \A t \in UsedTopics : pos[t] <= pos'[t]
    <3>1. pos \in [UsedTopics -> Nat]
      BY <1>0 DEF TypeOK
    <3> QED BY <2>1, <3>1
  <2> QED BY <1>1, <1>3, <2>1, <2>2
<1>8. ASSUME NEW t \in UsedTopics, NEW e \in EventSet, Publish(t, e) PROVE CopiesPaid'
  <2>1. UNCHANGED <<bus, moves, socket, pos>>
    BY <1>8 DEF Publish, history
  <2> QED BY <1>1, <1>2, <1>3, <2>1
<1>9. ASSUME NEW n \in Servers, BusDelivers(n) PROVE CopiesPaid'
  BY <1>0, <1>9, BusDeliversPaid
<1>10. ASSUME Rebalance PROVE CopiesPaid'
  <2>1. UNCHANGED <<bus, socket>> /\ moves' = moves + 1
    BY <1>10 DEF Rebalance, Reassign
  <2> QED BY <1>1, <1>3, <2>1
<1>11. ASSUME NEW n \in Servers, Crash(n) PROVE CopiesPaid'
  <2>1. bus' = [bus EXCEPT ![n] = << >>] /\ moves' = moves + 1
    BY <1>11 DEF Crash, Reassign
  <2>2. \A c \in Clients : socket'[c] = socket[c] \/ socket'[c].got = << >>
    <3>1. \A c \in Clients : socket'[c] = IF socket[c].at = n THEN Closed ELSE socket[c]
      BY <1>0, <1>11, CrashRooms
    <3> QED BY <3>1 DEF Closed
  <2>3. \A k \in Servers, p \in Push : Copies(bus'[k], p) <= Copies(bus[k], p)
    <3>1. \A p : Copies(<< >>, p) = 0
      BY EmptyQueue
    <3>2. \A k \in Servers : bus'[k] = IF k = n THEN << >> ELSE bus[k]
      BY <1>0, <2>1 DEF TypeOK
    <3> QED BY <1>3, <3>1, <3>2
  <2> QED BY <1>1, <2>1, <2>2, <2>3
<1>12. ASSUME NEW n \in Servers, BusLoses(n) PROVE CopiesPaid'
  <2>q. PICK q : q = bus[n]
    OBVIOUS
  <2>1. UNCHANGED <<pos, moves, socket>> /\ q # << >> /\ bus' = [bus EXCEPT ![n] = Tail(q)]
    BY <1>12, <2>q DEF BusLoses, kafkaVars
  <2>2. \A k \in Servers, p \in Push : Copies(bus'[k], p) <= Copies(bus[k], p)
    <3>1. q \in Seq(Push) /\ Tail(q) \in Seq(Push)
      BY <1>0, <2>1, <2>q, TailFacts DEF TypeOK
    <3>2. ASSUME NEW p \in Push PROVE Copies(Tail(q), p) <= Copies(q, p)
      <4>1. Copies(Tail(q), p) + (IF Head(q) = p THEN 1 ELSE 0) <= Copies(q, p)
        BY <2>1, <3>1, CopiesTail
      <4>2. Copies(Tail(q), p) \in Nat /\ Copies(q, p) \in Nat
        BY <3>1, CopiesType
      <4> QED BY <4>1, <4>2
    <3>3. \A k \in Servers : bus'[k] = IF k = n THEN Tail(q) ELSE bus[k]
      BY <1>0, <2>1 DEF TypeOK
    <3> QED BY <1>3, <2>q, <3>2, <3>3
  <2> QED BY <1>1, <1>2, <2>1, <2>2
<1>13. CASE UNCHANGED vars
  <2>1. UNCHANGED <<bus, moves, socket, pos>>
    BY <1>13 DEF vars, kafkaVars
  <2> QED BY <1>1, <1>2, <1>3, <2>1
<1> QED
  BY <1>4, <1>5, <1>6, <1>7, <1>8, <1>9, <1>10, <1>11, <1>12, <1>13 DEF Next, Consumes, Trouble

\* A client that hears of an event more often than once has crashes or
\* rebalances to thank for it, one for each copy too many.
THEOREM CopiesArePaid == Spec => []CopiesCostMoves
<1>1. CInv => CopiesCostMoves
  <2> SUFFICES ASSUME CInv, NEW c \in Clients, NEW p \in Messages(socket[c].got)
               PROVE  Copies(socket[c].got, p) <= 1 + moves
    BY DEF CopiesCostMoves
  <2>0. TypeOK /\ SocketsOK /\ CopiesPaid
    BY DEF CInv, IInv, Rooms
  <2>1. socket[c].got \in Seq(Push) /\ moves \in Nat
    BY <2>0 DEF TypeOK, Socket
  <2>2. p \in Push
    BY <2>1 DEF Messages
  <2>3. socket[c].pc = "open"
    <3>1. socket[c].got # << >>
      BY EmptyQueue
    <3> QED BY <2>0, <3>1 DEF SocketsOK, SocketOK
  <2>k. PICK k \in Servers : k = socket[c].at
    BY <2>0, <2>3 DEF SocketsOK, SocketOK
  <2>4. Copies(socket[c].got, p) + Copies(bus[k], p) <= Allowed(p)
    BY <2>0, <2>2, <2>3, <2>k DEF CopiesPaid, Within
  <2>5. Allowed(p) <= 1 + moves /\ Allowed(p) \in Nat
    BY <2>0, <2>1, <2>2, AllowedType DEF Allowed
  <2>6. Copies(socket[c].got, p) \in Nat /\ Copies(bus[k], p) \in Nat
    <3>1. bus[k] \in Seq(Push)
      BY <2>0 DEF TypeOK
    <3> QED BY <2>1, <3>1, CopiesType
  <2> QED BY <2>1, <2>4, <2>5, <2>6
<1> QED BY <1>1, InitPaid, NextPaid, PTL DEF Spec
=============================================================================
