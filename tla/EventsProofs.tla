---------------------------- MODULE EventsProofs ----------------------------
(***************************************************************************)
(* Facts about topics and offsets that the proofs about the services share. *)
(***************************************************************************)
EXTENDS Events, TLAPS

\* An event behind the others.
LEMMA AppendFacts ==
    ASSUME NEW S, NEW q \in Seq(S), NEW m \in S
    PROVE  /\ Append(q, m) \in Seq(S)
           /\ Len(q) \in Nat /\ Len(Append(q, m)) = Len(q) + 1
           /\ \A i \in 1 .. Len(q) : Append(q, m)[i] = q[i]
           /\ Append(q, m)[Len(q) + 1] = m
           /\ Messages(Append(q, m)) = Messages(q) \cup {m}
<1>1. Len(q) \in Nat /\ Len(Append(q, m)) = Len(q) + 1 /\ Append(q, m) \in Seq(S)
  OBVIOUS
<1>2. \A i \in 1 .. Len(q) : Append(q, m)[i] = q[i]
  OBVIOUS
<1>3. Append(q, m)[Len(q) + 1] = m
  OBVIOUS
<1>4. Messages(Append(q, m)) = Messages(q) \cup {m}
  <2>1. 1 .. Len(Append(q, m)) = 1 .. Len(q) \cup {Len(q) + 1}
    BY <1>1
  <2> QED BY <1>2, <1>3, <2>1 DEF Messages
<1> QED BY <1>1, <1>2, <1>3, <1>4

LEMMA MessagesType ==
    ASSUME NEW S, NEW q \in Seq(S)
    PROVE  Messages(q) \subseteq S
  BY DEF Messages

\* What the handler gets is a message of the topic.
LEMMA NextIsMessage ==
    ASSUME NEW S, NEW q \in Seq(S), NEW n \in Nat, HasNext(q, n)
    PROVE  /\ NextMessage(q, n) \in S /\ NextMessage(q, n) \in Messages(q)
           /\ n + 1 \in 1 .. Len(q)
<1>1. Len(q) \in Nat /\ n + 1 \in 1 .. Len(q)
  BY DEF HasNext
<1>2. q[n + 1] \in S
  BY <1>1
<1> QED BY <1>1, <1>2 DEF NextMessage, Messages

\* An event goes to one topic; the others stay as they are.
LEMMA PublishedTopics ==
    ASSUME NEW log, LogOK(log), NEW t \in Topics, NEW m
    PROVE  /\ Published(log, t, m)[t] = Append(log[t], m)
           /\ \A u \in Topics \ {t} : Published(log, t, m)[u] = log[u]
           /\ DOMAIN Published(log, t, m) = Topics
  BY DEF LogOK, Published

LEMMA PublishedType ==
    ASSUME NEW log, LogOK(log), NEW t \in Topics, NEW m,
           \/ t = "user.photo.updated" /\ m \in PhotoEvent
           \/ t = "ride.requested" /\ m \in RequestEvent
           \/ t = "driver.declined" /\ m \in DeclinedEvent
           \/ t = "driver.assigned" /\ m \in AssignedEvent
           \/ t \in {"ride.status.updated", "ride.completed"} /\ m \in RideEvent
    PROVE  LogOK(Published(log, t, m))
  BY DEF LogOK, Published, Topics

\* The message m is one that topic t is for.
Carries(t, m) ==
    \/ t = "user.photo.updated" /\ m \in PhotoEvent
    \/ t = "ride.requested" /\ m \in RequestEvent
    \/ t = "driver.declined" /\ m \in DeclinedEvent
    \/ t = "driver.assigned" /\ m \in AssignedEvent
    \/ t \in {"ride.status.updated", "ride.completed"} /\ m \in RideEvent

\* What a service that keeps track of messages needs to know of a new one.
LEMMA PublishedFacts ==
    ASSUME NEW log, LogOK(log), NEW t \in Topics, NEW m, Carries(t, m)
    PROVE  /\ LogOK(Published(log, t, m))
           /\ Messages(Published(log, t, m)[t]) = Messages(log[t]) \cup {m}
           /\ Len(Published(log, t, m)[t]) = Len(log[t]) + 1 /\ Published(log, t, m)[t][Len(log[t]) + 1] = m
           /\ \A i \in 1 .. Len(log[t]) : Published(log, t, m)[t][i] = log[t][i]
           /\ \A u \in Topics \ {t} : Published(log, t, m)[u] = log[u]
           /\ \A u \in Topics : Len(log[u]) \in Nat /\ Len(log[u]) <= Len(Published(log, t, m)[u])
<1> DEFINE new == Published(log, t, m)
<1>1. LogOK(new)
  BY PublishedType DEF Carries
<1>2. new[t] = Append(log[t], m) /\ \A u \in Topics \ {t} : new[u] = log[u]
  BY PublishedTopics
<1>3. PICK S : log[t] \in Seq(S) /\ m \in S
  BY DEF LogOK, Topics, Carries
<1>4. /\ Messages(Append(log[t], m)) = Messages(log[t]) \cup {m}
      /\ Len(Append(log[t], m)) = Len(log[t]) + 1 /\ Append(log[t], m)[Len(log[t]) + 1] = m
      /\ \A i \in 1 .. Len(log[t]) : Append(log[t], m)[i] = log[t][i]
  BY <1>3, AppendFacts
<1>5. ASSUME NEW u \in Topics PROVE Len(log[u]) \in Nat
  <2>1. PICK T : log[u] \in Seq(T)
    BY DEF LogOK, Topics
  <2> QED BY <2>1
<1>6. ASSUME NEW u \in Topics PROVE Len(log[u]) <= Len(new[u])
  <2>1. Len(new[u]) = Len(log[u]) \/ Len(new[u]) = Len(log[u]) + 1
    BY <1>2, <1>4
  <2> QED BY <2>1, <1>5
<1> QED BY <1>1, <1>2, <1>4, <1>5, <1>6

LEMMA EmptyLogOK == LogOK(EmptyLog)
  BY DEF EmptyLog, LogOK, Topics

\* A group that joins anew resumes between its commit and its offset, or jumps
\* over what it has not handled.
LEMMA RejoinedFacts ==
    ASSUME NEW c \in Commit, NEW n \in Nat, NEW len \in Nat, c.from <= n + 1, n <= len, NEW w \in Rejoined(c, n, len)
    PROVE  /\ w.pos \in Nat /\ w.pos <= len
           /\ w.committed \in Commit /\ w.committed.from <= w.pos + 1 /\ c.from <= w.committed.from
           /\ \/ c.from <= w.pos /\ w.pos <= n /\ w.committed.skipped = c.skipped
              \/ /\ w.pos = len /\ w.committed.skipped = c.skipped \cup ((n + 1) .. len)
                 /\ w.committed.from = len + 1 \/ n = len
<1> DEFINE atEnd == [pos |-> len,
                     committed |-> [from |-> IF len \in ResumePoints(c.from, n) THEN len ELSE len + 1,
                                    sure |-> FALSE, skipped |-> c.skipped \cup ((n + 1) .. len)]]
<1>0. /\ c = [from |-> c.from, sure |-> c.sure, skipped |-> c.skipped]
      /\ c.from \in Nat /\ c.skipped \subseteq Nat
  BY DEF Commit
<1>1. CASE w = atEnd
  <2>1. w.committed.skipped \subseteq Nat
    BY <1>0, <1>1
  <2>2. w.committed \in Commit
    BY <1>0, <1>1, <2>1 DEF Commit
  <2>3. CASE len \in ResumePoints(c.from, n)
    BY <1>0, <1>1, <2>2, <2>3 DEF ResumePoints
  <2>4. CASE len \notin ResumePoints(c.from, n)
    BY <1>0, <1>1, <2>2, <2>4 DEF ResumePoints
  <2> QED BY <2>3, <2>4
<1>2. CASE w # atEnd
  <2>1. PICK k \in ResumePoints(c.from, n) :
            w = [pos |-> k, committed |-> [c EXCEPT !.from = k, !.sure = TRUE]]
    BY <1>2 DEF Rejoined
  <2>2. k \in Nat /\ c.from <= k /\ k <= n
    BY <1>0, <2>1 DEF ResumePoints
  <2>3. w.pos = k /\ w.committed = [from |-> k, sure |-> TRUE, skipped |-> c.skipped]
    BY <1>0, <2>1
  <2>4. w.committed \in Commit
    BY <1>0, <2>2, <2>3 DEF Commit
  <2> QED BY <2>2, <2>3, <2>4
<1> QED BY <1>1, <1>2

\* What a group knows, when its offsets are just offsets.
LEMMA RejoinedType ==
    ASSUME NEW c \in Commit, NEW n \in Nat, NEW len \in Nat, NEW w \in Rejoined(c, n, len)
    PROVE  w.pos \in Nat /\ w.committed \in Commit
<1> DEFINE from == IF len \in ResumePoints(c.from, n) THEN len ELSE len + 1
           skipped == c.skipped \cup ((n + 1) .. len)
           atEnd == [pos |-> len, committed |-> [from |-> from, sure |-> FALSE, skipped |-> skipped]]
<1>1. c = [from |-> c.from, sure |-> c.sure, skipped |-> c.skipped] /\ c.from \in Nat /\ c.skipped \subseteq Nat
  BY DEF Commit
<1>2. from \in Nat /\ skipped \subseteq Nat
  BY <1>1
<1>3. atEnd.pos \in Nat /\ atEnd.committed \in Commit
  <2> HIDE DEF from, skipped
  <2> QED BY <1>2 DEF Commit
<1>4. ASSUME NEW k \in ResumePoints(c.from, n),
             w = [pos |-> k, committed |-> [c EXCEPT !.from = k, !.sure = TRUE]]
      PROVE  w.pos \in Nat /\ w.committed \in Commit
  <2>1. k \in Nat
    BY <1>1 DEF ResumePoints
  <2>2. w.pos = k /\ w.committed = [from |-> k, sure |-> TRUE, skipped |-> c.skipped]
    BY <1>1, <1>4
  <2> QED BY <1>1, <2>1, <2>2 DEF Commit
<1>5. w = atEnd \/ \E k \in ResumePoints(c.from, n) : w = [pos |-> k, committed |-> [c EXCEPT !.from = k, !.sure = TRUE]]
  BY DEF Rejoined
<1> QED BY <1>3, <1>4, <1>5

LEMMA RejoinsType ==
    ASSUME NEW log, LogOK(log), NEW committed \in [Topics -> Commit], NEW pos \in [Topics -> Nat],
           NEW topics, topics \subseteq Topics, NEW k, k \in Rejoins(log, committed, pos, topics)
    PROVE  PosAfter(k, pos) \in [Topics -> Nat] /\ CommittedAfter(k, committed) \in [Topics -> Commit]
<1> DEFINE used == {t \in topics : log[t] # << >>}
<1>1. DOMAIN k = used /\ \A t \in used : k[t] \in Rejoined(committed[t], pos[t], Len(log[t]))
  <2> DEFINE ways == [t \in used |-> Rejoined(committed[t], pos[t], Len(log[t]))]
  <2>1. k \in [used -> UNION {ways[t] : t \in used}] /\ \A t \in used : k[t] \in ways[t]
    BY DEF Rejoins
  <2> QED BY <2>1
<1>2. ASSUME NEW t \in used PROVE k[t].pos \in Nat /\ k[t].committed \in Commit
  <2>1. PICK S : log[t] \in Seq(S)
    BY DEF LogOK, Topics
  <2>2. Len(log[t]) \in Nat /\ committed[t] \in Commit /\ pos[t] \in Nat
    BY <2>1
  <2> QED BY <1>1, <2>2, RejoinedType
<1> QED BY <1>1, <1>2 DEF PosAfter, CommittedAfter

\* The offsets of a group are those of its topics, and what it has jumped over
\* is behind them.
OffsetsOK(log, committed, pos, topics) ==
    /\ pos \in [Topics -> Nat] /\ committed \in [Topics -> Commit]
    /\ \A t \in topics : committed[t].from <= pos[t] + 1 /\ pos[t] <= Len(log[t])
    /\ \A t \in topics : \A i \in committed[t].skipped : 0 < i /\ i < committed[t].from

\* The offsets c and p of a group have become d and q, when it has joined anew.
Moved(log, c, p, d, q, topics) ==
    /\ \A t \in topics :
          \/ q[t] <= p[t] /\ d[t].skipped = c[t].skipped
          \/ q[t] = Len(log[t]) /\ d[t].skipped = c[t].skipped \cup ((p[t] + 1) .. Len(log[t]))
    /\ \A t \in Topics \ topics : q[t] = p[t] /\ d[t] = c[t]

LEMMA RejoinsFacts ==
    ASSUME NEW log, LogOK(log), NEW committed, NEW pos, NEW topics, topics \subseteq Topics,
           OffsetsOK(log, committed, pos, topics), NEW k, k \in Rejoins(log, committed, pos, topics)
    PROVE  /\ OffsetsOK(log, CommittedAfter(k, committed), PosAfter(k, pos), topics)
           /\ Moved(log, committed, pos, CommittedAfter(k, committed), PosAfter(k, pos), topics)
<1> DEFINE p == PosAfter(k, pos)
           c == CommittedAfter(k, committed)
<1>0. /\ pos \in [Topics -> Nat] /\ committed \in [Topics -> Commit]
      /\ \A t \in topics : committed[t].from <= pos[t] + 1 /\ pos[t] <= Len(log[t])
      /\ \A t \in topics : \A i \in committed[t].skipped : 0 < i /\ i < committed[t].from
  BY DEF OffsetsOK
<1> DEFINE used == {t \in topics : log[t] # << >>}
<1>1. DOMAIN k = used /\ \A t \in used : k[t] \in Rejoined(committed[t], pos[t], Len(log[t]))
  <2> DEFINE ways == [t \in used |-> Rejoined(committed[t], pos[t], Len(log[t]))]
  <2>1. k \in [used -> UNION {ways[t] : t \in used}] /\ \A t \in used : k[t] \in ways[t]
    BY DEF Rejoins
  <2> QED BY <2>1
<1>2. ASSUME NEW t \in used
      PROVE  /\ p[t] = k[t].pos /\ c[t] = k[t].committed
             /\ p[t] \in Nat /\ c[t] \in Commit /\ c[t].from <= p[t] + 1 /\ p[t] <= Len(log[t])
             /\ \A i \in c[t].skipped : 0 < i /\ i < c[t].from
             /\ \/ p[t] <= pos[t] /\ c[t].skipped = committed[t].skipped
                \/ p[t] = Len(log[t]) /\ c[t].skipped = committed[t].skipped \cup ((pos[t] + 1) .. Len(log[t]))
  <2>1. p[t] = k[t].pos /\ c[t] = k[t].committed
    BY <1>1 DEF PosAfter, CommittedAfter
  <2>2. committed[t] \in Commit /\ pos[t] \in Nat /\ Len(log[t]) \in Nat
    <3>1. PICK S : log[t] \in Seq(S)
      BY DEF LogOK, Topics
    <3> QED BY <1>0, <3>1
  <2> PICK n, len, w : n = pos[t] /\ len = Len(log[t]) /\ w = k[t]
    OBVIOUS
  <2>3. /\ w.pos \in Nat /\ w.pos <= len
        /\ w.committed \in Commit /\ w.committed.from <= w.pos + 1 /\ committed[t].from <= w.committed.from
        /\ \/ committed[t].from <= w.pos /\ w.pos <= n /\ w.committed.skipped = committed[t].skipped
           \/ /\ w.pos = len /\ w.committed.skipped = committed[t].skipped \cup ((n + 1) .. len)
              /\ w.committed.from = len + 1 \/ n = len
    BY <1>0, <1>1, <2>2, RejoinedFacts
  <2>4. ASSUME NEW i \in w.committed.skipped PROVE 0 < i /\ i < w.committed.from
    <3>1. CASE i \in committed[t].skipped
      <4>1. 0 < i /\ i < committed[t].from /\ i \in Nat /\ committed[t].from \in Nat /\ w.committed.from \in Nat
        BY <1>0, <2>2, <2>3, <3>1 DEF Commit
      <4> QED BY <2>3, <4>1
    <3>2. CASE i \notin committed[t].skipped
      BY <2>2, <2>3, <2>4, <3>2
    <3> QED BY <3>1, <3>2
  <2> QED BY <2>1, <2>3, <2>4
<1>3. ASSUME NEW t \in Topics \ used PROVE p[t] = pos[t] /\ c[t] = committed[t]
  BY <1>1 DEF PosAfter, CommittedAfter
<1>4. p \in [Topics -> Nat] /\ c \in [Topics -> Commit]
  <2>1. \A t \in Topics : p[t] \in Nat /\ c[t] \in Commit
    BY <1>0, <1>2, <1>3
  <2>2. p = [t \in Topics |-> p[t]] /\ c = [t \in Topics |-> c[t]]
    BY DEF PosAfter, CommittedAfter
  <2> QED BY <2>1, <2>2
<1>5. OffsetsOK(log, c, p, topics)
  BY <1>0, <1>2, <1>3, <1>4 DEF OffsetsOK
<1>6. Moved(log, committed, pos, c, p, topics)
  <2>1. \A t \in Topics \ used : p[t] <= pos[t] /\ c[t].skipped = committed[t].skipped
    BY <1>0, <1>3
  <2> QED BY <1>2, <1>3, <2>1 DEF Moved
<1> QED BY <1>5, <1>6

\* What has been handled when the group has joined anew had been handled before.
LEMMA HandledAfter ==
    ASSUME NEW log, LogOK(log), NEW c, NEW p, NEW d, NEW q, NEW topics,
           OffsetsOK(log, c, p, topics), OffsetsOK(log, d, q, topics), Moved(log, c, p, d, q, topics)
    PROVE  \A t \in Topics : Handled(d, q, t) \subseteq Handled(c, p, t)
<1> SUFFICES ASSUME NEW t \in Topics PROVE Handled(d, q, t) \subseteq Handled(c, p, t)
  OBVIOUS
<1>1. Len(log[t]) \in Nat
  <2>1. PICK S : log[t] \in Seq(S)
    BY DEF LogOK, Topics
  <2> QED BY <2>1
<1>2. p[t] \in Nat /\ q[t] \in Nat
  BY DEF OffsetsOK
<1>3. CASE t \in topics
  BY <1>1, <1>2, <1>3 DEF Moved, OffsetsOK, Handled
<1>4. CASE t \notin topics
  BY <1>4 DEF Moved, Handled
<1> QED BY <1>3, <1>4

LEMMA FirstCommitsOK ==
    /\ FirstCommits \in [Topics -> Commit]
    /\ \A t \in Topics : FirstCommits[t].from = 0 /\ FirstCommits[t].skipped = {}
  BY DEF FirstCommits, FirstCommit, Commit
=============================================================================
