--------------------------- MODULE AccountsProofs ---------------------------
(***************************************************************************)
(* Proofs about Accounts, for any apps, seed sizes and numbers of troubles. *)
(*                                                                         *)
(* What a token says and what a profile belongs to was decided when a      *)
(* handler read or wrote a row that may be old by now.  UsersOK, CallsOK   *)
(* and CallersOK follow an account's id from the table through the         *)
(* handler's variables into the caller's token; OneHeard says that a       *)
(* caller waits for one answer, so that the answer is about the account it *)
(* is at.                                                                  *)
(*                                                                         *)
(* HalfSeededCostFailures needs a budget of its own: AtRisk counts the     *)
(* accounts that no caller brings to an end any more, also while a handler *)
(* nobody listens to is still at work on them.                             *)
(***************************************************************************)
EXTENDS Accounts, FiniteSetTheorems, TLAPS

Account(id, p) == [id |-> id, person |-> p] \in users

\* Ids are never used twice, and nobody has two accounts.
UsersOK ==
    /\ IsFiniteSet(users) /\ IsFiniteSet(profiles)
    /\ \A u \in users : u.id \in 1 .. Cardinality(users)
    /\ \A u, v \in users : u.id = v.id \/ u.person = v.person => u = v

\* A handler works for its caller's account while the caller waits, and the id
\* it holds is that of the account.
CallOK(h) ==
    /\ h.heard => caller[h.caller].pc = "waiting" /\ h.person = Person(h.caller)
    /\ h.caller \in Apps => h.person = PersonOf[h.caller]
    /\ h.op = "login" => h.caller \in Apps
    /\ h.op = "profile" \/ h.pc \in {"compare", "sign"} => Account(h.sub, h.person)

CallsOK == \A h \in calls : CallOK(h)

OneHeard == \A g, h \in calls : g.heard /\ h.heard /\ g.caller = h.caller => g = h

CallerOK(c) ==
    /\ caller[c].next > 0
    /\ caller[c].pc = "in" => caller[c].token # NoToken
    /\ c \in Roles /\ caller[c].pc \in {"waiting", "in"} => caller[c].next \in 1 .. SeedSize
    /\ caller[c].token # NoToken =>
         caller[c].token.person = Person(c) /\ Account(caller[c].token.sub, Person(c))

CallersOK == \A c \in Callers : CallerOK(c)

IInv == TypeOK /\ UsersOK /\ CallsOK /\ OneHeard /\ CallersOK /\ ProfilesBelongToAccounts

-----------------------------------------------------------------------------
(* Types.                                                                  *)

\* A caller that has given up.
LEMMA GivenUpFields ==
    ASSUME TypeOK, NEW c \in Callers
    PROVE  /\ GivenUp(c) \in Caller
           /\ c \in Apps => /\ GivenUp(c).token = caller[c].token /\ GivenUp(c).next = caller[c].next
                            /\ GivenUp(c).pc \in {"out", "in"}
                            /\ GivenUp(c).pc = "in" => caller[c].token # NoToken
           /\ c \notin Apps => /\ GivenUp(c).pc = "out" /\ GivenUp(c).token = NoToken
                               /\ GivenUp(c).next = caller[c].next + 1
<1>1. caller[c] \in Caller
  BY DEF TypeOK
<1>2. CASE c \in Apps
  BY <1>1, <1>2 DEF GivenUp, Caller
<1>3. CASE c \notin Apps
  BY <1>1, <1>3 DEF GivenUp, Caller
<1> QED BY <1>2, <1>3

\* A caller that is done with its profile.
LEMMA FinishedFields ==
    ASSUME TypeOK, NEW c \in Callers
    PROVE  /\ Finished(c) \in Caller
           /\ c \in Apps => /\ Finished(c).token = caller[c].token /\ Finished(c).next = caller[c].next
                            /\ Finished(c).pc = "done"
           /\ c \notin Apps => Finished(c) = GivenUp(c)
<1>1. caller[c] \in Caller
  BY DEF TypeOK
<1>2. CASE c \in Apps
  BY <1>1, <1>2 DEF Finished, Caller
<1>3. CASE c \notin Apps
  BY <1>3, GivenUpFields DEF Finished
<1> QED BY <1>2, <1>3

\* Whoever has begun something is at an account that exists in the plan.
LEMMA PersonType ==
    ASSUME TypeOK, NEW c \in Callers, c \in Roles => caller[c].next \in 1 .. SeedSize
    PROVE  Person(c) \in People
  BY DEF Person, People, Seeded, Callers

LEMMA NewCallFields ==
    ASSUME NEW c, NEW op, NEW pc
    PROVE  /\ NewCall(c, op, pc).op = op /\ NewCall(c, op, pc).pc = pc
           /\ NewCall(c, op, pc).caller = c /\ NewCall(c, op, pc).person = Person(c)
           /\ NewCall(c, op, pc).heard = TRUE
  BY DEF NewCall

LEMMA InitType == Init => TypeOK
  BY DEF Init, TypeOK, Caller

\* A call that takes its next step, with or without a new id, or is not heard
\* any more.
LEMMA CallSigns ==
    ASSUME NEW h \in Call, NEW id \in Nat, NEW g,
           g = [h EXCEPT !.pc = "sign", !.sub = id] \/ (g = [h EXCEPT !.pc = "sign"] /\ id = h.sub)
    PROVE  /\ g \in Call /\ g.op = h.op /\ g.pc = "sign" /\ g.caller = h.caller /\ g.person = h.person
           /\ g.sub = id /\ g.heard = h.heard
  BY DEF Call, Ids

LEMMA CallUnheard ==
    ASSUME NEW h \in Call, NEW g, NEW b \in BOOLEAN, g = [h EXCEPT !.heard = b]
    PROVE  /\ g \in Call /\ g.op = h.op /\ g.pc = h.pc /\ g.caller = h.caller /\ g.person = h.person
           /\ g.sub = h.sub /\ g.heard = b
  BY DEF Call

LEMMA EndsType ==
    ASSUME TypeOK, NEW h \in calls, NEW new \in Caller, Ends(h, new)
    PROVE  calls' \subseteq Call /\ caller' \in [Callers -> Caller]
  BY DEF TypeOK, Ends

LEMMA BeginsType ==
    ASSUME TypeOK, NEW c \in Callers, NEW h \in Call, Begins(c, h)
    PROVE  calls' \subseteq Call /\ caller' \in [Callers -> Caller]
<1>1. [caller[c] EXCEPT !.pc = "waiting"] \in Caller
  BY DEF TypeOK, Caller
<1>2. caller' = [caller EXCEPT ![c] = [caller[c] EXCEPT !.pc = "waiting"]]
  BY DEF Begins
<1> QED BY <1>1, <1>2 DEF TypeOK, Begins

\* The calls that clients begin.
LEMMA RegisterCall ==
    ASSUME TypeOK, NEW c \in Callers, Person(c) \in People
    PROVE  NewCall(c, "register", "insert") \in Call
  BY DEF NewCall, Call, Ids

LEMMA LoginCall ==
    ASSUME NEW a \in Apps, Person(a) \in People, NEW right \in BOOLEAN, NEW id \in Nat,
           NEW h, h = [NewCall(a, "login", "compare") EXCEPT !.right = right, !.sub = id]
    PROVE  /\ h \in Call /\ h.op = "login" /\ h.pc = "compare" /\ h.caller = a /\ h.person = Person(a)
           /\ h.sub = id /\ h.heard = TRUE
  BY DEF NewCall, Call, Callers, Ids

LEMMA ProfileCall ==
    ASSUME TypeOK, NEW c \in Callers, Person(c) \in People, NEW id \in Nat,
           NEW h, h = [NewCall(c, "profile", "insert") EXCEPT !.sub = id]
    PROVE  /\ h \in Call /\ h.op = "profile" /\ h.pc = "insert" /\ h.caller = c /\ h.person = Person(c)
           /\ h.sub = id /\ h.heard = TRUE
  BY DEF NewCall, Call, Ids

\* The account login finds.
LEMMA Found ==
    ASSUME TypeOK, NEW p, Registered(p), NEW v, v = CHOOSE u \in users : u.person = p
    PROVE  v \in users /\ v.id \in Nat /\ Account(v.id, p)
<1>1. \E u \in users : u.person = p
  BY DEF Registered
<1>2. v \in users /\ v.person = p
  BY <1>1
<1>3. v \in User
  BY <1>2 DEF TypeOK
<1>4. v.id \in Nat /\ v = [id |-> v.id, person |-> v.person]
  BY <1>3 DEF User, Ids
<1> QED BY <1>2, <1>4 DEF Account

\* The id a profile is created for is that of the caller's account.
LEMMA IdentityIsAccount ==
    ASSUME TypeOK, CallersOK, NEW c \in Callers, caller[c].pc = "in"
    PROVE  Identity(c) \in Nat /\ Account(Identity(c), Person(c))
<1>1. caller[c].token # NoToken /\ caller[c].token \in Token
  BY DEF TypeOK, CallersOK, CallerOK, Caller
<1> QED BY <1>1 DEF CallersOK, CallerOK, Identity, userIdFromToken, VerifiedId, Token, Ids

LEMMA StepType ==
    ASSUME IInv, [Next]_vars
    PROVE  TypeOK'
<1> TypeOK /\ UsersOK /\ CallersOK
  BY DEF IInv
<1>1. CASE UNCHANGED vars
  BY <1>1 DEF vars, history, TypeOK
<1>2. ASSUME NEW c \in Callers, register(c) PROVE TypeOK'
  <2>1. UNCHANGED <<users, profiles, failures, crashes, expiries>>
    BY <1>2 DEF register, history
  <2>2. CASE RefusedAtOnce(c)
    BY <2>1, <2>2, GivenUpFields DEF RefusedAtOnce, TypeOK
  <2>3. CASE Begins(c, NewCall(c, "register", "insert"))
    <3>1. Person(c) \in People
      BY <1>2, AccountsAssumption, PersonType DEF register, TypeOK, Caller, CallersOK, CallerOK
    <3> QED BY <2>1, <2>3, <3>1, RegisterCall, BeginsType DEF TypeOK
  <2> QED BY <1>2, <2>2, <2>3 DEF register
<1>3. ASSUME NEW c \in Callers, createProfile(c) PROVE TypeOK'
  <2>1. UNCHANGED <<users, profiles, failures, crashes, expiries>> /\ caller[c].pc = "in"
    BY <1>3 DEF createProfile, history
  <2>2. CASE caller' = [caller EXCEPT ![c] = Finished(c)] /\ UNCHANGED calls
    BY <2>1, <2>2, FinishedFields DEF TypeOK
  <2>3. CASE Begins(c, [NewCall(c, "profile", "insert") EXCEPT !.sub = Identity(c)])
    <3>1. Person(c) \in People
      BY <2>1, PersonType DEF CallersOK, CallerOK
    <3>2. Identity(c) \in Nat
      BY <2>1, IdentityIsAccount
    <3>3. [NewCall(c, "profile", "insert") EXCEPT !.sub = Identity(c)] \in Call
      BY <3>1, <3>2, ProfileCall
    <3> QED BY <2>1, <2>3, <3>3, BeginsType DEF TypeOK
  <2> QED BY <1>3, <2>2, <2>3 DEF createProfile
<1>4. ASSUME NEW a \in Apps, NEW right \in BOOLEAN, login(a, right) PROVE TypeOK'
  <2>1. UNCHANGED <<users, profiles, failures, crashes, expiries>> /\ a \in Callers /\ a \notin Roles
    BY <1>4, AccountsAssumption DEF login, history, Callers
  <2>2. CASE RefusedAtOnce(a)
    BY <2>1, <2>2, GivenUpFields DEF RefusedAtOnce, TypeOK
  <2>3. CASE Registered(Person(a))
    <3> DEFINE v == CHOOSE u \in users : u.person = Person(a)
               h == [NewCall(a, "login", "compare") EXCEPT !.right = right, !.sub = v.id]
    <3>1. v.id \in Nat
      BY <2>3, Found
    <3>2. h \in Call
      <4>1. Person(a) \in People
        BY <2>1, PersonType
      <4> HIDE DEF v
      <4> QED BY <3>1, <4>1 DEF NewCall, Call, Callers, Ids
    <3>3. Begins(a, h)
      BY <1>4, <2>3 DEF login
    <3> HIDE DEF h
    <3> QED BY <2>1, <3>2, <3>3, BeginsType DEF TypeOK
  <2> QED BY <1>4, <2>2, <2>3 DEF login
<1>5. ASSUME NEW h \in calls, NEW new \in Caller, Ends(h, new), UNCHANGED <<users, crashes, expiries>>,
             profiles' \subseteq Profile, failures' \in Nat
      PROVE  TypeOK'
  BY <1>5, EndsType DEF TypeOK
<1>6. ASSUME NEW h \in calls PROVE h \in Call /\ h.caller \in Callers /\ h.sub \in Nat /\ h.person \in People
  BY <1>6 DEF TypeOK, Call, Ids
<1>7. Cardinality(users) \in Nat /\ Cardinality(profiles) \in Nat
  BY FS_CardinalityType DEF UsersOK
<1>8. ASSUME NEW h \in calls, Insert(h) PROVE TypeOK'
  <2>1. CASE Refused(h) /\ UNCHANGED users
    BY <1>5, <1>6, <1>8, <2>1, GivenUpFields DEF Insert, Refused, history, TypeOK
  <2>2. CASE ~Registered(h.person)
    <3> DEFINE id == Cardinality(users) + 1
               g == [h EXCEPT !.pc = "sign", !.sub = id]
    <3>1. g \in Call /\ id \in Nat
      <4>1. id \in Nat /\ g = [h EXCEPT !.pc = "sign", !.sub = id]
        BY <1>7
      <4> HIDE DEF g, id
      <4> QED BY <1>6, <4>1, CallSigns
    <3>2. calls' = (calls \ {h}) \cup {g} /\ users' = users \cup {[id |-> id, person |-> h.person]}
      BY <1>8, <2>2 DEF Insert
    <3>3. [id |-> id, person |-> h.person] \in User
      BY <1>6, <3>1 DEF User, Ids
    <3>4. UNCHANGED <<profiles, caller, failures, crashes, expiries>>
      BY <1>8, <2>2 DEF Insert, history
    <3> HIDE DEF g, id
    <3> QED BY <3>1, <3>2, <3>3, <3>4 DEF TypeOK
  <2> QED BY <1>8, <2>1, <2>2 DEF Insert
<1>9. ASSUME NEW h \in calls, Compare(h) PROVE TypeOK'
  <2>1. CASE Refused(h)
    BY <1>5, <1>6, <1>9, <2>1, GivenUpFields DEF Compare, Refused, history, TypeOK
  <2>2. CASE calls' = (calls \ {h}) \cup {[h EXCEPT !.pc = "sign"]} /\ UNCHANGED caller
    <3>1. [h EXCEPT !.pc = "sign"] \in Call
      BY <1>6, CallSigns
    <3> QED BY <1>9, <2>2, <3>1 DEF Compare, history, TypeOK
  <2> QED BY <1>9, <2>1, <2>2 DEF Compare
<1>10. ASSUME NEW h \in calls, Sign(h) PROVE TypeOK'
  <2>1. [caller[h.caller] EXCEPT !.pc = "in", !.token = [sub |-> h.sub, person |-> h.person]] \in Caller
    BY <1>6 DEF TypeOK, Caller, Token, Ids
  <2> QED BY <1>5, <1>10, <2>1 DEF Sign, Granted, history, TypeOK
<1>11. ASSUME NEW h \in calls, InsertProfile(h) PROVE TypeOK'
  <2>1. CASE Refused(h) /\ UNCHANGED profiles
    BY <1>5, <1>6, <1>11, <2>1, GivenUpFields DEF InsertProfile, Refused, history, TypeOK
  <2>2. CASE Created(h) /\ profiles' = profiles \cup {NewProfile(h)}
    <3>1. NewProfile(h) \in Profile
      BY <1>6, <1>7 DEF NewProfile, Profile, Ids
    <3> QED BY <1>5, <1>6, <1>11, <2>2, <3>1, FinishedFields DEF InsertProfile, Created, history, TypeOK
  <2> QED BY <1>11, <2>1, <2>2 DEF InsertProfile
<1>12. ASSUME NEW h \in calls, HandlerFails(h) PROVE TypeOK'
  BY <1>5, <1>6, <1>12, GivenUpFields DEF HandlerFails, Refused, TypeOK
<1>13. ASSUME NEW h \in calls, AnswerLost(h) PROVE TypeOK'
  <2>1. [h EXCEPT !.heard = FALSE] \in Call
    BY <1>6, CallUnheard
  <2>2. GivenUp(h.caller) \in Caller /\ h.caller \in Callers
    BY <1>6, GivenUpFields
  <2> DEFINE g == [h EXCEPT !.heard = FALSE]
  <2>3. calls' = (calls \ {h}) \cup {g} /\ g \in Call /\ failures' \in Nat
    BY <1>13, <2>1 DEF AnswerLost, TypeOK
  <2> HIDE DEF g
  <2> QED BY <1>13, <2>2, <2>3 DEF AnswerLost, TypeOK
<1>14. CASE SeedCrashes
  <2>1. \A h \in calls : [h EXCEPT !.heard = h.heard /\ h.caller \in Apps] \in Call
    BY <1>6 DEF Call
  <2>2. \A c \in Callers : caller'[c] \in Caller
    BY <1>14 DEF SeedCrashes, TypeOK, Caller
  <2>3. caller' = [c \in Callers |-> caller'[c]]
    BY <1>14 DEF SeedCrashes
  <2> QED BY <1>14, <2>1, <2>2, <2>3 DEF SeedCrashes, TypeOK
<1>15. ASSUME NEW a \in Apps, TokenExpires(a) PROVE TypeOK'
  <2>1. [caller[a] EXCEPT !.pc = "out", !.token = NoToken] \in Caller /\ a \in Callers
    BY DEF TypeOK, Caller, Callers
  <2>2. caller' = [caller EXCEPT ![a] = [caller[a] EXCEPT !.pc = "out", !.token = NoToken]]
    BY <1>15 DEF TokenExpires
  <2> QED BY <1>15, <2>1, <2>2 DEF TokenExpires, TypeOK
<1> QED BY <1>1, <1>2, <1>3, <1>4, <1>8, <1>9, <1>10, <1>11, <1>12, <1>13, <1>14, <1>15
        DEF Next, HandlerStep, Trouble

-----------------------------------------------------------------------------
(* What a step does to the other handlers and callers.                     *)

LEMMA CallStays ==
    ASSUME TypeOK, NEW g \in calls, CallOK(g), users \subseteq users',
           g.heard => caller'[g.caller] = caller[g.caller]
    PROVE  CallOK(g)'
<1>1. g.heard => Person(g.caller)' = Person(g.caller)
  BY DEF Person
<1> QED BY <1>1 DEF CallOK, Account

LEMMA CallerStays ==
    ASSUME NEW c \in Callers, CallerOK(c), users \subseteq users', caller'[c] = caller[c]
    PROVE  CallerOK(c)'
  BY DEF CallerOK, Person, Account

\* Whether it gives up or is done, a caller is at a new account or keeps its token.
LEMMA EndedCaller ==
    ASSUME TypeOK, NEW c \in Callers, CallerOK(c), users \subseteq users',
           caller'[c] = GivenUp(c) \/ caller'[c] = Finished(c)
    PROVE  CallerOK(c)'
<1>1. caller[c].next \in Nat /\ caller[c].next > 0
  BY DEF TypeOK, Caller, CallerOK
<1>2. CASE c \in Apps
  <2>1. /\ caller'[c].token = caller[c].token /\ caller'[c].next = caller[c].next
        /\ caller'[c].pc = "in" => caller[c].token # NoToken
    BY <1>2, GivenUpFields, FinishedFields
  <2>2. Person(c)' = Person(c) /\ c \notin Roles
    BY <1>2, AccountsAssumption DEF Person
  <2> QED BY <1>1, <2>1, <2>2 DEF CallerOK, Account
<1>3. CASE c \notin Apps
  <2>1. caller'[c].pc = "out" /\ caller'[c].token = NoToken /\ caller'[c].next = caller[c].next + 1
    BY <1>3, GivenUpFields, FinishedFields
  <2> QED BY <1>1, <2>1 DEF CallerOK
<1> QED BY <1>2, <1>3

\* A caller that was not waiting changes.
LEMMA CallerChanges ==
    ASSUME IInv, TypeOK', NEW c \in Callers, caller[c].pc # "waiting", CallerOK(c)',
           \A d \in Callers \ {c} : caller'[d] = caller[d], users' = users, calls' = calls
    PROVE  CallsOK' /\ OneHeard' /\ CallersOK'
<1>1. ASSUME NEW g \in calls PROVE CallOK(g)'
  <2>1. CallOK(g) /\ g.caller \in Callers
    BY DEF IInv, CallsOK, TypeOK, Call
  <2>2. g.heard => caller'[g.caller] = caller[g.caller]
    BY <2>1 DEF CallOK
  <2> QED BY <2>1, <2>2, CallStays DEF IInv
<1>2. ASSUME NEW d \in Callers PROVE CallerOK(d)'
  <2>1. CASE d = c
    BY <2>1
  <2>2. CASE d # c
    BY <2>2, CallerStays DEF IInv, CallersOK
  <2> QED BY <2>1, <2>2
<1>3. OneHeard'
  BY DEF IInv, OneHeard
<1> QED BY <1>1, <1>2, <1>3 DEF CallsOK, CallersOK

\* A caller begins to wait for call h.
LEMMA BeginsKeeps ==
    ASSUME IInv, TypeOK', NEW c \in Callers, NEW h \in Call, Begins(c, h), users' = users,
           caller[c].pc \in {"out", "in"}, c \in Roles => caller[c].next \in 1 .. SeedSize,
           h.caller = c, h.person = Person(c), h.op = "login" => c \in Apps,
           h.op = "profile" \/ h.pc \in {"compare", "sign"} => Account(h.sub, h.person)
    PROVE  CallsOK' /\ OneHeard' /\ CallersOK'
<1>1. /\ caller'[c].pc = "waiting" /\ caller'[c].token = caller[c].token /\ caller'[c].next = caller[c].next
      /\ \A d \in Callers \ {c} : caller'[d] = caller[d]
  BY DEF Begins, IInv, TypeOK, Caller
<1>2. \A d \in Callers : Person(d)' = Person(d)
  BY <1>1 DEF Person
<1>3. ASSUME NEW g \in calls PROVE CallOK(g)' /\ (g.heard => g.caller # c)
  <2>1. CallOK(g) /\ g.caller \in Callers
    BY DEF IInv, CallsOK, TypeOK, Call
  <2>2. g.heard => g.caller # c
    BY <2>1 DEF CallOK
  <2>3. g.heard => caller'[g.caller] = caller[g.caller]
    BY <1>1, <2>1, <2>2
  <2> QED BY <2>1, <2>2, <2>3, CallStays DEF IInv
<1>4. CallOK(h)'
  <2>1. c \in Apps => Person(c) = PersonOf[c]
    BY DEF Person
  <2> QED BY <1>1, <1>2, <2>1 DEF CallOK, Account
<1>5. ASSUME NEW d \in Callers PROVE CallerOK(d)'
  <2>1. CASE d = c
    BY <1>1, <1>2, <2>1 DEF IInv, CallersOK, CallerOK, Account
  <2>2. CASE d # c
    BY <1>1, <2>2, CallerStays DEF IInv, CallersOK
  <2> QED BY <2>1, <2>2
<1>6. calls' = calls \cup {h}
  BY DEF Begins
<1>7. OneHeard'
  BY <1>3, <1>6 DEF IInv, OneHeard
<1> QED BY <1>3, <1>4, <1>5, <1>6, <1>7 DEF CallsOK, CallersOK

\* The handler of call h answers.
LEMMA EndsKeeps ==
    ASSUME IInv, TypeOK', NEW h \in calls, NEW new \in Caller, Ends(h, new), users' = users,
           h.heard => CallerOK(h.caller)'
    PROVE  CallsOK' /\ OneHeard' /\ CallersOK'
<1>1. h.caller \in Callers /\ caller \in [Callers -> Caller]
  BY DEF IInv, TypeOK, Call
<1>2. ASSUME NEW d \in Callers, ~(h.heard /\ d = h.caller) PROVE caller'[d] = caller[d]
  BY <1>1, <1>2 DEF Ends
<1>3. ASSUME NEW g \in calls, g # h PROVE CallOK(g)'
  <2>1. CallOK(g) /\ g.caller \in Callers
    BY DEF IInv, CallsOK, TypeOK, Call
  <2>2. g.heard => caller'[g.caller] = caller[g.caller]
    BY <1>2, <1>3, <2>1 DEF IInv, OneHeard
  <2> QED BY <2>1, <2>2, CallStays DEF IInv
<1>4. ASSUME NEW d \in Callers PROVE CallerOK(d)'
  BY <1>2, CallerStays DEF IInv, CallersOK
<1>5. calls' = calls \ {h}
  BY DEF Ends
<1> QED BY <1>3, <1>4, <1>5 DEF IInv, OneHeard, CallsOK, CallersOK

\* The handler of call h goes on as g, which holds the id of an account.
LEMMA MovesKeeps ==
    ASSUME IInv, TypeOK', NEW h \in calls, NEW g, calls' = (calls \ {h}) \cup {g}, caller' = caller,
           users \subseteq users', g.op = h.op, g.caller = h.caller, g.person = h.person,
           g.heard = h.heard, Account(g.sub, g.person)'
    PROVE  CallsOK' /\ OneHeard' /\ CallersOK'
<1>1. ASSUME NEW f \in calls PROVE CallOK(f)'
  BY CallStays DEF IInv, CallsOK
<1>2. CallOK(g)'
  BY <1>1 DEF CallOK, Person
<1>3. OneHeard'
  BY DEF IInv, OneHeard
<1>4. CallersOK'
  BY CallerStays DEF IInv, CallersOK
<1> QED BY <1>1, <1>2, <1>3, <1>4 DEF CallsOK

-----------------------------------------------------------------------------
(* The steps.                                                              *)

LEMMA RegisterKeeps ==
    ASSUME IInv, TypeOK', NEW c \in Callers, register(c)
    PROVE  IInv'
<1>1. UNCHANGED <<users, profiles>> /\ caller[c].pc = "out"
  BY DEF register
<1>2. UsersOK' /\ ProfilesBelongToAccounts'
  BY <1>1 DEF IInv, UsersOK, ProfilesBelongToAccounts
<1>3. CASE RefusedAtOnce(c)
  <2>1. /\ caller'[c] = GivenUp(c) /\ calls' = calls
        /\ \A d \in Callers \ {c} : caller'[d] = caller[d]
    BY <1>3 DEF RefusedAtOnce, IInv, TypeOK
  <2>2. CallerOK(c)'
    BY <1>1, <2>1, EndedCaller DEF IInv, CallersOK
  <2> QED BY <1>1, <1>2, <2>1, <2>2, CallerChanges DEF IInv
<1>4. CASE Begins(c, NewCall(c, "register", "insert"))
  <2>1. c \in Roles => caller[c].next \in 1 .. SeedSize
    BY DEF register, IInv, TypeOK, Caller, CallersOK, CallerOK
  <2>2. NewCall(c, "register", "insert") \in Call
    BY <2>1, PersonType, RegisterCall DEF IInv
  <2> DEFINE h == NewCall(c, "register", "insert")
  <2>3. h \in Call /\ h.op = "register" /\ h.pc = "insert" /\ h.caller = c /\ h.person = Person(c)
    BY <2>2 DEF NewCall
  <2> HIDE DEF h
  <2>4. CallsOK' /\ OneHeard' /\ CallersOK'
    <3>1. Begins(c, h)
      BY <1>4 DEF h
    <3> QED BY <1>1, <2>1, <2>3, <3>1, BeginsKeeps
  <2> QED BY <1>2, <2>4 DEF IInv
<1> QED BY <1>3, <1>4 DEF register

LEMMA LoginKeeps ==
    ASSUME IInv, TypeOK', NEW a \in Apps, NEW right \in BOOLEAN, login(a, right)
    PROVE  IInv'
<1>1. UNCHANGED <<users, profiles>> /\ caller[a].pc = "out" /\ a \in Callers /\ a \notin Roles
  BY AccountsAssumption DEF login, Callers
<1>2. UsersOK' /\ ProfilesBelongToAccounts'
  BY <1>1 DEF IInv, UsersOK, ProfilesBelongToAccounts
<1>3. CASE ~Registered(Person(a))
  <2>1. /\ caller'[a] = GivenUp(a) /\ calls' = calls
        /\ \A d \in Callers \ {a} : caller'[d] = caller[d]
    BY <1>1, <1>3 DEF login, RefusedAtOnce, IInv, TypeOK
  <2>2. CallerOK(a)'
    BY <1>1, <2>1, EndedCaller DEF IInv, CallersOK
  <2> QED BY <1>1, <1>2, <2>1, <2>2, CallerChanges DEF IInv
<1>4. CASE Registered(Person(a))
  <2> DEFINE v == CHOOSE u \in users : u.person = Person(a)
             h == [NewCall(a, "login", "compare") EXCEPT !.right = right, !.sub = v.id]
  <2>1. Account(v.id, Person(a)) /\ v.id \in Nat
    BY <1>4, Found DEF IInv
  <2>2. /\ h \in Call /\ h.op = "login" /\ h.pc = "compare" /\ h.caller = a /\ h.person = Person(a)
        /\ h.sub = v.id
    <3>1. Person(a) \in People
      BY <1>1, PersonType DEF IInv
    <3> HIDE DEF v
    <3> QED BY <2>1, <3>1 DEF NewCall, Call, Callers, Ids
  <2>3. Begins(a, h)
    BY <1>4 DEF login
  <2> HIDE DEF h, v
  <2>4. CallsOK' /\ OneHeard' /\ CallersOK'
    BY <1>1, <2>1, <2>2, <2>3, BeginsKeeps
  <2> QED BY <1>2, <2>4 DEF IInv
<1> QED BY <1>3, <1>4

LEMMA CreateProfileKeeps ==
    ASSUME IInv, TypeOK', NEW c \in Callers, createProfile(c)
    PROVE  IInv'
<1>1. UNCHANGED <<users, profiles>> /\ caller[c].pc = "in"
  BY DEF createProfile
<1>2. UsersOK' /\ ProfilesBelongToAccounts'
  BY <1>1 DEF IInv, UsersOK, ProfilesBelongToAccounts
<1>3. CASE caller' = [caller EXCEPT ![c] = Finished(c)] /\ UNCHANGED calls
  <2>1. caller'[c] = Finished(c) /\ \A d \in Callers \ {c} : caller'[d] = caller[d]
    BY <1>3 DEF IInv, TypeOK
  <2>2. CallerOK(c)'
    BY <1>1, <2>1, EndedCaller DEF IInv, CallersOK
  <2> QED BY <1>1, <1>2, <1>3, <2>1, <2>2, CallerChanges DEF IInv
<1>4. CASE Begins(c, [NewCall(c, "profile", "insert") EXCEPT !.sub = Identity(c)])
  <2> DEFINE h == [NewCall(c, "profile", "insert") EXCEPT !.sub = Identity(c)]
  <2>1. Account(Identity(c), Person(c)) /\ Identity(c) \in Nat
    BY <1>1, IdentityIsAccount DEF IInv
  <2>2. c \in Roles => caller[c].next \in 1 .. SeedSize
    BY <1>1 DEF IInv, CallersOK, CallerOK
  <2>3. /\ h \in Call /\ h.op = "profile" /\ h.pc = "insert" /\ h.caller = c /\ h.person = Person(c)
        /\ h.sub = Identity(c)
    <3>1. Person(c) \in People
      BY <2>2, PersonType DEF IInv
    <3>2. Identity(c) \in Ids
      BY <2>1 DEF Ids
    <3> QED BY <3>1, <3>2 DEF NewCall, Call
  <2>4. Begins(c, h)
    BY <1>4
  <2> HIDE DEF h
  <2>5. CallsOK' /\ OneHeard' /\ CallersOK'
    BY <1>1, <2>1, <2>2, <2>3, <2>4, BeginsKeeps
  <2> QED BY <1>2, <2>5 DEF IInv
<1> QED BY <1>3, <1>4 DEF createProfile

LEMMA RefusedKeeps ==
    ASSUME IInv, TypeOK', NEW h \in calls, Refused(h), UNCHANGED <<users, profiles>>
    PROVE  IInv'
<1>1. h.caller \in Callers /\ GivenUp(h.caller) \in Caller
  BY GivenUpFields DEF IInv, TypeOK, Call
<1>2. h.heard => CallerOK(h.caller)'
  <2>1. h.heard => caller'[h.caller] = GivenUp(h.caller)
    BY <1>1 DEF Refused, Ends, IInv, TypeOK
  <2> QED BY <1>1, <2>1, EndedCaller DEF IInv, CallersOK
<1>3. CallsOK' /\ OneHeard' /\ CallersOK'
  BY <1>1, <1>2, EndsKeeps DEF Refused
<1>4. UsersOK' /\ ProfilesBelongToAccounts'
  BY DEF IInv, UsersOK, ProfilesBelongToAccounts
<1> QED BY <1>3, <1>4 DEF IInv

\* The new account has a new id, and its person had none.
LEMMA InsertKeeps ==
    ASSUME IInv, TypeOK', NEW h \in calls, Insert(h)
    PROVE  IInv'
<1>1. CASE Registered(h.person)
  BY <1>1, RefusedKeeps DEF Insert
<1>2. CASE ~Registered(h.person)
  <2> DEFINE id == Cardinality(users) + 1
             new == [id |-> id, person |-> h.person]
  <2> PICK g : g = [h EXCEPT !.pc = "sign", !.sub = id]
    OBVIOUS
  <2>1. h \in Call /\ users \subseteq User
    BY DEF IInv, TypeOK
  <2>2. Cardinality(users) \in Nat /\ id \in Nat /\ new.id = id /\ new.person = h.person
    BY FS_CardinalityType DEF IInv, UsersOK
  <2>3. /\ users' = users \cup {new} /\ calls' = (calls \ {h}) \cup {g}
        /\ caller' = caller /\ profiles' = profiles
    BY <1>2 DEF Insert
  <2>4. /\ g.op = h.op /\ g.caller = h.caller /\ g.person = h.person /\ g.heard = h.heard
        /\ g.sub = id
    BY <2>1, <2>2 DEF Call
  <2>5. new \notin users
    BY <1>2 DEF Registered
  <2>6. IsFiniteSet(users') /\ Cardinality(users') = id
    BY <2>3, <2>5, FS_AddElement DEF IInv, UsersOK
  <2>7. UsersOK'
    <3>1. ASSUME NEW u \in users' PROVE u.id \in 1 .. Cardinality(users')
      <4>1. CASE u = new
        BY <2>2, <2>6, <4>1
      <4>2. CASE u \in users
        <5>1. u.id \in 1 .. Cardinality(users)
          BY <4>2 DEF IInv, UsersOK
        <5> QED BY <2>2, <2>6, <5>1
      <4> QED BY <2>3, <4>1, <4>2
    <3>2. ASSUME NEW u \in users PROVE u.id # new.id /\ u.person # new.person
      <4>1. u.id \in 1 .. Cardinality(users)
        BY DEF IInv, UsersOK
      <4>2. u.person # new.person
        BY <1>2, <2>2 DEF Registered
      <4> QED BY <2>2, <4>1, <4>2
    <3>3. ASSUME NEW u \in users', NEW v \in users', u.id = v.id \/ u.person = v.person
          PROVE  u = v
      <4> HIDE DEF new
      <4> QED BY <2>3, <3>2, <3>3 DEF IInv, UsersOK
    <3>4. IsFiniteSet(profiles')
      BY <2>3 DEF IInv, UsersOK
    <3> QED BY <2>6, <3>1, <3>3, <3>4 DEF UsersOK
  <2>8. Account(g.sub, g.person)'
    <3>1. [id |-> g.sub, person |-> g.person] = new
      BY <2>4
    <3> HIDE DEF new
    <3> QED BY <2>3, <3>1 DEF Account
  <2>9. CallsOK' /\ OneHeard' /\ CallersOK'
    <3>1. users \subseteq users'
      BY <2>3
    <3> HIDE DEF new, id
    <3> QED BY <2>3, <2>4, <2>8, <3>1, MovesKeeps
  <2>10. ProfilesBelongToAccounts'
    BY <2>3 DEF IInv, ProfilesBelongToAccounts
  <2> QED BY <2>7, <2>9, <2>10 DEF IInv
<1> QED BY <1>1, <1>2

LEMMA CompareKeeps ==
    ASSUME IInv, TypeOK', NEW h \in calls, Compare(h)
    PROVE  IInv'
<1>1. UNCHANGED <<users, profiles>> /\ h.pc = "compare"
  BY DEF Compare
<1>2. CASE Refused(h)
  BY <1>1, <1>2, RefusedKeeps
<1>3. CASE calls' = (calls \ {h}) \cup {[h EXCEPT !.pc = "sign"]} /\ UNCHANGED caller
  <2> DEFINE g == [h EXCEPT !.pc = "sign"]
  <2>1. g.op = h.op /\ g.caller = h.caller /\ g.person = h.person /\ g.heard = h.heard /\ g.sub = h.sub
    BY DEF IInv, TypeOK, Call
  <2>2. Account(g.sub, g.person)'
    BY <1>1, <2>1 DEF IInv, CallsOK, CallOK, Account
  <2>3. calls' = (calls \ {h}) \cup {g}
    BY <1>3
  <2> HIDE DEF g
  <2>4. CallsOK' /\ OneHeard' /\ CallersOK'
    BY <1>1, <1>3, <2>1, <2>2, <2>3, MovesKeeps
  <2>5. UsersOK' /\ ProfilesBelongToAccounts'
    BY <1>1 DEF IInv, UsersOK, ProfilesBelongToAccounts
  <2> QED BY <2>4, <2>5 DEF IInv
<1> QED BY <1>2, <1>3 DEF Compare

\* The token names the account whose id the handler has kept.
LEMMA SignKeeps ==
    ASSUME IInv, TypeOK', NEW h \in calls, Sign(h)
    PROVE  IInv'
<1> DEFINE c == h.caller
           token == [sub |-> h.sub, person |-> h.person]
           new == [caller[c] EXCEPT !.pc = "in", !.token = token]
<1>1. UNCHANGED <<users, profiles>> /\ h.pc = "sign" /\ Ends(h, new)
  BY DEF Sign, Granted
<1>2. c \in Callers /\ token \in Token /\ caller[c] \in Caller
  BY DEF IInv, TypeOK, Call, Token
<1>3. new \in Caller /\ new.pc = "in" /\ new.token = token /\ new.next = caller[c].next
  BY <1>2 DEF Caller
<1>4. CallOK(h) /\ Account(h.sub, h.person) /\ CallerOK(c)
  BY <1>1, <1>2 DEF IInv, CallsOK, CallOK, CallersOK
<1>5. h.heard => CallerOK(c)'
  <2> SUFFICES ASSUME h.heard PROVE CallerOK(c)'
    OBVIOUS
  <2>1. caller'[c] = new
    <3> HIDE DEF new
    <3> QED BY <1>1, <1>2 DEF Ends, IInv, TypeOK
  <2>5. Person(c)' = Person(c)
    BY <1>3, <2>1 DEF Person
  <2>2. caller[c].pc = "waiting" /\ h.person = Person(c)
    BY <1>4 DEF CallOK
  <2>3. token # NoToken
    BY <1>2, AccountsAssumption DEF Token, Ids
  <2>4. token.sub = h.sub /\ token.person = h.person
    OBVIOUS
  <2> HIDE DEF token, new
  <2> QED BY <1>1, <1>3, <1>4, <2>1, <2>2, <2>3, <2>4, <2>5 DEF CallerOK, Account
<1>6. CallsOK' /\ OneHeard' /\ CallersOK'
  BY <1>1, <1>3, <1>5, EndsKeeps
<1>7. UsersOK' /\ ProfilesBelongToAccounts'
  BY <1>1 DEF IInv, UsersOK, ProfilesBelongToAccounts
<1> QED BY <1>6, <1>7 DEF IInv

LEMMA InsertProfileKeeps ==
    ASSUME IInv, TypeOK', NEW h \in calls, InsertProfile(h)
    PROVE  IInv'
<1>1. CASE Taken(h.sub, h.person)
  BY <1>1, RefusedKeeps DEF InsertProfile
<1>2. CASE ~Taken(h.sub, h.person)
  <2>1. h.caller \in Callers /\ Finished(h.caller) \in Caller
    BY FinishedFields DEF IInv, TypeOK, Call
  <2>2. users' = users /\ Ends(h, Finished(h.caller)) /\ profiles' = profiles \cup {NewProfile(h)}
    BY <1>2 DEF InsertProfile, Created
  <2>3. h.heard => CallerOK(h.caller)'
    <3>1. h.heard => caller'[h.caller] = Finished(h.caller)
      BY <2>1, <2>2 DEF Ends, IInv, TypeOK
    <3> QED BY <2>1, <2>2, <3>1, EndedCaller DEF IInv, CallersOK
  <2>4. CallsOK' /\ OneHeard' /\ CallersOK'
    BY <2>1, <2>2, <2>3, EndsKeeps
  <2>5. UsersOK'
    BY <2>2, FS_AddElement DEF IInv, UsersOK
  <2>6. ProfilesBelongToAccounts'
    <3>1. Account(h.sub, h.person)
      BY DEF InsertProfile, IInv, CallsOK, CallOK
    <3>2. NewProfile(h).userId = h.sub /\ NewProfile(h).person = h.person
      BY DEF NewProfile
    <3>3. \A q \in profiles : q.person # h.person
      BY <1>2 DEF Taken
    <3> QED BY <2>2, <3>1, <3>2, <3>3 DEF IInv, ProfilesBelongToAccounts, Account
  <2> QED BY <2>4, <2>5, <2>6 DEF IInv
<1> QED BY <1>1, <1>2

LEMMA AnswerLostKeeps ==
    ASSUME IInv, TypeOK', NEW h \in calls, AnswerLost(h)
    PROVE  IInv'
<1> DEFINE c == h.caller
<1> PICK g : g = [h EXCEPT !.heard = FALSE]
  OBVIOUS
<1>1. h \in Call /\ c \in Callers
  BY DEF IInv, TypeOK, Call
<1>2. /\ h.heard /\ UNCHANGED <<users, profiles>>
      /\ calls' = (calls \ {h}) \cup {g}
      /\ caller'[c] = GivenUp(c) /\ \A d \in Callers \ {c} : caller'[d] = caller[d]
  BY <1>1 DEF AnswerLost, IInv, TypeOK
<1>3. ASSUME NEW f \in calls, f # h PROVE CallOK(f)'
  <2>1. CallOK(f) /\ f.caller \in Callers
    BY DEF IInv, CallsOK, TypeOK, Call
  <2>2. f.heard => f.caller # c
    BY <1>2, <1>3 DEF IInv, OneHeard
  <2> QED BY <1>2, <2>1, <2>2, CallStays DEF IInv
<1>4. CallOK(g)'
  <2>1. /\ g.op = h.op /\ g.pc = h.pc /\ g.caller = h.caller /\ g.person = h.person
        /\ g.sub = h.sub /\ g.heard = FALSE
    BY <1>1, CallUnheard
  <2>2. CallOK(h)
    BY DEF IInv, CallsOK
  <2> QED BY <1>2, <2>1, <2>2 DEF CallOK, Account
<1>5. CallerOK(c)'
  BY <1>1, <1>2, EndedCaller DEF IInv, CallersOK
<1>6. ASSUME NEW d \in Callers \ {c} PROVE CallerOK(d)'
  BY <1>2, CallerStays DEF IInv, CallersOK
<1>7. OneHeard'
  <2>1. g.heard = FALSE
    BY <1>1, CallUnheard
  <2> QED BY <1>2, <2>1 DEF IInv, OneHeard
<1>8. UsersOK' /\ ProfilesBelongToAccounts'
  BY <1>2 DEF IInv, UsersOK, ProfilesBelongToAccounts
<1>9. CallsOK'
  BY <1>2, <1>3, <1>4 DEF CallsOK
<1>10. CallersOK'
  BY <1>5, <1>6 DEF CallersOK
<1> QED BY <1>7, <1>8, <1>9, <1>10 DEF IInv

\* Nobody listens to the calls of a seed that has died.
LEMMA CallsAfterCrash ==
    ASSUME TypeOK, SeedCrashes, NEW g \in calls'
    PROVE  \E h \in calls : /\ g = [h EXCEPT !.heard = h.heard /\ h.caller \in Apps]
                            /\ g.op = h.op /\ g.pc = h.pc /\ g.caller = h.caller /\ g.person = h.person
                            /\ g.sub = h.sub /\ g.heard = (h.heard /\ h.caller \in Apps)
<1>1. PICK h \in calls : g = [h EXCEPT !.heard = h.heard /\ h.caller \in Apps]
  BY DEF SeedCrashes
<1>2. h \in Call
  BY DEF TypeOK
<1> QED BY <1>1, <1>2 DEF Call

LEMMA SeedCrashesKeeps ==
    ASSUME IInv, TypeOK', SeedCrashes
    PROVE  IInv'
<1>1. /\ UNCHANGED <<users, profiles>>
      /\ \A a \in Apps : caller'[a] = caller[a]
      /\ \A r \in Callers \ Apps : caller'[r] = [pc |-> "out", token |-> NoToken, next |-> 1]
  BY DEF SeedCrashes, Callers
<1>2. ASSUME NEW g \in calls' PROVE CallOK(g)'
  <2>1. PICK h \in calls : /\ g.op = h.op /\ g.pc = h.pc /\ g.caller = h.caller /\ g.person = h.person
                           /\ g.sub = h.sub /\ g.heard = (h.heard /\ h.caller \in Apps)
    BY CallsAfterCrash DEF IInv
  <2>2. CallOK(h)
    BY DEF IInv, CallsOK
  <2> QED BY <1>1, <2>1, <2>2 DEF CallOK, Account, Person
<1>3. ASSUME NEW c \in Callers PROVE CallerOK(c)'
  <2>1. CASE c \in Apps
    BY <1>1, <2>1, CallerStays DEF IInv, CallersOK
  <2>2. CASE c \notin Apps
    BY <1>1, <2>2 DEF CallerOK
  <2> QED BY <2>1, <2>2
<1>4. ASSUME NEW g1 \in calls', NEW g2 \in calls', g1.heard, g2.heard, g1.caller = g2.caller
      PROVE  g1 = g2
  <2>1. PICK h1 \in calls : /\ g1 = [h1 EXCEPT !.heard = h1.heard /\ h1.caller \in Apps]
                            /\ g1.caller = h1.caller /\ g1.heard = (h1.heard /\ h1.caller \in Apps)
    BY CallsAfterCrash DEF IInv
  <2>2. PICK h2 \in calls : /\ g2 = [h2 EXCEPT !.heard = h2.heard /\ h2.caller \in Apps]
                            /\ g2.caller = h2.caller /\ g2.heard = (h2.heard /\ h2.caller \in Apps)
    BY CallsAfterCrash DEF IInv
  <2>3. h1 = h2
    BY <1>4, <2>1, <2>2 DEF IInv, OneHeard
  <2> QED BY <2>1, <2>2, <2>3
<1>5. UsersOK' /\ ProfilesBelongToAccounts'
  BY <1>1 DEF IInv, UsersOK, ProfilesBelongToAccounts
<1>6. CallsOK' /\ OneHeard' /\ CallersOK'
  BY <1>2, <1>3, <1>4 DEF CallsOK, OneHeard, CallersOK
<1> QED BY <1>5, <1>6 DEF IInv

LEMMA TokenExpiresKeeps ==
    ASSUME IInv, TypeOK', NEW a \in Apps, TokenExpires(a)
    PROVE  IInv'
<1>1. /\ UNCHANGED <<users, profiles, calls>> /\ caller[a].pc = "in" /\ a \in Callers /\ a \notin Roles
      /\ \A d \in Callers \ {a} : caller'[d] = caller[d]
  BY AccountsAssumption DEF TokenExpires, IInv, TypeOK, Callers
<1>2. caller'[a] = [caller[a] EXCEPT !.pc = "out", !.token = NoToken] /\ caller[a] \in Caller
  BY <1>1 DEF TokenExpires, IInv, TypeOK
<1>3. caller'[a].pc = "out" /\ caller'[a].token = NoToken /\ caller'[a].next = caller[a].next
  BY <1>2 DEF Caller
<1>4. CallerOK(a)'
  BY <1>1, <1>3 DEF IInv, CallersOK, CallerOK
<1>5. UsersOK' /\ ProfilesBelongToAccounts'
  BY <1>1 DEF IInv, UsersOK, ProfilesBelongToAccounts
<1> QED BY <1>1, <1>4, <1>5, CallerChanges DEF IInv

LEMMA InitInv == Init => IInv
<1> SUFFICES ASSUME Init PROVE IInv
  OBVIOUS
<1>1. UsersOK /\ ProfilesBelongToAccounts /\ OneHeard /\ CallsOK
  BY FS_EmptySet DEF Init, UsersOK, ProfilesBelongToAccounts, OneHeard, CallsOK
<1>2. CallersOK
  BY DEF Init, CallersOK, CallerOK
<1> QED BY <1>1, <1>2, InitType DEF IInv

\* Every step of a caller, a handler or the seed's container keeps the invariant.
THEOREM StepInv == IInv /\ [Next]_vars => IInv'
<1> SUFFICES ASSUME IInv, [Next]_vars PROVE IInv'
  OBVIOUS
<1>1. TypeOK'
  BY StepType
<1>2. CASE UNCHANGED vars
  BY <1>2 DEF vars, IInv, TypeOK, UsersOK, CallsOK, CallOK, OneHeard, CallersOK, CallerOK, Person,
              Account, ProfilesBelongToAccounts
<1>3. ASSUME NEW h \in calls, HandlerFails(h) PROVE IInv'
  BY <1>1, <1>3, RefusedKeeps DEF HandlerFails
<1> QED BY <1>1, <1>2, <1>3, RegisterKeeps, CreateProfileKeeps, LoginKeeps, InsertKeeps, CompareKeeps,
           SignKeeps, InsertProfileKeeps, AnswerLostKeeps, SeedCrashesKeeps, TokenExpiresKeeps
        DEF Next, HandlerStep, Trouble

THEOREM Invariance == Spec => []IInv
  BY InitInv, StepInv, PTL DEF Spec

\* TokensTellTheTruth: a token names the one account of its owner's e-mail, even
\* if two registrations found the e-mail free, or an answer came for a caller
\* that had already gone on.
THEOREM TokensTruthful == Spec => []TokensTellTheTruth
<1>1. IInv => TokensTellTheTruth
  <2> SUFFICES ASSUME IInv, NEW c \in Callers, caller[c].token # NoToken
               PROVE  /\ caller[c].token.person = Person(c)
                      /\ {u \in users : u.person = Person(c)}
                           = {[id |-> caller[c].token.sub, person |-> Person(c)]}
    BY DEF TokensTellTheTruth
  <2> DEFINE v == [id |-> caller[c].token.sub, person |-> Person(c)]
  <2>1. caller[c].token.person = Person(c) /\ v \in users
    BY DEF IInv, CallersOK, CallerOK, Account
  <2>2. \A u \in users : u.person = v.person => u = v
    BY <2>1 DEF IInv, UsersOK
  <2> QED BY <2>1, <2>2
<1> QED BY <1>1, Invariance, PTL

\* ProfilesBelongToAccounts: driver- and rider-service are told the id and the
\* e-mail by a caller whose token is truthful, so a profile never mixes two.
THEOREM ProfilesOwned == Spec => []ProfilesBelongToAccounts
<1>1. IInv => ProfilesBelongToAccounts
  BY DEF IInv
<1> QED BY <1>1, Invariance, PTL
-----------------------------------------------------------------------------
(* The budget of the seed.                                                 *)

\* A loop of the seed is about to give p a profile.
HandledBy(r, p) ==
    /\ Person(r) = p
    /\ \/ caller[r].pc = "in"
       \/ \E h \in calls : h.heard /\ h.caller = r /\ (h.pc = "sign" \/ h.op = "profile")

InHands(p) == \E r \in Roles : HandledBy(r, p)

NoProfile(p) == \A q \in profiles : q.person # p

Unheard(p) == \E h \in calls : h.person = p /\ ~h.heard

AtRisk ==
    {p \in Seeded : /\ \A a \in Apps : PersonOf[a] # p
                    /\ NoProfile(p)
                    /\ Unheard(p) \/ (Registered(p) /\ ~InHands(p))}

Budget == Cardinality(AtRisk) <= failures + 2 * crashes

BInv == IInv /\ Budget

LEMMA SeedIsFinite == IsFiniteSet(Seeded)
<1>1. IsFiniteSet(1 .. SeedSize)
  BY FS_Interval, AccountsAssumption
<1>2. IsFiniteSet(Roles)
  <2>1. IsFiniteSet({} \cup {"driver"})
    BY FS_EmptySet, FS_AddElement
  <2>2. IsFiniteSet(({} \cup {"driver"}) \cup {"rider"})
    BY <2>1, FS_AddElement
  <2>3. Roles = ({} \cup {"driver"}) \cup {"rider"}
    BY DEF Roles
  <2> QED BY <2>2, <2>3
<1> QED BY <1>1, <1>2, FS_Product DEF Seeded

LEMMA RiskIsFinite == IsFiniteSet(AtRisk) /\ Cardinality(AtRisk) \in Nat /\ Cardinality(AtRisk') \in Nat
<1>1. AtRisk \in SUBSET Seeded /\ AtRisk' \in SUBSET Seeded
  BY DEF AtRisk
<1>2. IsFiniteSet(AtRisk) /\ IsFiniteSet(AtRisk')
  BY <1>1, SeedIsFinite, FS_Subset
<1> QED BY <1>2, FS_CardinalityType

\* Each account that comes to be at risk costs one.
LEMMA RiskGrows ==
    ASSUME NEW x, NEW y
    PROVE  /\ AtRisk' \subseteq AtRisk => Cardinality(AtRisk') <= Cardinality(AtRisk)
           /\ AtRisk' \subseteq AtRisk \cup {x} => Cardinality(AtRisk') <= Cardinality(AtRisk) + 1
           /\ AtRisk' \subseteq (AtRisk \cup {x}) \cup {y} => Cardinality(AtRisk') <= Cardinality(AtRisk) + 2
<1>1. IsFiniteSet(AtRisk) /\ Cardinality(AtRisk) \in Nat
  BY RiskIsFinite
<1>2. /\ IsFiniteSet(AtRisk \cup {x}) /\ Cardinality(AtRisk \cup {x}) \in Nat
      /\ Cardinality(AtRisk \cup {x}) <= Cardinality(AtRisk) + 1
  BY <1>1, FS_AddElement
<1>3. /\ IsFiniteSet((AtRisk \cup {x}) \cup {y}) /\ Cardinality((AtRisk \cup {x}) \cup {y}) \in Nat
      /\ Cardinality((AtRisk \cup {x}) \cup {y}) <= Cardinality(AtRisk) + 2
  BY <1>1, <1>2, FS_AddElement
<1>4. ASSUME NEW S, IsFiniteSet(S), AtRisk' \subseteq S
      PROVE  Cardinality(AtRisk') <= Cardinality(S) /\ Cardinality(AtRisk') \in Nat
  <2>1. AtRisk' \in SUBSET S
    BY <1>4
  <2>2. IsFiniteSet(AtRisk') /\ Cardinality(AtRisk') <= Cardinality(S)
    BY <1>4, <2>1, FS_Subset
  <2> QED BY <2>2, FS_CardinalityType
<1>5. AtRisk' \subseteq AtRisk => Cardinality(AtRisk') <= Cardinality(AtRisk)
  BY <1>1, <1>4
<1>6. AtRisk' \subseteq AtRisk \cup {x} => Cardinality(AtRisk') <= Cardinality(AtRisk) + 1
  <2> SUFFICES ASSUME AtRisk' \subseteq AtRisk \cup {x} PROVE Cardinality(AtRisk') <= Cardinality(AtRisk) + 1
    OBVIOUS
  <2>1. Cardinality(AtRisk') <= Cardinality(AtRisk \cup {x}) /\ Cardinality(AtRisk') \in Nat
    BY <1>2, <1>4
  <2> QED BY <1>1, <1>2, <2>1
<1>7. AtRisk' \subseteq (AtRisk \cup {x}) \cup {y} => Cardinality(AtRisk') <= Cardinality(AtRisk) + 2
  <2> SUFFICES ASSUME AtRisk' \subseteq (AtRisk \cup {x}) \cup {y}
               PROVE  Cardinality(AtRisk') <= Cardinality(AtRisk) + 2
    OBVIOUS
  <2>1. Cardinality(AtRisk') <= Cardinality((AtRisk \cup {x}) \cup {y}) /\ Cardinality(AtRisk') \in Nat
    BY <1>3, <1>4
  <2> QED BY <1>1, <1>3, <2>1
<1> QED BY <1>5, <1>6, <1>7

\* An account nobody lost and nobody dropped is not more at risk than before.
LEMMA RiskStays ==
    ASSUME NEW p \in AtRisk', profiles \subseteq profiles', Unheard(p)' => Unheard(p),
           Registered(p)' => Registered(p), InHands(p) => InHands(p)'
    PROVE  p \in AtRisk
  BY DEF AtRisk, NoProfile

LEMMA HandsKept ==
    ASSUME NEW p, NEW r \in Roles, HandledBy(r, p), caller'[r] = caller[r],
           \A h \in calls : h.heard /\ h.caller = r => h \in calls'
    PROVE  InHands(p)'
  BY DEF HandledBy, InHands, Person

\* An account at risk belongs to no app: whoever works on it works for the seed.
LEMMA SeedsOwn ==
    ASSUME IInv, NEW p \in AtRisk', NEW h \in calls, h.person = p
    PROVE  h.caller \in Roles
  BY DEF IInv, CallsOK, CallOK, AtRisk, TypeOK, Call, Callers

\* A caller that waits has nothing in hands but what its call does.
LEMMA WaitsForOne ==
    ASSUME IInv, NEW h \in calls, h.heard, NEW p, HandledBy(h.caller, p)
    PROVE  p = h.person /\ (h.pc = "sign" \/ h.op = "profile")
  BY DEF IInv, CallsOK, CallOK, OneHeard, HandledBy

\* The handler of call h answers: only the account it was for is in danger.
LEMMA EndsRisk ==
    ASSUME IInv, NEW h \in calls, NEW new, Ends(h, new), users' = users,
           profiles \subseteq profiles', NEW p \in AtRisk',
           h.heard => ~HandledBy(h.caller, p) \/ InHands(p)'
    PROVE  p \in AtRisk
<1>1. calls' = calls \ {h}
  BY DEF Ends
<1>2. Unheard(p)' => Unheard(p)
  BY <1>1 DEF Unheard
<1>3. ASSUME NEW r \in Roles, HandledBy(r, p) PROVE InHands(p)'
  <2>1. CASE h.heard /\ r = h.caller
    BY <1>3, <2>1
  <2>2. CASE ~(h.heard /\ r = h.caller)
    <3>1. caller'[r] = caller[r]
      BY <2>2 DEF Ends, IInv, TypeOK, Callers
    <3>2. \A f \in calls : f.heard /\ f.caller = r => f \in calls'
      BY <1>1, <2>2
    <3> QED BY <1>3, <3>1, <3>2, HandsKept
  <2> QED BY <2>1, <2>2
<1>4. InHands(p) => InHands(p)'
  BY <1>3 DEF InHands
<1> QED BY <1>2, <1>4, RiskStays DEF Registered

LEMMA RegisterRisk ==
    ASSUME IInv, NEW c \in Callers, register(c), NEW p \in AtRisk'
    PROVE  p \in AtRisk
<1>1. UNCHANGED <<users, profiles>> /\ caller[c].pc = "out"
  BY DEF register
<1>2. /\ calls \subseteq calls' /\ \A h \in calls' \ calls : h.heard
      /\ \A d \in Callers \ {c} : caller'[d] = caller[d]
  BY DEF register, RefusedAtOnce, Begins, NewCall, IInv, TypeOK
<1>3. ASSUME NEW r \in Roles, HandledBy(r, p) PROVE InHands(p)'
  <2>1. r # c
    BY <1>1, <1>3 DEF HandledBy, IInv, CallsOK, CallOK
  <2> QED BY <1>2, <1>3, <2>1, HandsKept DEF Callers
<1>4. InHands(p) => InHands(p)'
  BY <1>3 DEF InHands
<1> QED BY <1>1, <1>2, <1>4, RiskStays DEF Unheard, Registered

LEMMA LoginRisk ==
    ASSUME IInv, NEW a \in Apps, NEW right \in BOOLEAN, login(a, right), NEW p \in AtRisk'
    PROVE  p \in AtRisk
<1>1. UNCHANGED <<users, profiles>> /\ a \notin Roles /\ Roles \subseteq Callers
  BY AccountsAssumption DEF login, Callers
<1>2. calls \subseteq calls' /\ \A d \in Roles : caller'[d] = caller[d]
  BY <1>1 DEF login, RefusedAtOnce, Begins, IInv, TypeOK
<1>3. \A h \in calls' \ calls : h.heard
  <2>1. CASE RefusedAtOnce(a)
    BY <2>1 DEF RefusedAtOnce
  <2>2. CASE Registered(Person(a))
    <3> DEFINE v == CHOOSE u \in users : u.person = Person(a)
               h == [NewCall(a, "login", "compare") EXCEPT !.right = right, !.sub = v.id]
    <3>1. h.heard
      BY DEF NewCall
    <3>2. Begins(a, h)
      BY <2>2 DEF login
    <3> HIDE DEF h
    <3> QED BY <3>1, <3>2 DEF Begins
  <2> QED BY <2>1, <2>2 DEF login
<1>4. InHands(p) => InHands(p)'
  BY <1>2, HandsKept DEF InHands
<1> QED BY <1>1, <1>2, <1>3, <1>4, RiskStays DEF Unheard, Registered

LEMMA CreateProfileRisk ==
    ASSUME IInv, NEW c \in Callers, createProfile(c), NEW p \in AtRisk'
    PROVE  p \in AtRisk
<1>1. UNCHANGED <<users, profiles>> /\ caller[c].pc = "in"
  BY DEF createProfile
<1>2. CASE caller' = [caller EXCEPT ![c] = Finished(c)] /\ UNCHANGED calls
           /\ \E q \in profiles : q.person = Person(c)
  <2>1. \A d \in Callers \ {c} : caller'[d] = caller[d]
    BY <1>2 DEF IInv, TypeOK
  <2>2. ASSUME NEW r \in Roles, HandledBy(r, p) PROVE InHands(p)'
    <3>1. r # c
      BY <1>1, <1>2, <2>2 DEF HandledBy, AtRisk, NoProfile
    <3> QED BY <1>2, <2>1, <2>2, <3>1, HandsKept DEF Callers
  <2>3. InHands(p) => InHands(p)'
    BY <2>2 DEF InHands
  <2> QED BY <1>1, <1>2, <2>3, RiskStays DEF Unheard, Registered
<1>3. CASE Begins(c, [NewCall(c, "profile", "insert") EXCEPT !.sub = Identity(c)])
  <2> PICK h : h = [NewCall(c, "profile", "insert") EXCEPT !.sub = Identity(c)]
    OBVIOUS
  <2>1. h.heard /\ h.op = "profile" /\ h.caller = c
    BY DEF NewCall
  <2>2. /\ calls' = calls \cup {h} /\ caller'[c].next = caller[c].next
        /\ \A d \in Callers \ {c} : caller'[d] = caller[d]
    BY <1>3 DEF Begins, IInv, TypeOK, Caller
  <2>3. ASSUME NEW r \in Roles, HandledBy(r, p) PROVE InHands(p)'
    <3>1. CASE r = c
      BY <2>1, <2>2, <2>3, <3>1 DEF HandledBy, InHands, Person
    <3>2. CASE r # c
      BY <2>2, <2>3, <3>2, HandsKept DEF Callers
    <3> QED BY <3>1, <3>2
  <2>4. InHands(p) => InHands(p)'
    BY <2>3 DEF InHands
  <2>5. Unheard(p)' => Unheard(p)
    BY <2>1, <2>2 DEF Unheard
  <2> QED BY <1>1, <2>4, <2>5, RiskStays DEF Registered
<1> QED BY <1>2, <1>3 DEF createProfile

\* A refused registration drops an account that was lost before; a granted one
\* is in hands, unless nobody listened, and then the account was at risk already.
LEMMA InsertRisk ==
    ASSUME IInv, NEW h \in calls, Insert(h), NEW p \in AtRisk'
    PROVE  p \in AtRisk
<1>1. h.op = "register" /\ h.pc = "insert" /\ profiles' = profiles
  BY DEF Insert
<1>2. CASE Registered(h.person)
  <2>1. h.heard => ~HandledBy(h.caller, p)
    BY <1>1, WaitsForOne
  <2> QED BY <1>1, <1>2, <2>1, EndsRisk DEF Insert, Refused
<1>3. CASE ~Registered(h.person)
  <2> DEFINE id == Cardinality(users) + 1
             new == [id |-> id, person |-> h.person]
  <2> PICK g : g = [h EXCEPT !.pc = "sign", !.sub = id]
    OBVIOUS
  <2>1. /\ users' = users \cup {new} /\ calls' = (calls \ {h}) \cup {g} /\ caller' = caller
        /\ new.person = h.person
    BY <1>3 DEF Insert
  <2>2. g.pc = "sign" /\ g.caller = h.caller /\ g.person = h.person /\ g.heard = h.heard
    BY DEF IInv, TypeOK, Call
  <2> HIDE DEF new, id
  <2>3. CASE p # h.person
    <3>1. Unheard(p)' => Unheard(p)
      BY <2>1, <2>2, <2>3 DEF Unheard
    <3>2. Registered(p)' => Registered(p)
      BY <2>1, <2>3 DEF Registered
    <3>3. InHands(p) => InHands(p)'
      BY <1>1, <2>1 DEF InHands, HandledBy, Person
    <3> QED BY <1>1, <3>1, <3>2, <3>3, RiskStays
  <2>4. CASE p = h.person /\ ~h.heard
    <3>1. Unheard(p)
      BY <2>4 DEF Unheard
    <3> QED BY <1>1, <3>1 DEF AtRisk, NoProfile
  <2>5. CASE p = h.person /\ h.heard
    <3>1. h.caller \in Roles /\ Person(h.caller) = p
      BY <2>5, SeedsOwn DEF IInv, CallsOK, CallOK
    <3>2. InHands(p)'
      BY <2>1, <2>2, <2>5, <3>1 DEF InHands, HandledBy, Person
    <3>3. Unheard(p)
      BY <2>1, <2>2, <2>5, <3>2 DEF AtRisk, Unheard
    <3> QED BY <1>1, <3>3 DEF AtRisk, NoProfile
  <2> QED BY <2>3, <2>4, <2>5
<1> QED BY <1>2, <1>3

LEMMA CompareRisk ==
    ASSUME IInv, NEW h \in calls, Compare(h), NEW p \in AtRisk'
    PROVE  p \in AtRisk
<1>1. UNCHANGED <<users, profiles>> /\ h.caller \in Apps /\ h.caller \notin Roles /\ h.person # p
  BY AccountsAssumption DEF Compare, IInv, CallsOK, CallOK, AtRisk
<1>2. CASE Refused(h)
  BY <1>1, <1>2, EndsRisk, WaitsForOne DEF Refused
<1>3. CASE calls' = (calls \ {h}) \cup {[h EXCEPT !.pc = "sign"]} /\ UNCHANGED caller
  <2> PICK g : g = [h EXCEPT !.pc = "sign"]
    OBVIOUS
  <2>1. calls' = (calls \ {h}) \cup {g} /\ g.person = h.person
    BY <1>3 DEF IInv, TypeOK, Call
  <2>2. Unheard(p)' => Unheard(p)
    BY <1>1, <2>1 DEF Unheard
  <2>3. InHands(p) => InHands(p)'
    BY <1>1, <1>3, <2>1, HandsKept DEF InHands
  <2> QED BY <1>1, <2>2, <2>3, RiskStays DEF Registered
<1> QED BY <1>2, <1>3 DEF Compare

LEMMA SignRisk ==
    ASSUME IInv, NEW h \in calls, Sign(h), NEW p \in AtRisk'
    PROVE  p \in AtRisk
<1> DEFINE c == h.caller
           new == [caller[c] EXCEPT !.pc = "in", !.token = [sub |-> h.sub, person |-> h.person]]
<1>1. UNCHANGED <<users, profiles>> /\ Ends(h, new)
  BY DEF Sign, Granted
<1>2. ASSUME h.heard, HandledBy(c, p) PROVE InHands(p)'
  <2>1. p = h.person /\ c \in Roles
    BY <1>2, WaitsForOne, SeedsOwn
  <2>2. new.pc = "in" /\ new.next = caller[c].next
    BY <2>1 DEF IInv, TypeOK, Caller, Callers
  <2>3. caller'[c] = new
    <3> HIDE DEF new
    <3> QED BY <1>1, <1>2, <2>1 DEF Ends, IInv, TypeOK, Callers
  <2> HIDE DEF new
  <2> QED BY <1>2, <2>1, <2>2, <2>3 DEF HandledBy, InHands, Person
<1> HIDE DEF new
<1> QED BY <1>1, <1>2, EndsRisk

\* The account has a profile afterwards, also when the insert is refused: ids and
\* e-mails belong together, so what is taken is taken by the account itself.
LEMMA InsertProfileRisk ==
    ASSUME IInv, NEW h \in calls, InsertProfile(h), NEW p \in AtRisk'
    PROVE  p \in AtRisk
<1>1. ~NoProfile(h.person)'
  <2>1. CASE Taken(h.sub, h.person)
    <3>1. PICK q \in profiles : q.userId = h.sub \/ q.person = h.person
      BY <2>1 DEF Taken
    <3>2. Account(q.userId, q.person) /\ Account(h.sub, h.person)
      BY DEF InsertProfile, IInv, ProfilesBelongToAccounts, CallsOK, CallOK, Account
    <3>3. q.person = h.person
      BY <3>1, <3>2 DEF IInv, UsersOK, Account
    <3>4. profiles' = profiles
      BY <2>1 DEF InsertProfile
    <3> QED BY <3>3, <3>4 DEF NoProfile
  <2>2. CASE ~Taken(h.sub, h.person)
    <3>1. profiles' = profiles \cup {NewProfile(h)} /\ NewProfile(h).person = h.person
      BY <2>2 DEF InsertProfile, NewProfile
    <3> QED BY <3>1 DEF NoProfile
  <2> QED BY <2>1, <2>2
<1>2. p # h.person
  BY <1>1 DEF AtRisk
<1>3. h.heard => ~HandledBy(h.caller, p)
  BY <1>2, WaitsForOne
<1>4. users' = users /\ profiles \subseteq profiles' /\ \E new : Ends(h, new)
  BY DEF InsertProfile, Refused, Created
<1> QED BY <1>3, <1>4, EndsRisk

LEMMA HandlerFailsRisk ==
    ASSUME IInv, NEW h \in calls, HandlerFails(h), NEW p \in AtRisk', p # h.person
    PROVE  p \in AtRisk
  BY EndsRisk, WaitsForOne DEF HandlerFails, Refused

LEMMA AnswerLostRisk ==
    ASSUME IInv, NEW h \in calls, AnswerLost(h), NEW p \in AtRisk', p # h.person
    PROVE  p \in AtRisk
<1> PICK g : g = [h EXCEPT !.heard = FALSE]
  OBVIOUS
<1>1. /\ calls' = (calls \ {h}) \cup {g} /\ UNCHANGED <<users, profiles>> /\ h.heard
      /\ \A d \in Callers \ {h.caller} : caller'[d] = caller[d]
  BY DEF AnswerLost, IInv, TypeOK
<1>2. g.person = h.person
  BY DEF IInv, TypeOK, Call
<1>3. ASSUME NEW r \in Roles, HandledBy(r, p) PROVE InHands(p)'
  <2>1. r # h.caller
    BY <1>1, <1>3, WaitsForOne
  <2> QED BY <1>1, <1>3, <2>1, HandsKept DEF Callers
<1>4. InHands(p) => InHands(p)'
  BY <1>3 DEF InHands
<1>5. Unheard(p)' => Unheard(p)
  BY <1>1, <1>2 DEF Unheard
<1> QED BY <1>1, <1>4, <1>5, RiskStays DEF Registered

\* The seed was at one account of each role.
LEMMA SeedCrashesRisk ==
    ASSUME IInv, SeedCrashes, NEW p \in AtRisk', p # Person("driver"), p # Person("rider")
    PROVE  p \in AtRisk
<1>1. \A r \in Roles : Person(r) # p
  BY DEF Roles
<1>2. ~InHands(p)
  BY <1>1 DEF InHands, HandledBy
<1>3. UNCHANGED <<users, profiles>>
  BY DEF SeedCrashes
<1>4. Unheard(p)' => Unheard(p)
  <2> SUFFICES ASSUME NEW g \in calls', g.person = p, ~g.heard PROVE Unheard(p)
    BY DEF Unheard
  <2>1. PICK h \in calls : g.person = h.person /\ g.heard = (h.heard /\ h.caller \in Apps)
    BY CallsAfterCrash DEF IInv
  <2>2. h.caller \in Roles
    BY <2>1, SeedsOwn
  <2>3. ~h.heard
    BY <1>1, <2>1, <2>2 DEF IInv, CallsOK, CallOK
  <2> QED BY <2>1, <2>3 DEF Unheard
<1> QED BY <1>2, <1>3, <1>4, RiskStays DEF Registered

LEMMA TokenExpiresRisk ==
    ASSUME IInv, NEW a \in Apps, TokenExpires(a), NEW p \in AtRisk'
    PROVE  p \in AtRisk
<1>1. UNCHANGED <<users, profiles, calls>> /\ \A r \in Roles : caller'[r] = caller[r]
  BY AccountsAssumption DEF TokenExpires, IInv, TypeOK, Callers
<1>2. InHands(p) => InHands(p)'
  BY <1>1, HandsKept DEF InHands
<1> QED BY <1>1, <1>2, RiskStays DEF Unheard, Registered

\* What a step adds to the accounts at risk, it adds to the failures.
THEOREM StepBudget == BInv /\ [Next]_vars => Budget'
<1> SUFFICES ASSUME IInv, Budget, [Next]_vars PROVE Budget'
  BY DEF BInv
<1>1. /\ failures \in Nat /\ crashes \in Nat /\ failures' \in Nat /\ crashes' \in Nat
      /\ Cardinality(AtRisk) \in Nat /\ Cardinality(AtRisk') \in Nat
      /\ Cardinality(AtRisk) <= failures + 2 * crashes
  BY RiskIsFinite, StepType DEF Budget, IInv, TypeOK
<1>2. ASSUME AtRisk' \subseteq AtRisk, failures' = failures, crashes' = crashes PROVE Budget'
  BY <1>1, <1>2, RiskGrows DEF Budget
<1>3. ASSUME NEW x, AtRisk' \subseteq AtRisk \cup {x}, failures' = failures + 1, crashes' = crashes
      PROVE  Budget'
  <2>1. Cardinality(AtRisk') <= Cardinality(AtRisk) + 1
    BY <1>3, RiskGrows
  <2> QED BY <1>1, <1>3, <2>1 DEF Budget
<1>4. CASE UNCHANGED vars
  BY <1>2, <1>4 DEF vars, AtRisk, NoProfile, Unheard, Registered, InHands, HandledBy, Person
<1>5. CASE \E c \in Callers : register(c) \/ createProfile(c)
  BY <1>2, <1>5, RegisterRisk, CreateProfileRisk DEF register, createProfile, history
<1>6. CASE \E a \in Apps, right \in BOOLEAN : login(a, right)
  BY <1>2, <1>6, LoginRisk DEF login, history
<1>7. CASE HandlerStep
  BY <1>2, <1>7, InsertRisk, CompareRisk, SignRisk, InsertProfileRisk
     DEF HandlerStep, Insert, Compare, Sign, InsertProfile, history
<1>8. ASSUME NEW h \in calls, HandlerFails(h) PROVE Budget'
  <2>1. AtRisk' \subseteq AtRisk \cup {h.person}
    BY <1>8, HandlerFailsRisk
  <2> QED BY <1>3, <1>8, <2>1 DEF HandlerFails
<1>9. ASSUME NEW h \in calls, AnswerLost(h) PROVE Budget'
  <2>1. AtRisk' \subseteq AtRisk \cup {h.person}
    BY <1>9, AnswerLostRisk
  <2> QED BY <1>3, <1>9, <2>1 DEF AnswerLost
<1>10. CASE SeedCrashes
  <2> PICK x, y : x = Person("driver") /\ y = Person("rider")
    OBVIOUS
  <2>1. AtRisk' \subseteq (AtRisk \cup {x}) \cup {y}
    BY <1>10, SeedCrashesRisk
  <2>2. crashes' = crashes + 1 /\ failures' = failures
    BY <1>10 DEF SeedCrashes
  <2>3. Cardinality(AtRisk') <= Cardinality(AtRisk) + 2
    BY <2>1, RiskGrows
  <2> QED BY <1>1, <2>2, <2>3 DEF Budget
<1>11. CASE \E a \in Apps : TokenExpires(a)
  BY <1>2, <1>11, TokenExpiresRisk DEF TokenExpires
<1> QED BY <1>4, <1>5, <1>6, <1>7, <1>8, <1>9, <1>10, <1>11 DEF Next, Trouble

LEMMA InitBudget == Init => Budget
<1> SUFFICES ASSUME Init PROVE Budget
  OBVIOUS
<1>1. AtRisk = {}
  BY DEF Init, AtRisk, Unheard, Registered
<1> QED BY <1>1, FS_EmptySet DEF Init, Budget

\* HalfSeededCostFailures: an account the seed has left without a profile is at
\* risk, and each was paid for, by a failure or by a crash for at most two.
THEOREM HalfSeededPaid == Spec => []HalfSeededCostFailures
<1>1. BInv => HalfSeededCostFailures
  <2> SUFFICES ASSUME IInv, Budget PROVE HalfSeededCostFailures
    BY DEF BInv
  <2>1. HalfSeeded \subseteq AtRisk
    BY DEF HalfSeeded, AtRisk, NoProfile, InHands, HandledBy, IInv, CallsOK, CallOK
  <2>2. HalfSeeded \in SUBSET AtRisk /\ IsFiniteSet(AtRisk)
    BY <2>1, RiskIsFinite
  <2>3. IsFiniteSet(HalfSeeded) /\ Cardinality(HalfSeeded) <= Cardinality(AtRisk)
    BY <2>2, FS_Subset
  <2>4. Cardinality(HalfSeeded) \in Nat /\ Cardinality(AtRisk) \in Nat
    BY <2>3, FS_CardinalityType, RiskIsFinite
  <2> QED BY <2>3, <2>4 DEF Budget, HalfSeededCostFailures, IInv, TypeOK
<1>2. Init => BInv
  BY InitInv, InitBudget DEF BInv
<1>3. BInv /\ [Next]_vars => BInv'
  BY StepInv, StepBudget DEF BInv
<1> QED BY <1>1, <1>2, <1>3, PTL DEF Spec
=============================================================================
