------------------------------ MODULE Accounts ------------------------------
(***************************************************************************)
(* How somebody becomes a user with a profile: registration and login in   *)
(* auth-service (through the gateway), the profile in driver- or           *)
(* rider-service, and the two kinds of clients that go this way, apps (as  *)
(* the load test plays them) and the seed script.                          *)
(*                                                                         *)
(* A call is a handler with a step for each await.  A caller that has lost *)
(* the connection goes on without the answer, and so does the handler: it  *)
(* may still write the row its caller has given up.                        *)
(***************************************************************************)
EXTENDS Naturals, FiniteSets

CONSTANTS
    Apps,       \* clients of the gateway
    PersonOf,   \* whose app it is: an account <<role, number>>
    SeedSize,   \* accounts the seed creates for each role
    NoToken,
    MaxTrouble  \* bound on failing and lost calls, crashes and expired tokens

Roles == {"driver", "rider"}
Seeded == Roles \X (1 .. SeedSize)
People == Seeded \cup {PersonOf[a] : a \in Apps}
Callers == Apps \cup Roles  \* the seed runs one loop for each role

ASSUME AccountsAssumption ==
    /\ PersonOf \in [Apps -> Roles \X (Nat \ {0})]
    /\ Apps \cap Roles = {}
    /\ SeedSize \in Nat /\ MaxTrouble \in Nat
    /\ NoToken \notin Nat \cup [sub : Nat, person : People]

VARIABLES
    users,     \* auth-service's table; an e-mail stands for the account's person
    profiles,  \* the tables of driver- and rider-service
    caller,    \* what each caller is doing
    calls,     \* handlers in progress
    failures,  \* history: calls that failed or whose answer was lost,
    crashes,   \* crashes of the seed
    expiries   \* and tokens that expired

vars == <<users, profiles, caller, calls, failures, crashes, expiries>>

Ids == Nat
User == [id : Ids, person : People]
Token == [sub : Ids, person : People]
Profile == [id : Ids, userId : Ids, person : People]

\* "next" is the number of the account a seed loop is at.
Caller == [pc : {"out", "waiting", "in", "done"}, token : Token \cup {NoToken}, next : Nat]

\* "heard": the caller still waits.  "sub" is the id read or inserted, or the
\* id a profile is for.
Call == [op : {"register", "login", "profile"}, pc : {"insert", "compare", "sign"},
         caller : Callers, person : People, right : BOOLEAN, sub : Ids, heard : BOOLEAN]

Init ==
    /\ users = {} /\ profiles = {}
    /\ caller = [c \in Callers |-> [pc |-> "out", token |-> NoToken, next |-> 1]]
    /\ calls = {}
    /\ failures = 0 /\ crashes = 0 /\ expiries = 0

history == <<failures, crashes, expiries>>

Person(c) == IF c \in Apps THEN PersonOf[c] ELSE <<c, caller[c].next>>

-----------------------------------------------------------------------------
(* What a caller does with an answer.                                      *)

\* An app stays where it was.  The seed catches the error, reports it and goes
\* on with the next account, as it does after a profile.
GivenUp(c) ==
    IF c \in Apps THEN [caller[c] EXCEPT !.pc = IF caller[c].token = NoToken THEN "out" ELSE "in"]
    ELSE [pc |-> "out", token |-> NoToken, next |-> caller[c].next + 1]

Ends(h, new) ==
    /\ calls' = calls \ {h}
    /\ caller' = IF h.heard THEN [caller EXCEPT ![h.caller] = new] ELSE caller

\* Any 4xx or 5xx; forwardError passes it on.
Refused(h) == Ends(h, GivenUp(h.caller))

Granted(h, token) == Ends(h, [caller[h.caller] EXCEPT !.pc = "in", !.token = token])

\* The profile is there; the seed goes on with the next account.
Finished(c) == IF c \in Apps THEN [caller[c] EXCEPT !.pc = "done"] ELSE GivenUp(c)

Created(h) == Ends(h, Finished(h.caller))

Begins(c, h) ==
    /\ calls' = calls \cup {h}
    /\ caller' = [caller EXCEPT ![c].pc = "waiting"]

RefusedAtOnce(c) == caller' = [caller EXCEPT ![c] = GivenUp(c)] /\ UNCHANGED calls

-----------------------------------------------------------------------------
(* auth-service.                                                           *)

Registered(p) == \E u \in users : u.person = p

NewCall(c, op, pc) ==
    [op |-> op, pc |-> pc, caller |-> c, person |-> Person(c), right |-> TRUE, sub |-> 0, heard |-> TRUE]

\* register: findByEmail, and 409 if it finds somebody.
register(c) ==
    /\ caller[c].pc = "out"
    /\ c \in Roles => caller[c].next <= SeedSize
    /\ IF Registered(Person(c)) THEN RefusedAtOnce(c)
       ELSE Begins(c, NewCall(c, "register", "insert"))
    /\ UNCHANGED <<users, profiles, history>>

\* Faulty: an insert that was refused is taken for one that was done before.
InsertForgiving(h) ==
    /\ h.op = "register" /\ h.pc = "insert"
    /\ LET id == Cardinality(users) + 1 IN
        /\ users' = IF Registered(h.person) THEN users ELSE users \cup {[id |-> id, person |-> h.person]}
        /\ calls' = (calls \ {h}) \cup {[h EXCEPT !.pc = "sign", !.sub = id]}
    /\ UNCHANGED <<profiles, caller, history>>

\* Faulty: a refused insert is tried again.
InsertRetried(h) ==
    /\ h.op = "register" /\ h.pc = "insert"
    /\ ~Registered(h.person)
    /\ LET id == Cardinality(users) + 1 IN
        /\ users' = users \cup {[id |-> id, person |-> h.person]}
        /\ calls' = (calls \ {h}) \cup {[h EXCEPT !.pc = "sign", !.sub = id]}
    /\ UNCHANGED <<profiles, caller, history>>

\* save, after the password was hashed: another registration may have been
\* faster, and then the unique index refuses this one with a 500.
Insert(h) ==
    /\ h.op = "register" /\ h.pc = "insert"
    /\ IF Registered(h.person) THEN Refused(h) /\ UNCHANGED users
       ELSE LET id == Cardinality(users) + 1 IN
            /\ users' = users \cup {[id |-> id, person |-> h.person]}
            /\ calls' = (calls \ {h}) \cup {[h EXCEPT !.pc = "sign", !.sub = id]}
            /\ UNCHANGED caller
    /\ UNCHANGED <<profiles, history>>

\* login: findByEmail; an unknown e-mail is a 401, with any password.
login(a, right) ==
    /\ caller[a].pc = "out"
    /\ IF Registered(Person(a))
       THEN LET u == CHOOSE u \in users : u.person = Person(a) IN
            Begins(a, [NewCall(a, "login", "compare") EXCEPT !.right = right, !.sub = u.id])
       ELSE RefusedAtOnce(a)
    /\ UNCHANGED <<users, profiles, history>>

\* bcrypt.compare.
Compare(h) ==
    /\ h.op = "login" /\ h.pc = "compare"
    /\ IF h.right THEN calls' = (calls \ {h}) \cup {[h EXCEPT !.pc = "sign"]} /\ UNCHANGED caller
       ELSE Refused(h)
    /\ UNCHANGED <<users, profiles, history>>

\* signAsync, and the answer.
Sign(h) ==
    /\ h.op \in {"register", "login"} /\ h.pc = "sign"
    /\ Granted(h, [sub |-> h.sub, person |-> h.person])
    /\ UNCHANGED <<users, profiles, history>>

-----------------------------------------------------------------------------
(* driver- and rider-service.                                              *)

Taken(userId, person) == \E q \in profiles : q.userId = userId \/ q.person = person

\* Faulty: the newest account is taken for the caller's.
IdentityNewest(c) == Cardinality(users)

\* The seed reads the id out of the token.
userIdFromToken(token) == token.sub

\* What the gateway finds in a token it has verified.
VerifiedId(token) == token.sub

\* The id a profile is created for; an app asks GET /users/me, which knows the
\* user by the id the gateway has verified, whatever the app sends.
Identity(c) ==
    IF c \in Roles THEN userIdFromToken(caller[c].token) ELSE VerifiedId(caller[c].token)

\* createDriver looks for the e-mail first and says 409, by which a driver's app
\* knows that it is done; createRider does not look.
createProfile(c) ==
    /\ caller[c].pc = "in"
    /\ IF Person(c)[1] = "driver" /\ \E q \in profiles : q.person = Person(c)
       THEN /\ caller' = [caller EXCEPT ![c] = Finished(c)]
            /\ UNCHANGED calls
       ELSE Begins(c, [NewCall(c, "profile", "insert") EXCEPT !.sub = Identity(c)])
    /\ UNCHANGED <<users, profiles, history>>

NewProfile(h) == [id |-> Cardinality(profiles) + 1, userId |-> h.sub, person |-> h.person]

\* The unique indexes on the user's id and on the e-mail.
InsertProfile(h) ==
    /\ h.op = "profile"
    /\ IF Taken(h.sub, h.person) THEN Refused(h) /\ UNCHANGED profiles
       ELSE Created(h) /\ profiles' = profiles \cup {NewProfile(h)}
    /\ UNCHANGED <<users, history>>

HandlerStep == \E h \in calls : Insert(h) \/ Compare(h) \/ Sign(h) \/ InsertProfile(h)

-----------------------------------------------------------------------------
(* What goes wrong.                                                        *)

TroubleLeft == failures + crashes + expiries < MaxTrouble

\* A call of a handler fails: 500, with what was written staying.
HandlerFails(h) ==
    /\ TroubleLeft
    /\ failures' = failures + 1
    /\ Refused(h)
    /\ UNCHANGED <<users, profiles, crashes, expiries>>

\* The connection breaks: 503, or an error of axios.  The handler goes on.
AnswerLost(h) ==
    /\ TroubleLeft /\ h.heard
    /\ failures' = failures + 1
    /\ calls' = (calls \ {h}) \cup {[h EXCEPT !.heard = FALSE]}
    /\ caller' = [caller EXCEPT ![h.caller] = GivenUp(h.caller)]
    /\ UNCHANGED <<users, profiles, crashes, expiries>>

\* The seed's container dies and is started again by hand.
SeedCrashes ==
    /\ TroubleLeft
    /\ \E r \in Roles : caller[r].next <= SeedSize
    /\ crashes' = crashes + 1
    /\ calls' = {[h EXCEPT !.heard = h.heard /\ h.caller \in Apps] : h \in calls}
    /\ caller' = [c \in Callers |-> IF c \in Apps THEN caller[c]
                                    ELSE [pc |-> "out", token |-> NoToken, next |-> 1]]
    /\ UNCHANGED <<users, profiles, failures, expiries>>

\* The gateway says 401 to an expired token, and the app has to log in.
TokenExpires(a) ==
    /\ TroubleLeft
    /\ caller[a].pc = "in"
    /\ expiries' = expiries + 1
    /\ caller' = [caller EXCEPT ![a].pc = "out", ![a].token = NoToken]
    /\ UNCHANGED <<users, profiles, calls, failures, crashes>>

Trouble ==
    \/ \E h \in calls : HandlerFails(h) \/ AnswerLost(h)
    \/ SeedCrashes
    \/ \E a \in Apps : TokenExpires(a)

Next ==
    \/ \E c \in Callers : register(c) \/ createProfile(c)
    \/ \E a \in Apps, right \in BOOLEAN : login(a, right)
    \/ HandlerStep
    \/ Trouble

Spec == Init /\ [][Next]_vars

\* Handlers come to an end; the seed goes on.  An app tries its right password
\* and not only wrong ones, and asks for its profile (strong fairness: wrong
\* passwords may come between, but not for ever).
GoesOn(c) ==
    \/ register(c) \/ createProfile(c)
    \/ c \in Apps /\ login(c, TRUE)

Fairness ==
    /\ WF_vars(HandlerStep)
    /\ \A c \in Roles : WF_vars(GoesOn(c))
    /\ \A a \in Apps : SF_vars(GoesOn(a))

FairSpec == Spec /\ Fairness

-----------------------------------------------------------------------------
\* Types.
TypeOK ==
    /\ users \subseteq User /\ profiles \subseteq Profile
    /\ caller \in [Callers -> Caller]
    /\ calls \subseteq Call
    /\ failures \in Nat /\ crashes \in Nat /\ expiries \in Nat

\* A token names the one account of its owner's e-mail, with that account's role,
\* although two registrations may both have found the e-mail free.
TokensTellTheTruth ==
    \A c \in Callers : caller[c].token # NoToken =>
        /\ caller[c].token.person = Person(c)
        /\ {u \in users : u.person = Person(c)} = {[id |-> caller[c].token.sub, person |-> Person(c)]}

\* Nobody has two profiles, and a profile belongs to the account it names:
\* driver- and rider-service cannot check that, they are told.
ProfilesBelongToAccounts ==
    /\ \A q \in profiles : [id |-> q.userId, person |-> q.person] \in users
    /\ \A q, r \in profiles : q.person = r.person => q.id = r.id

\* Seeded accounts nobody is working on any more, without a profile.  A second
\* run of the seed does not repair them: it gets 409 and goes on.
HalfSeeded ==
    {p \in Seeded :
        /\ Registered(p) /\ ~ \E q \in profiles : q.person = p
        /\ \A a \in Apps : PersonOf[a] # p
        /\ \A h \in calls : h.person # p
        /\ \A r \in Roles : ~(Person(r) = p /\ caller[r].pc \in {"waiting", "in"})}

\* A call that fails costs the seed one account; a crash costs at most the two
\* it is working on.  All others are complete, however often it runs.
HalfSeededCostFailures == Cardinality(HalfSeeded) <= failures + 2 * crashes

\* A driver's app that repeats what has failed ends with a profile, even if its
\* first registration was lost after the row was written, or a double of it was
\* faster; and the seed comes to its end.  (A rider's app might not: for it a
\* profile that exists is a 500 like any other.)
EverybodyGetsIn ==
    <>(/\ \A a \in Apps : PersonOf[a][1] = "driver" => caller[a].pc = "done"
       /\ \A r \in Roles : caller[r].next > SeedSize)
=============================================================================
