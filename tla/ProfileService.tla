--------------------------- MODULE ProfileService ---------------------------
(***************************************************************************)
(* The profile part of auth-service: the key of each user's photo in the   *)
(* users table, the photos in S3, and the events that tell driver-service  *)
(* who has one.                                                            *)
(*                                                                         *)
(* A request is handled in steps, one for each await, from the row it read *)
(* first; the table, the bucket and the topic are written one after the    *)
(* other, without a transaction, and requests of one user may overlap.     *)
(* Refusals that come before the first write (404, a key of somebody else) *)
(* are the absence of a step.                                              *)
(***************************************************************************)
EXTENDS Broker, FiniteSets

CONSTANTS
    Riders,       \* users who are no drivers
    Keys,         \* the keys that randomUUID will produce, each once,
    Owner,        \* and the user under whose prefix createUploadUrl puts each
    NoKey,        \* photo_key: null
    NoUser,
    Uploads,      \* what clients PUT: "image", "fake" (another file), "huge"
    ProfileSlots, \* requests that may be in progress at the same time
    MaxEvents,    \* bound on the events published and the requests that lead to one
    MaxFaults     \* bound on failing calls and crashes

Users == Drivers \cup Riders

ASSUME ProfileAssumption ==
    /\ Owner \in [Keys -> Users]
    /\ NoKey \notin Keys /\ NoUser \notin Users /\ Drivers \cap Riders = {}
    /\ Uploads \subseteq {"image", "fake", "huge"}
    /\ MaxEvents \in Nat /\ MaxFaults \in Nat

VARIABLES
    photoKey,   \* users.photo_key
    object,     \* what is in the bucket under each key
    req,        \* requests in progress
    unsure,     \* keys whose confirm ended with 500: the client will repeat it
    raced,      \* history: users with two requests at the same time
    retired,    \* history: keys that were some user's photo and were replaced or removed
    pfaults     \* failing calls and crashes

profileVars == <<photoKey, object, req, unsure, raced, retired, pfaults>>

\* "none": not uploaded yet; "gone": deleted.  A client PUTs a key once.
Object == {"none", "image", "fake", "huge", "gone"}

\* The local variables of confirmPhoto and deletePhoto; "previous" is
\* user.photoKey as findUser returned it.
ProfileRequest ==
    [pc : {"idle", "head", "bytes", "discard", "update", "clear", "deleteOld", "publish"},
     user : Users \cup {NoUser}, key : Keys \cup {NoKey}, previous : Keys \cup {NoKey}, hasPhoto : BOOLEAN]

NoProfileRequest == [pc |-> "idle", user |-> NoUser, key |-> NoKey, previous |-> NoKey, hasPhoto |-> FALSE]

ProfileInit ==
    /\ photoKey = [u \in Users |-> NoKey]
    /\ object = [k \in Keys |-> "none"]
    /\ req = [s \in ProfileSlots |-> NoProfileRequest]
    /\ unsure = {} /\ raced = {} /\ retired = {}
    /\ log = EmptyLog
    /\ pfaults = 0

-----------------------------------------------------------------------------
(* The bucket, as the client sees it.                                      *)

\* createUploadUrl writes nothing: it invents a key and signs a URL for it, and
\* S3 takes whatever is sent there.
Upload(k, content) ==
    /\ object[k] = "none"
    /\ object' = [object EXCEPT ![k] = content]
    /\ UNCHANGED <<photoKey, req, unsure, raced, retired, log, pfaults>>

-----------------------------------------------------------------------------
(* confirmPhoto and deletePhoto.                                           *)

Busy(u) == \E s \in ProfileSlots : req[s].user = u

Begins(s, r) ==
    /\ req[s].pc = "idle"
    /\ req' = [req EXCEPT ![s] = r]
    /\ raced' = IF Busy(r.user) THEN raced \cup {r.user} ELSE raced
    /\ unsure' = unsure \ {r.key}
    /\ UNCHANGED <<photoKey, object, retired, log, pfaults>>

Answer(s) == req' = [req EXCEPT ![s] = NoProfileRequest]
GoOn(s, pc) == IF pc = "idle" THEN Answer(s) ELSE req' = [req EXCEPT ![s].pc = pc]

\* Requests stop when their events would be too many; repeated ones are as
\* few as the faults.
EventsLeft == Len(log["user.photo.updated"]) + Cardinality({s \in ProfileSlots : req[s].pc # "idle"}) < MaxEvents

confirmPhoto(s, u, k) ==
    /\ Owner[k] = u
    /\ Begins(s, [NoProfileRequest EXCEPT !.pc = "head", !.user = u, !.key = k,
                                          !.previous = photoKey[u], !.hasPhoto = TRUE])

deletePhoto(s, u) ==
    /\ photoKey[u] # NoKey
    /\ Begins(s, [NoProfileRequest EXCEPT !.pc = "clear", !.user = u, !.previous = photoKey[u]])

\* What S3 says of a key: null for a 404.
headObject(k) == IF object[k] \in {"none", "gone"} THEN "null" ELSE object[k]

\* Nothing there is a 400, a wrong size or type is deleted first.
HeadObject(s) ==
    /\ req[s].pc = "head"
    /\ GoOn(s, CASE headObject(req[s].key) = "null" -> "idle"
                 [] headObject(req[s].key) = "huge" -> "discard"
                 [] OTHER -> "bytes")
    /\ UNCHANGED <<photoKey, object, unsure, raced, retired, log, pfaults>>

matchesImageSignature(k) == object[k] = "image"

\* Faulty: a key that is the photo already is answered without an event.
AfterBytesSilent(r) ==
    IF ~matchesImageSignature(r.key) THEN "discard"
    ELSE IF r.previous = r.key THEN "idle"
    ELSE "update"

\* The bytes have to prove an image; a key that is the photo already is only
\* announced again.
AfterBytes(r) ==
    IF ~matchesImageSignature(r.key) THEN "discard"
    ELSE IF r.previous = r.key THEN "publish"
    ELSE "update"

\* readFirstBytes; an object that was deleted since headObject is a 500.
ReadFirstBytes(s) ==
    /\ req[s].pc = "bytes"
    /\ GoOn(s, IF object[req[s].key] = "gone" THEN "idle" ELSE AfterBytes(req[s]))
    /\ UNCHANGED <<photoKey, object, unsure, raced, retired, log, pfaults>>

\* deleteFromS3 of the refused file, and the 400.
Discard(s) ==
    /\ req[s].pc = "discard"
    /\ object' = [object EXCEPT ![req[s].key] = "gone"]
    /\ Answer(s)
    /\ UNCHANGED <<photoKey, unsure, raced, retired, log, pfaults>>

\* The key that stops to be the photo of u, if there is one.
Retire(u) == retired' = retired \cup ({photoKey[u]} \ {NoKey})

\* Faulty: the old photo is left where it is.
UpdateKeepsOld(s) ==
    /\ req[s].pc = "update"
    /\ photoKey' = [photoKey EXCEPT ![req[s].user] = req[s].key]
    /\ Retire(req[s].user)
    /\ GoOn(s, "publish")
    /\ UNCHANGED <<object, unsure, raced, log, pfaults>>

Update(s) ==
    /\ req[s].pc = "update"
    /\ photoKey' = [photoKey EXCEPT ![req[s].user] = req[s].key]
    /\ Retire(req[s].user)
    /\ GoOn(s, IF req[s].previous = NoKey THEN "publish" ELSE "deleteOld")
    /\ UNCHANGED <<object, unsure, raced, log, pfaults>>

\* Faulty: S3 first, then the table.
ClearS3First(s) ==
    /\ \/ /\ req[s].pc = "clear" /\ object[req[s].previous] # "gone"
          /\ object' = [object EXCEPT ![req[s].previous] = "gone"]
          /\ UNCHANGED <<req, photoKey, retired>>
       \/ /\ req[s].pc = "clear" /\ object[req[s].previous] = "gone"
          /\ photoKey' = [photoKey EXCEPT ![req[s].user] = NoKey]
          /\ Retire(req[s].user)
          /\ GoOn(s, "publish")
          /\ UNCHANGED object
    /\ UNCHANGED <<unsure, raced, log, pfaults>>

\* deletePhoto: "DB first, then S3".
Clear(s) ==
    /\ req[s].pc = "clear"
    /\ photoKey' = [photoKey EXCEPT ![req[s].user] = NoKey]
    /\ Retire(req[s].user)
    /\ GoOn(s, "deleteOld")
    /\ UNCHANGED <<object, unsure, raced, log, pfaults>>

\* deleteFromS3 of the photo that was read at the start.
DeleteOld(s) ==
    /\ req[s].pc = "deleteOld"
    /\ object' = [object EXCEPT ![req[s].previous] = "gone"]
    /\ GoOn(s, "publish")
    /\ UNCHANGED <<photoKey, unsure, raced, retired, log, pfaults>>

\* What driver-service sees of an event: its driver, if the role is driver.
PhotoEventOf(r) == [driver |-> IF r.user \in Drivers THEN r.user ELSE NoDriver, hasPhoto |-> r.hasPhoto]

\* publishPhotoUpdated; what follows only reads.
Publish(s) ==
    /\ req[s].pc = "publish"
    /\ log' = Published(log, "user.photo.updated", PhotoEventOf(req[s]))
    /\ Answer(s)
    /\ UNCHANGED <<photoKey, object, unsure, raced, retired, pfaults>>

Clients(u) ==
    \/ \E s \in ProfileSlots : EventsLeft /\ deletePhoto(s, u)
    \/ \E s \in ProfileSlots, k \in Keys : EventsLeft /\ confirmPhoto(s, u, k)

\* "confirming the same key again is allowed, so a client can retry".
Retry(k) == \E s \in ProfileSlots : k \in unsure /\ confirmPhoto(s, Owner[k], k)

Step(s) ==
    \/ HeadObject(s) \/ ReadFirstBytes(s) \/ Discard(s) \/ Update(s) \/ Clear(s) \/ DeleteOld(s) \/ Publish(s)

-----------------------------------------------------------------------------
(* What goes wrong.                                                        *)

ProfileFault == pfaults < MaxFaults /\ pfaults' = pfaults + 1

Unsure(slots) == unsure' = unsure \cup ({req[s].key : s \in slots} \ {NoKey})

\* A call fails and the request ends with 500; what it has written stays.
ProfileRequestFails(s) ==
    /\ ProfileFault
    /\ req[s].pc \in {"head", "bytes", "update", "clear", "publish"}
    /\ Unsure({s})
    /\ Answer(s)
    /\ UNCHANGED <<photoKey, object, raced, retired, log>>

\* deleteFromS3 catches the error: the object stays, the request goes on.
DeleteFails(s) ==
    /\ ProfileFault
    /\ \/ req[s].pc = "discard" /\ Answer(s)
       \/ req[s].pc = "deleteOld" /\ GoOn(s, "publish")
    /\ UNCHANGED <<photoKey, object, unsure, raced, retired, log>>

ProfileCrash ==
    /\ ProfileFault
    /\ \E s \in ProfileSlots : req[s].pc # "idle"
    /\ Unsure(ProfileSlots)
    /\ req' = [s \in ProfileSlots |-> NoProfileRequest]
    /\ UNCHANGED <<photoKey, object, raced, retired, log>>

Trouble == ProfileCrash \/ \E s \in ProfileSlots : ProfileRequestFails(s) \/ DeleteFails(s)

ProfileNext ==
    \/ \E u \in Users : Clients(u)
    \/ \E k \in Keys : Retry(k) \/ \E content \in Uploads : Upload(k, content)
    \/ \E s \in ProfileSlots : Step(s)
    \/ Trouble

ProfileSpec == ProfileInit /\ [][ProfileNext]_<<profileVars, log>>

-----------------------------------------------------------------------------
\* Types.
ProfileTypeOK ==
    /\ photoKey \in [Users -> Keys \cup {NoKey}]
    /\ object \in [Keys -> Object]
    /\ req \in [ProfileSlots -> ProfileRequest]
    /\ raced \subseteq Users
    /\ unsure \subseteq Keys /\ retired \subseteq Keys
    /\ LogOK(log)
    /\ pfaults \in Nat

\* "A failure leaves an orphan object, never a user pointing at nothing": the
\* key in a user's row is a key of that user and names a real image, whichever
\* calls fail and whenever the service stops, as long as the user's requests
\* came one after the other.  Even when they did not, it never names a file
\* that is not an image.
PhotoIsThere ==
    \A u \in Users : photoKey[u] # NoKey =>
        /\ Owner[photoKey[u]] = u
        /\ object[photoKey[u]] = "image" \/ (object[photoKey[u]] = "gone" /\ u \in raced)

\* A photo that was replaced or removed is deleted from the bucket once the
\* requests of its user are done: an orphan costs a failing call, a crash, or
\* two requests of one user at the same time.
OrphansCostFaults ==
    \A k \in retired :
        \/ object[k] = "gone"
        \/ pfaults > 0 \/ Owner[k] \in raced
        \/ \E s \in ProfileSlots : req[s].pc = "deleteOld" /\ req[s].previous = k
=============================================================================
