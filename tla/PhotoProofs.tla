----------------------------- MODULE PhotoProofs -----------------------------
(***************************************************************************)
(* Proofs about ProfileService, for any users, keys, slots and bounds, and *)
(* about its composition with DriverService (PhotoFlow).                   *)
(***************************************************************************)
EXTENDS PhotoFlow, DriverProofs

\* What the local variables of the request in slot s say about table and bucket.
ProfileRequestOK(s) ==
    LET u == req[s].user
        k == req[s].key
        pc == req[s].pc IN
    /\ pc = "idle" <=> u = NoUser
    /\ req[s].previous # NoKey => Owner[req[s].previous] = u
    /\ pc \in {"head", "bytes", "discard", "update"} => k # NoKey /\ Owner[k] = u
    /\ pc = "bytes" => object[k] \in {"image", "fake", "gone"}
    /\ pc = "discard" => object[k] \in {"huge", "fake", "gone"}
    /\ pc = "update" =>
         k # req[s].previous /\ (object[k] = "image" \/ (object[k] = "gone" /\ u \in raced))
    /\ pc \in {"clear", "deleteOld"} => req[s].previous # NoKey
    /\ u \notin raced =>
         /\ pc \in {"head", "bytes", "discard", "update", "clear"} => req[s].previous = photoKey[u]
         /\ pc = "deleteOld" => req[s].previous # photoKey[u]

ProfileRequestsOK == \A s \in ProfileSlots : ProfileRequestOK(s)

\* Two requests of one user at the same time are on record.
RacesSeen ==
    \A s, t \in ProfileSlots : s # t /\ req[s].user = req[t].user /\ req[s].user # NoUser => req[s].user \in raced

ProfileInv == ProfileTypeOK /\ ProfileRequestsOK /\ RacesSeen /\ PhotoIsThere /\ OrphansCostFaults

-----------------------------------------------------------------------------
(* Types.                                                                  *)

ProfilePcs == {"idle", "head", "bytes", "discard", "update", "clear", "deleteOld", "publish"}

LEMMA ProfileNoRequestType == NoProfileRequest \in ProfileRequest
  BY DEF NoProfileRequest, ProfileRequest

\* What Goto leaves of a request.
LEMMA GoOnFields ==
    ASSUME req \in [ProfileSlots -> ProfileRequest], NEW s \in ProfileSlots, NEW pc \in ProfilePcs, GoOn(s, pc)
    PROVE  /\ req' \in [ProfileSlots -> ProfileRequest]
           /\ \A t \in ProfileSlots \ {s} : req'[t] = req[t]
           /\ pc = "idle" => req'[s] = NoProfileRequest
           /\ pc # "idle" => /\ req'[s].pc = pc
                             /\ req'[s].user = req[s].user /\ req'[s].key = req[s].key
                             /\ req'[s].previous = req[s].previous
                             /\ req'[s].hasPhoto = req[s].hasPhoto
<1>1. CASE pc = "idle"
  BY <1>1, ProfileNoRequestType DEF GoOn, Answer
<1>2. CASE pc # "idle"
  <2>1. req[s] \in ProfileRequest
    OBVIOUS
  <2>2. req' = [req EXCEPT ![s] = [req[s] EXCEPT !.pc = pc]]
    BY <1>2 DEF GoOn
  <2>3. [req[s] EXCEPT !.pc = pc] \in ProfileRequest
    BY <2>1 DEF ProfileRequest, ProfilePcs
  <2>4. /\ req'[s].pc = pc /\ req'[s].user = req[s].user /\ req'[s].key = req[s].key
        /\ req'[s].previous = req[s].previous /\ req'[s].hasPhoto = req[s].hasPhoto
    BY <2>1, <2>2 DEF ProfileRequest
  <2> QED BY <1>2, <2>2, <2>3, <2>4
<1> QED BY <1>1, <1>2

LEMMA ProfileInitType == ProfileInit => ProfileTypeOK
<1> SUFFICES ASSUME ProfileInit PROVE ProfileTypeOK
  OBVIOUS
<1>1. LogOK(log)
  BY EmptyLogOK DEF ProfileInit
<1> QED BY <1>1, ProfileNoRequestType, ProfileAssumption DEF ProfileInit, ProfileTypeOK, Object

LEMMA BeginsType ==
    ASSUME ProfileTypeOK, NEW s \in ProfileSlots, NEW r \in ProfileRequest, r.user \in Users, Begins(s, r)
    PROVE  ProfileTypeOK'
  BY DEF ProfileTypeOK, Begins

\* The two requests a client makes.
LEMMA ProfileConfirmType ==
    ASSUME ProfileTypeOK, NEW u \in Users, NEW k \in Keys
    PROVE  [NoProfileRequest EXCEPT !.pc = "head", !.user = u, !.key = k,
                             !.previous = photoKey[u], !.hasPhoto = TRUE] \in ProfileRequest
  BY DEF ProfileTypeOK, NoProfileRequest, ProfileRequest

LEMMA ProfileDeleteType ==
    ASSUME ProfileTypeOK, NEW u \in Users
    PROVE  [NoProfileRequest EXCEPT !.pc = "clear", !.user = u, !.previous = photoKey[u]] \in ProfileRequest
  BY DEF ProfileTypeOK, NoProfileRequest, ProfileRequest

\* The pcs that Goto is used with.
LEMMA GoOnPcs ==
    ASSUME NEW s \in ProfileSlots
    PROVE  /\ HeadObject(s) => \E pc \in {"idle", "discard", "bytes"} : GoOn(s, pc)
           /\ ReadFirstBytes(s) => \E pc \in {"idle", "discard", "publish", "update"} : GoOn(s, pc)
           /\ Update(s) => \E pc \in {"publish", "deleteOld"} : GoOn(s, pc)
  BY DEF HeadObject, ReadFirstBytes, AfterBytes, Update

LEMMA ProfileStepType ==
    ASSUME ProfileTypeOK, ProfileRequestsOK, [ProfileNext]_<<profileVars, log>>
    PROVE  ProfileTypeOK'
<1> USE ProfileAssumption
<1>0. req \in [ProfileSlots -> ProfileRequest]
  BY DEF ProfileTypeOK
<1>1. CASE UNCHANGED <<profileVars, log>>
  BY <1>1 DEF profileVars, ProfileTypeOK
<1>2. ASSUME NEW u \in Users, Clients(u) PROVE ProfileTypeOK'
  BY <1>2, BeginsType, ProfileConfirmType, ProfileDeleteType DEF Clients, confirmPhoto, deletePhoto, NoProfileRequest
<1>3. ASSUME NEW k \in Keys, Retry(k) PROVE ProfileTypeOK'
  BY <1>3, BeginsType, ProfileConfirmType DEF Retry, confirmPhoto, NoProfileRequest
<1>4. ASSUME NEW k \in Keys, NEW content \in Uploads, Upload(k, content) PROVE ProfileTypeOK'
  BY <1>4 DEF Upload, ProfileTypeOK, Object
<1>5. ASSUME NEW s \in ProfileSlots, Step(s) PROVE ProfileTypeOK'
  <2>1. CASE HeadObject(s) \/ ReadFirstBytes(s)
    <3>1. req' \in [ProfileSlots -> ProfileRequest]
      BY <1>0, <2>1, GoOnPcs, GoOnFields DEF ProfilePcs
    <3> QED BY <2>1, <3>1 DEF ProfileTypeOK, HeadObject, ReadFirstBytes
  <2>2. CASE Discard(s)
    BY <2>2, ProfileNoRequestType DEF ProfileTypeOK, Discard, Answer, Object
  <2>3. CASE Update(s)
    <3>1. req' \in [ProfileSlots -> ProfileRequest]
      BY <1>0, <2>3, GoOnPcs, GoOnFields DEF ProfilePcs
    <3>2. req[s].user \in Users /\ req[s].key \in Keys
      BY <1>0, <2>3 DEF Update, ProfileRequestsOK, ProfileRequestOK, ProfileRequest
    <3> QED BY <2>3, <3>1, <3>2 DEF ProfileTypeOK, Update, Retire
  <2>4. CASE Clear(s)
    <3>1. req' \in [ProfileSlots -> ProfileRequest]
      BY <1>0, <2>4, GoOnFields DEF Clear, ProfilePcs
    <3>2. req[s].user \in Users
      BY <1>0, <2>4 DEF Clear, ProfileRequestsOK, ProfileRequestOK, ProfileRequest
    <3> QED BY <2>4, <3>1, <3>2 DEF ProfileTypeOK, Clear, Retire
  <2>5. CASE DeleteOld(s)
    <3>1. req' \in [ProfileSlots -> ProfileRequest]
      BY <1>0, <2>5, GoOnFields DEF DeleteOld, ProfilePcs
    <3> QED BY <2>5, <3>1 DEF ProfileTypeOK, DeleteOld, Object
  <2>6. CASE Publish(s)
    <3>1. PhotoEventOf(req[s]) \in PhotoEvent
      BY <1>0 DEF PhotoEventOf, PhotoEvent, ProfileRequest
    <3>2. log' = Published(log, "user.photo.updated", PhotoEventOf(req[s])) /\ LogOK(log)
      BY <2>6 DEF ProfileTypeOK, Publish
    <3>3. LogOK(log')
      BY <3>1, <3>2, PublishedType DEF Topics
    <3>4. LogOK(log)'
      BY <3>3 DEF LogOK
    <3> QED BY <2>6, <3>4, ProfileNoRequestType DEF ProfileTypeOK, Publish, Answer
  <2> QED BY <1>5, <2>1, <2>2, <2>3, <2>4, <2>5, <2>6 DEF Step
<1>6. ASSUME NEW s \in ProfileSlots, ProfileRequestFails(s) PROVE ProfileTypeOK'
  <2>1. req' \in [ProfileSlots -> ProfileRequest] /\ unsure' \subseteq Keys
    BY <1>0, <1>6, ProfileNoRequestType DEF ProfileRequestFails, Answer, Unsure, ProfileRequest, ProfileTypeOK
  <2> QED BY <1>6, <2>1 DEF ProfileTypeOK, ProfileRequestFails, ProfileFault
<1>7. ASSUME NEW s \in ProfileSlots, DeleteFails(s) PROVE ProfileTypeOK'
  <2>1. req' \in [ProfileSlots -> ProfileRequest]
    BY <1>0, <1>7, GoOnFields, ProfileNoRequestType DEF DeleteFails, Answer, ProfilePcs
  <2> QED BY <1>7, <2>1 DEF ProfileTypeOK, DeleteFails, ProfileFault
<1>8. CASE ProfileCrash
  <2>1. req' \in [ProfileSlots -> ProfileRequest] /\ unsure' \subseteq Keys
    BY <1>0, <1>8, ProfileNoRequestType DEF ProfileCrash, Unsure, ProfileRequest, ProfileTypeOK
  <2> QED BY <1>8, <2>1 DEF ProfileTypeOK, ProfileCrash, ProfileFault
<1> QED BY <1>1, <1>2, <1>3, <1>4, <1>5, <1>6, <1>7, <1>8 DEF ProfileNext, Trouble

-----------------------------------------------------------------------------
(* What a step does to the others.                                         *)

\* A request of somebody else, or of a user who raced, is as well off as before
\* when user u's row changes or one of u's objects is deleted.
LEMMA ProfileOtherRequest ==
    ASSUME ProfileTypeOK, ProfileTypeOK', NEW t \in ProfileSlots, ProfileRequestOK(t), NEW u \in Users,
           req'[t] = req[t], raced' = raced,
           \A k \in Keys : object'[k] = object[k] \/ (Owner[k] = u /\ object'[k] = "gone"),
           \A v \in Users : v # u => photoKey'[v] = photoKey[v],
           req[t].user = u => u \in raced
    PROVE  ProfileRequestOK(t)'
<1>1. req[t] \in ProfileRequest
  BY DEF ProfileTypeOK
<1>2. CASE req[t].user = u
  <2>1. ASSUME NEW k \in Keys, k = req[t].key
        PROVE  object'[k] = object[k] \/ object'[k] = "gone"
    OBVIOUS
  <2> QED BY <1>1, <1>2, <2>1 DEF ProfileRequestOK, ProfileRequest
<1>3. CASE req[t].user # u
  <2>1. ASSUME NEW k \in Keys, k = req[t].key, Owner[k] = req[t].user
        PROVE  object'[k] = object[k]
    BY <1>3, <2>1
  <2>2. req[t].user = NoUser \/ photoKey'[req[t].user] = photoKey[req[t].user]
    BY <1>1, <1>3 DEF ProfileRequest
  <2> QED BY <1>1, <1>3, <2>1, <2>2 DEF ProfileRequestOK, ProfileRequest
<1> QED BY <1>2, <1>3

\* From what the request in slot s shows for itself to all requests.
LEMMA ProfileSlotStep ==
    ASSUME ProfileTypeOK, ProfileTypeOK', ProfileRequestsOK, RacesSeen, NEW s \in ProfileSlots, req[s].user \in Users,
           raced' = raced, \A t \in ProfileSlots \ {s} : req'[t] = req[t],
           \A k \in Keys : object'[k] = object[k] \/ (Owner[k] = req[s].user /\ object'[k] = "gone"),
           \A v \in Users : v # req[s].user => photoKey'[v] = photoKey[v],
           ProfileRequestOK(s)', req'[s].user \in {req[s].user, NoUser}
    PROVE  ProfileRequestsOK' /\ RacesSeen'
<1>1. ASSUME NEW t \in ProfileSlots PROVE ProfileRequestOK(t)'
  <2>1. CASE t = s
    BY <2>1
  <2>2. CASE t # s
    <3>1. req[t].user = req[s].user => req[s].user \in raced
      BY <2>2, ProfileAssumption DEF RacesSeen
    <3> QED BY <2>2, <3>1, ProfileOtherRequest DEF ProfileRequestsOK
  <2> QED BY <2>1, <2>2
<1>2. RacesSeen'
  BY DEF RacesSeen
<1> QED BY <1>1, <1>2 DEF ProfileRequestsOK

\* An object of user u that u's row does not name, or that may go because u
\* raced, is deleted: nobody points at nothing.
LEMMA DeletesOne ==
    ASSUME ProfileTypeOK, PhotoIsThere, raced' = raced, photoKey' = photoKey, NEW k \in Keys,
           \A q \in Keys : q # k => object'[q] = object[q],
           object'[k] = "gone",
           photoKey[Owner[k]] = k => Owner[k] \in raced
    PROVE  PhotoIsThere'
<1> SUFFICES ASSUME NEW u \in Users, photoKey[u] # NoKey
             PROVE  /\ Owner[photoKey[u]] = u
                    /\ \/ object'[photoKey[u]] = "image"
                       \/ object'[photoKey[u]] = "gone" /\ u \in raced
  BY DEF PhotoIsThere
<1>1. photoKey[u] \in Keys /\ Owner[photoKey[u]] = u
  BY DEF ProfileTypeOK, PhotoIsThere
<1>2. CASE photoKey[u] = k
  BY <1>1, <1>2
<1>3. CASE photoKey[u] # k
  BY <1>1, <1>3 DEF PhotoIsThere
<1> QED BY <1>2, <1>3

\* Orphans stay accounted for while what accounts for them stays.
LEMMA OrphansStay ==
    ASSUME ProfileTypeOK, ProfileTypeOK', OrphansCostFaults, retired' = retired, raced \subseteq raced',
           pfaults <= pfaults',
           \A k \in Keys : object[k] = "gone" => object'[k] = "gone",
           \/ pfaults' > 0
           \/ \A s \in ProfileSlots : req[s].pc = "deleteOld" => req'[s] = req[s] \/ object'[req[s].previous] = "gone"
    PROVE  OrphansCostFaults'
<1> SUFFICES ASSUME NEW k \in retired
             PROVE  \/ object'[k] = "gone"
                    \/ pfaults' > 0 \/ Owner[k] \in raced'
                    \/ \E s \in ProfileSlots : req'[s].pc = "deleteOld" /\ req'[s].previous = k
  BY DEF OrphansCostFaults
<1>1. k \in Keys /\ pfaults \in Nat /\ pfaults' \in Nat
  BY DEF ProfileTypeOK
<1>2. \/ object[k] = "gone"
      \/ pfaults > 0 \/ Owner[k] \in raced
      \/ \E s \in ProfileSlots : req[s].pc = "deleteOld" /\ req[s].previous = k
  BY DEF OrphansCostFaults
<1> QED BY <1>1, <1>2

-----------------------------------------------------------------------------
(* The steps.                                                              *)

LEMMA ProfileUploadKeeps ==
    ASSUME ProfileInv, ProfileTypeOK', NEW k \in Keys, NEW content \in Uploads, Upload(k, content)
    PROVE  ProfileInv'
<1> USE DEF ProfileInv
<1>1. UNCHANGED <<photoKey, req, raced, retired, pfaults>> /\ object[k] = "none"
      /\ \A q \in Keys \ {k} : object'[q] = object[q]
  BY DEF Upload, ProfileTypeOK
<1>2. ASSUME NEW s \in ProfileSlots PROVE ProfileRequestOK(s)'
  <2>1. req[s] \in ProfileRequest
    BY DEF ProfileTypeOK
  <2> QED BY <1>1, <2>1 DEF ProfileRequestsOK, ProfileRequestOK, ProfileRequest
<1>3. PhotoIsThere'
  BY <1>1 DEF PhotoIsThere, ProfileTypeOK
<1>4. OrphansCostFaults'
  BY <1>1, OrphansStay DEF ProfileTypeOK
<1> QED BY <1>1, <1>2, <1>3, <1>4 DEF ProfileRequestsOK, RacesSeen

LEMMA BeginsKeeps ==
    ASSUME ProfileInv, ProfileTypeOK', NEW s \in ProfileSlots, NEW r \in ProfileRequest, r.user \in Users, Begins(s, r),
           r.pc \in {"head", "clear"}, r.previous = photoKey[r.user],
           r.pc = "head" => r.key # NoKey /\ Owner[r.key] = r.user,
           r.pc = "clear" => r.previous # NoKey
    PROVE  ProfileInv'
<1> USE DEF ProfileInv
<1>1. /\ UNCHANGED <<photoKey, object, retired, pfaults>> /\ req'[s] = r
      /\ \A t \in ProfileSlots \ {s} : req'[t] = req[t]
      /\ raced \subseteq raced' /\ req[s].pc = "idle"
      /\ \A v : v \in raced' => v \in raced \/ v = r.user
  BY DEF Begins, ProfileTypeOK
<1>2. ASSUME NEW t \in ProfileSlots, t # s, req[t].user = r.user PROVE r.user \in raced'
  BY <1>2 DEF Begins, Busy
<1>3. ASSUME NEW t \in ProfileSlots PROVE ProfileRequestOK(t)'
  <2>1. CASE t = s
    <3>1. r.previous # NoKey => Owner[r.previous] = r.user
      BY DEF PhotoIsThere
    <3> QED BY <1>1, <2>1, <3>1, ProfileAssumption DEF ProfileRequestOK
  <2>2. CASE t # s
    BY <1>1, <2>2 DEF ProfileRequestsOK, ProfileRequestOK
  <2> QED BY <2>1, <2>2
<1>4. RacesSeen'
  BY <1>1, <1>2 DEF RacesSeen
<1>5. PhotoIsThere'
  BY <1>1 DEF PhotoIsThere
<1>6. OrphansCostFaults'
  BY <1>1, OrphansStay DEF ProfileTypeOK
<1> QED BY <1>3, <1>4, <1>5, <1>6 DEF ProfileRequestsOK

LEMMA ProfileClientKeeps ==
    ASSUME ProfileInv, ProfileTypeOK', NEW s \in ProfileSlots, NEW u \in Users,
           deletePhoto(s, u) \/ \E k \in Keys : confirmPhoto(s, u, k)
    PROVE  ProfileInv'
<1>1. CASE deletePhoto(s, u)
  <2> DEFINE r == [NoProfileRequest EXCEPT !.pc = "clear", !.user = u, !.previous = photoKey[u]]
  <2>1. r \in ProfileRequest /\ Begins(s, r) /\ photoKey[u] # NoKey
    BY <1>1, ProfileDeleteType DEF deletePhoto, ProfileInv
  <2>2. r.pc = "clear" /\ r.user = u /\ r.previous = photoKey[u]
    BY DEF NoProfileRequest
  <2> HIDE DEF r
  <2> QED BY <2>1, <2>2, BeginsKeeps
<1>2. ASSUME NEW k \in Keys, confirmPhoto(s, u, k) PROVE ProfileInv'
  <2> DEFINE r == [NoProfileRequest EXCEPT !.pc = "head", !.user = u, !.key = k,
                                    !.previous = photoKey[u], !.hasPhoto = TRUE]
  <2>1. r \in ProfileRequest /\ Begins(s, r) /\ Owner[k] = u /\ k # NoKey
    BY <1>2, ProfileConfirmType, ProfileAssumption DEF confirmPhoto, ProfileInv
  <2>2. r.pc = "head" /\ r.user = u /\ r.previous = photoKey[u] /\ r.key = k
    BY DEF NoProfileRequest
  <2> HIDE DEF r
  <2> QED BY <2>1, <2>2, BeginsKeeps
<1> QED BY <1>1, <1>2

\* A step that only moves the pc of a request, or ends it.
LEMMA MovesOnly ==
    ASSUME ProfileInv, ProfileTypeOK', NEW s \in ProfileSlots, NEW pc \in ProfilePcs, GoOn(s, pc),
           req[s].pc \notin {"idle", "deleteOld"} \/ pfaults' > 0,
           req[s].pc # "idle",
           UNCHANGED <<photoKey, object, raced, retired>>, pfaults <= pfaults',
           pc # "idle" => ProfileRequestOK(s)'
    PROVE  ProfileInv'
<1> USE DEF ProfileInv
<1>1. req \in [ProfileSlots -> ProfileRequest] /\ req[s].user \in Users
  BY DEF ProfileTypeOK, ProfileRequestsOK, ProfileRequestOK, ProfileRequest
<1>2. \A t \in ProfileSlots \ {s} : req'[t] = req[t]
  BY <1>1, GoOnFields
<1>3. req'[s].user \in {req[s].user, NoUser} /\ (pc = "idle" => ProfileRequestOK(s)')
  BY <1>1, GoOnFields, ProfileAssumption DEF NoProfileRequest, ProfileRequestOK
<1>4. ProfileRequestsOK' /\ RacesSeen'
  BY <1>1, <1>2, <1>3, ProfileSlotStep
<1>5. PhotoIsThere'
  BY DEF PhotoIsThere
<1>6. OrphansCostFaults'
  BY <1>1, <1>2, OrphansStay
<1> QED BY <1>4, <1>5, <1>6

LEMMA HeadObjectKeeps ==
    ASSUME ProfileInv, ProfileTypeOK', NEW s \in ProfileSlots, HeadObject(s)
    PROVE  ProfileInv'
<1> USE DEF ProfileInv
<1> DEFINE k == req[s].key
<1>1. req[s].pc = "head" /\ k \in Keys /\ req \in [ProfileSlots -> ProfileRequest] /\ object[k] \in Object
  BY DEF HeadObject, ProfileTypeOK, ProfileRequestsOK, ProfileRequestOK, ProfileRequest
<1>2. PICK pc \in {"idle", "discard", "bytes"} :
        /\ GoOn(s, pc)
        /\ pc = "discard" => object[k] = "huge"
        /\ pc = "bytes" => object[k] \in {"image", "fake"}
  <2>1. CASE object[k] \in {"none", "gone"}
    <3>1. headObject(k) = "null"
      BY <2>1 DEF headObject
    <3> QED BY <3>1 DEF HeadObject
  <2>2. CASE object[k] = "huge"
    <3>1. headObject(k) = "huge"
      BY <2>2 DEF headObject
    <3> QED BY <2>2, <3>1 DEF HeadObject
  <2>3. CASE object[k] \in {"image", "fake"}
    <3>1. headObject(k) # "null" /\ headObject(k) # "huge"
      BY <2>3 DEF headObject
    <3> QED BY <2>3, <3>1 DEF HeadObject
  <2> QED BY <1>1, <2>1, <2>2, <2>3 DEF Object
<1>3. UNCHANGED <<photoKey, object, raced, retired, pfaults>>
  BY DEF HeadObject
<1>4. pc # "idle" => ProfileRequestOK(s)'
  BY <1>1, <1>2, <1>3, GoOnFields DEF ProfilePcs, ProfileRequestsOK, ProfileRequestOK
<1> QED BY <1>1, <1>2, <1>3, <1>4, MovesOnly DEF ProfilePcs, ProfileTypeOK

LEMMA ReadFirstBytesKeeps ==
    ASSUME ProfileInv, ProfileTypeOK', NEW s \in ProfileSlots, ReadFirstBytes(s)
    PROVE  ProfileInv'
<1> USE DEF ProfileInv
<1> DEFINE k == req[s].key
<1>1. req[s].pc = "bytes" /\ req \in [ProfileSlots -> ProfileRequest] /\ object[k] \in {"image", "fake", "gone"}
  BY DEF ReadFirstBytes, ProfileTypeOK, ProfileRequestsOK, ProfileRequestOK, ProfileRequest
<1>2. PICK pc \in {"idle", "discard", "publish", "update"} :
        /\ GoOn(s, pc)
        /\ pc = "discard" => object[k] = "fake"
        /\ pc = "update" => object[k] = "image" /\ req[s].previous # k
  BY <1>1 DEF ReadFirstBytes, AfterBytes, matchesImageSignature
<1>3. UNCHANGED <<photoKey, object, raced, retired, pfaults>>
  BY DEF ReadFirstBytes
<1>4. pc # "idle" => ProfileRequestOK(s)'
  BY <1>1, <1>2, <1>3, GoOnFields DEF ProfilePcs, ProfileRequestsOK, ProfileRequestOK
<1> QED BY <1>1, <1>2, <1>3, <1>4, MovesOnly DEF ProfilePcs, ProfileTypeOK

\* The refused file is no image, so nobody's row depends on it.
LEMMA DiscardKeeps ==
    ASSUME ProfileInv, ProfileTypeOK', NEW s \in ProfileSlots, Discard(s)
    PROVE  ProfileInv'
<1> USE DEF ProfileInv
<1> DEFINE k == req[s].key
           u == req[s].user
<1>1. /\ req \in [ProfileSlots -> ProfileRequest] /\ k \in Keys /\ u \in Users /\ Owner[k] = u
      /\ object[k] \in {"huge", "fake", "gone"}
  BY DEF Discard, ProfileTypeOK, ProfileRequestsOK, ProfileRequestOK, ProfileRequest
<1>2. /\ UNCHANGED <<photoKey, raced, retired, pfaults>>
      /\ object' = [object EXCEPT ![k] = "gone"]
      /\ req'[s] = NoProfileRequest /\ \A t \in ProfileSlots \ {s} : req'[t] = req[t]
  BY <1>1 DEF Discard, Answer
<1>3. object'[k] = "gone" /\ \A q \in Keys : q # k => object'[q] = object[q]
  BY <1>1, <1>2 DEF ProfileTypeOK
<1>4. ProfileRequestOK(s)' /\ req'[s].user = NoUser
  BY <1>2, ProfileAssumption DEF NoProfileRequest, ProfileRequestOK
<1>5. ProfileRequestsOK' /\ RacesSeen'
  BY <1>1, <1>2, <1>3, <1>4, ProfileSlotStep
<1>6. PhotoIsThere'
  <2>1. photoKey[u] = k => u \in raced
    BY <1>1, ProfileAssumption DEF PhotoIsThere
  <2> QED BY <1>1, <1>2, <1>3, <2>1, DeletesOne
<1>7. OrphansCostFaults'
  BY <1>1, <1>2, <1>3, OrphansStay DEF ProfileTypeOK, Discard
<1> QED BY <1>5, <1>6, <1>7

\* The key that replaces the photo, or null: what Update and Clear have in common.
LEMMA ReplaceKeeps ==
    ASSUME ProfileInv, ProfileTypeOK', NEW s \in ProfileSlots, NEW k \in Keys \cup {NoKey},
           req[s].pc \in {"update", "clear"},
           photoKey' = [photoKey EXCEPT ![req[s].user] = k],
           Retire(req[s].user),
           k = NoKey \/ (Owner[k] = req[s].user
                         /\ (object[k] = "image" \/ (object[k] = "gone" /\ req[s].user \in raced))),
           k # req[s].previous \/ k = NoKey,
           GoOn(s, IF req[s].previous = NoKey THEN "publish" ELSE "deleteOld"),
           UNCHANGED <<object, raced, pfaults>>
    PROVE  ProfileInv'
<1> USE DEF ProfileInv
<1> DEFINE u == req[s].user
<1>1. req \in [ProfileSlots -> ProfileRequest] /\ u \in Users /\ req[s].previous \in Keys \cup {NoKey}
  BY DEF ProfileTypeOK, ProfileRequestsOK, ProfileRequestOK, ProfileRequest
<1>2. photoKey'[u] = k /\ \A v \in Users \ {u} : photoKey'[v] = photoKey[v]
  BY <1>1 DEF ProfileTypeOK
<1>3. /\ req'[s].pc = IF req[s].previous = NoKey THEN "publish" ELSE "deleteOld"
      /\ req'[s].user = u /\ req'[s].previous = req[s].previous /\ req'[s].key = req[s].key
      /\ \A t \in ProfileSlots \ {s} : req'[t] = req[t]
  BY <1>1, GoOnFields DEF ProfilePcs
<1>4. ProfileRequestOK(s)'
  BY <1>1, <1>2, <1>3, ProfileAssumption DEF ProfileRequestsOK, ProfileRequestOK
<1>5. ProfileRequestsOK' /\ RacesSeen'
  BY <1>1, <1>2, <1>3, <1>4, ProfileSlotStep
<1>6. PhotoIsThere'
  BY <1>1, <1>2 DEF PhotoIsThere
<1>7. OrphansCostFaults'
  <2> SUFFICES ASSUME NEW q \in retired'
               PROVE  \/ object'[q] = "gone"
                      \/ pfaults' > 0 \/ Owner[q] \in raced'
                      \/ \E t \in ProfileSlots : req'[t].pc = "deleteOld" /\ req'[t].previous = q
    BY DEF OrphansCostFaults
  <2>1. CASE q \in retired
    <3>1. \/ object[q] = "gone"
          \/ pfaults > 0 \/ Owner[q] \in raced
          \/ \E t \in ProfileSlots : req[t].pc = "deleteOld" /\ req[t].previous = q
      BY <2>1 DEF OrphansCostFaults
    <3> QED BY <1>3, <3>1
  <2>2. CASE q = photoKey[u] /\ q # NoKey
    <3>1. Owner[q] = u
      BY <1>1, <2>2 DEF PhotoIsThere
    <3>2. u \notin raced => req[s].previous = q
      BY <2>2 DEF ProfileRequestsOK, ProfileRequestOK
    <3> QED BY <1>3, <2>2, <3>1, <3>2
  <2> QED BY <2>1, <2>2 DEF Retire
<1> QED BY <1>5, <1>6, <1>7

LEMMA UpdateKeeps ==
    ASSUME ProfileInv, ProfileTypeOK', NEW s \in ProfileSlots, Update(s)
    PROVE  ProfileInv'
<1>1. req[s].key \in Keys \cup {NoKey}
  BY DEF ProfileInv, ProfileTypeOK, ProfileRequest
<1> QED BY <1>1, ReplaceKeeps DEF Update, ProfileInv, ProfileRequestsOK, ProfileRequestOK

LEMMA ClearKeeps ==
    ASSUME ProfileInv, ProfileTypeOK', NEW s \in ProfileSlots, Clear(s)
    PROVE  ProfileInv'
  BY ReplaceKeeps DEF Clear, ProfileInv, ProfileRequestsOK, ProfileRequestOK

\* The photo that was read at the start is deleted: it is not the photo any
\* more, or its user raced.
LEMMA DeleteOldKeeps ==
    ASSUME ProfileInv, ProfileTypeOK', NEW s \in ProfileSlots, DeleteOld(s)
    PROVE  ProfileInv'
<1> USE DEF ProfileInv
<1> DEFINE k == req[s].previous
           u == req[s].user
<1>1. /\ req \in [ProfileSlots -> ProfileRequest] /\ k \in Keys /\ u \in Users /\ Owner[k] = u
      /\ photoKey[u] = k => u \in raced
  BY DEF DeleteOld, ProfileTypeOK, ProfileRequestsOK, ProfileRequestOK, ProfileRequest
<1>2. UNCHANGED <<photoKey, raced, retired, pfaults>> /\ GoOn(s, "publish") /\ req[s].pc = "deleteOld"
  BY DEF DeleteOld
<1>3. object'[k] = "gone" /\ \A q \in Keys : q # k => object'[q] = object[q]
  BY <1>1 DEF DeleteOld, ProfileTypeOK
<1>4. /\ req'[s].pc = "publish" /\ req'[s].user = u /\ req'[s].previous = k /\ req'[s].key = req[s].key
      /\ \A t \in ProfileSlots \ {s} : req'[t] = req[t]
  BY <1>1, <1>2, GoOnFields DEF ProfilePcs
<1>5. ProfileRequestOK(s)'
  BY <1>1, <1>4, ProfileAssumption DEF ProfileRequestsOK, ProfileRequestOK
<1>6. ProfileRequestsOK' /\ RacesSeen'
  BY <1>1, <1>2, <1>3, <1>4, <1>5, ProfileSlotStep
<1>7. PhotoIsThere'
  BY <1>1, <1>2, <1>3, DeletesOne
<1>8. OrphansCostFaults'
  <2>1. \A q \in Keys : object[q] = "gone" => object'[q] = "gone"
    BY <1>3
  <2>2. \A t \in ProfileSlots : req[t].pc = "deleteOld" => req'[t] = req[t] \/ object'[req[t].previous] = "gone"
    BY <1>3, <1>4
  <2> QED BY <1>2, <2>1, <2>2, OrphansStay DEF ProfileTypeOK
<1> QED BY <1>6, <1>7, <1>8

LEMMA PublishKeeps ==
    ASSUME ProfileInv, ProfileTypeOK', NEW s \in ProfileSlots, Publish(s)
    PROVE  ProfileInv'
<1> USE DEF ProfileInv
<1>1. GoOn(s, "idle") /\ req[s].pc = "publish" /\ UNCHANGED <<photoKey, object, raced, retired, pfaults>>
  BY DEF Publish, GoOn
<1> QED BY <1>1, MovesOnly DEF ProfilePcs, ProfileTypeOK

-----------------------------------------------------------------------------
(* What goes wrong.                                                        *)

LEMMA ProfileRequestFailsKeeps ==
    ASSUME ProfileInv, ProfileTypeOK', NEW s \in ProfileSlots, ProfileRequestFails(s)
    PROVE  ProfileInv'
<1> USE DEF ProfileInv
<1>1. GoOn(s, "idle") /\ req[s].pc \notin {"idle", "deleteOld"} /\ UNCHANGED <<photoKey, object, raced, retired>>
  BY DEF ProfileRequestFails, GoOn
<1>2. pfaults <= pfaults'
  BY DEF ProfileRequestFails, ProfileFault, ProfileTypeOK
<1> QED BY <1>1, <1>2, MovesOnly DEF ProfilePcs

LEMMA ProfileDeleteFailsKeeps ==
    ASSUME ProfileInv, ProfileTypeOK', NEW s \in ProfileSlots, DeleteFails(s)
    PROVE  ProfileInv'
<1> USE DEF ProfileInv
<1>1. UNCHANGED <<photoKey, object, raced, retired>> /\ pfaults <= pfaults' /\ pfaults' > 0
  BY DEF DeleteFails, ProfileFault, ProfileTypeOK
<1>2. CASE req[s].pc = "discard" /\ Answer(s)
  BY <1>1, <1>2, MovesOnly DEF ProfilePcs, GoOn
<1>3. CASE req[s].pc = "deleteOld" /\ GoOn(s, "publish")
  <2>1. req \in [ProfileSlots -> ProfileRequest]
    BY DEF ProfileTypeOK
  <2>2. /\ req'[s].pc = "publish" /\ req'[s].user = req[s].user
        /\ req'[s].previous = req[s].previous /\ req'[s].key = req[s].key
    BY <1>3, <2>1, GoOnFields DEF ProfilePcs
  <2>3. ProfileRequestOK(s)'
    BY <1>1, <1>3, <2>2 DEF ProfileRequestsOK, ProfileRequestOK
  <2> QED BY <1>1, <1>3, <2>3, MovesOnly DEF ProfilePcs
<1> QED BY <1>2, <1>3 DEF DeleteFails

LEMMA ProfileCrashKeeps ==
    ASSUME ProfileInv, ProfileTypeOK', ProfileCrash
    PROVE  ProfileInv'
<1> USE DEF ProfileInv
<1>1. UNCHANGED <<photoKey, object, raced, retired>> /\ pfaults' > 0
  BY DEF ProfileCrash, ProfileFault, ProfileTypeOK
<1>2. \A s \in ProfileSlots : req'[s] = NoProfileRequest
  BY DEF ProfileCrash
<1>3. ProfileRequestsOK' /\ RacesSeen'
  BY <1>2, ProfileAssumption DEF NoProfileRequest, ProfileRequestsOK, ProfileRequestOK, RacesSeen
<1>4. PhotoIsThere' /\ OrphansCostFaults'
  BY <1>1 DEF PhotoIsThere, OrphansCostFaults
<1> QED BY <1>3, <1>4

-----------------------------------------------------------------------------
(* The theorems.                                                           *)

LEMMA ProfileInitInv == ProfileInit => ProfileInv
<1> SUFFICES ASSUME ProfileInit PROVE ProfileInv
  OBVIOUS
<1>1. ProfileTypeOK
  BY ProfileInitType
<1>2. ProfileRequestsOK /\ RacesSeen
  BY ProfileAssumption DEF ProfileInit, NoProfileRequest, ProfileRequestsOK, ProfileRequestOK, RacesSeen
<1>3. PhotoIsThere /\ OrphansCostFaults
  BY DEF ProfileInit, PhotoIsThere, OrphansCostFaults
<1> QED BY <1>1, <1>2, <1>3 DEF ProfileInv

\* Every step of a request, of the clients and of what goes wrong keeps the
\* inductive invariant.
THEOREM ProfileStepInv ==
    ASSUME ProfileInv, [ProfileNext]_<<profileVars, log>>
    PROVE  ProfileInv'
<1>1. ProfileTypeOK'
  BY ProfileStepType DEF ProfileInv
<1>2. CASE UNCHANGED <<profileVars, log>>
  <2>1. UNCHANGED <<photoKey, object, req, raced, retired, pfaults>>
    BY <1>2 DEF profileVars
  <2>2. ProfileRequestsOK' /\ RacesSeen'
    BY <2>1 DEF ProfileInv, ProfileRequestsOK, ProfileRequestOK, RacesSeen
  <2>3. PhotoIsThere' /\ OrphansCostFaults'
    BY <2>1 DEF ProfileInv, PhotoIsThere, OrphansCostFaults
  <2> QED BY <1>1, <2>2, <2>3 DEF ProfileInv
<1>3. ASSUME NEW u \in Users, Clients(u) PROVE ProfileInv'
  BY <1>1, <1>3, ProfileClientKeeps DEF Clients
<1>4. ASSUME NEW k \in Keys, Retry(k) PROVE ProfileInv'
  <2>1. Owner[k] \in Users
    BY ProfileAssumption
  <2> QED BY <1>1, <1>4, <2>1, ProfileClientKeeps DEF Retry
<1>5. ASSUME NEW k \in Keys, NEW content \in Uploads, Upload(k, content) PROVE ProfileInv'
  BY <1>1, <1>5, ProfileUploadKeeps
<1>6. ASSUME NEW s \in ProfileSlots, Step(s) PROVE ProfileInv'
  BY <1>1, <1>6, HeadObjectKeeps, ReadFirstBytesKeeps, DiscardKeeps, UpdateKeeps, ClearKeeps,
     DeleteOldKeeps, PublishKeeps DEF Step
<1>7. CASE Trouble
  BY <1>1, <1>7, ProfileRequestFailsKeeps, ProfileDeleteFailsKeeps, ProfileCrashKeeps DEF Trouble
<1> QED BY <1>2, <1>3, <1>4, <1>5, <1>6, <1>7 DEF ProfileNext

\* The inductive invariant of auth-service's profiles.
THEOREM ProfileInvariance == ProfileSpec => []ProfileInv
  BY ProfileInitInv, ProfileStepInv, PTL DEF ProfileSpec

\* The rows, the bucket, the requests and the topic keep their types, whatever
\* fails and however requests overlap.
THEOREM ProfileTypeCorrect == ProfileSpec => []ProfileTypeOK
<1>1. ProfileInv => ProfileTypeOK
  BY DEF ProfileInv
<1> QED BY <1>1, ProfileInvariance, PTL

\* A user's row never points at nothing, unless two requests of that user
\* overlapped, and never at a file that confirmPhoto should have refused.
THEOREM PhotosExist == ProfileSpec => []PhotoIsThere
<1>1. ProfileInv => PhotoIsThere
  BY DEF ProfileInv
<1> QED BY <1>1, ProfileInvariance, PTL

\* A photo that is no longer anybody's is deleted by confirmPhoto or deletePhoto,
\* unless a call failed or requests of its user overlapped.
THEOREM OrphansExplained == ProfileSpec => []OrphansCostFaults
<1>1. ProfileInv => OrphansCostFaults
  BY DEF ProfileInv
<1> QED BY <1>1, ProfileInvariance, PTL

-----------------------------------------------------------------------------
(* The two services together.                                              *)

PhotoLog == log["user.photo.updated"]
PhotoPos == pos["user.photo.updated"]

\* The first n events leave the flag of driver d at "flag".
FlagAfter(d, n, flag) ==
    \/ ~flag /\ \A i \in 1 .. n : PhotoLog[i].driver # d
    \/ \E i \in 1 .. n : /\ PhotoLog[i] = [driver |-> d, hasPhoto |-> flag]
                         /\ \A j \in (i + 1) .. n : PhotoLog[j].driver # d

\* The flag of d in driver-service's table is what some number of events leave,
\* at least n: events that are handled again come after they have had their effect.
FlagFrom(d, n) == \E m \in n .. Len(PhotoLog) : FlagAfter(d, m, drivers[d].hasPhoto)

\* Driver-service has missed no event of a driver who is not in missed.
FlagOK(d) ==
    d \notin missed =>
        IF drivers[d].exists THEN FlagFrom(d, PhotoPos)
        ELSE \A i \in 1 .. PhotoPos : PhotoLog[i].driver # d

\* The handler of an event writes the flag first, and then moves the offset.
JobFlagOK ==
    job.topic = "user.photo.updated" =>
        /\ job.pc = "photoWrite" => job.hasPhoto = PhotoLog[PhotoPos + 1].hasPhoto
        /\ job.pc \notin {"idle", "photoWrite"} /\ job.driver \notin missed => FlagFrom(job.driver, PhotoPos + 1)

\* What a request of auth-service is going to say is true when it is said.
RequestKeyOK(s) ==
    LET r == req[s] IN
    /\ r.pc # "idle" => r.hasPhoto = (r.key # NoKey)
    /\ r.pc = "clear" => r.key = NoKey
    /\ r.pc \in {"deleteOld", "publish"} /\ r.user \notin raced => photoKey[r.user] = r.key

\* A request is on its way to announce what is in the row of d.
Announcing(d) ==
    \E s \in ProfileSlots : /\ req[s].user = d /\ req[s].key = photoKey[d]
                            /\ req[s].pc \in {"head", "bytes", "deleteOld", "publish"}

\* What auth-service's table says of d has been announced, or is going to be, or
\* its client does not know and will ask again, or it is the removal of a photo
\* whose event was lost.
RowAnnounced(d) ==
    d \notin raced =>
        \/ FlagAfter(d, Len(PhotoLog), photoKey[d] # NoKey)
        \/ photoKey[d] \in unsure
        \/ photoKey[d] = NoKey /\ pfaults > 0
        \/ Announcing(d)

Heard == (\A d \in Drivers : FlagOK(d)) /\ JobFlagOK
Said == (\A s \in ProfileSlots : RequestKeyOK(s)) /\ (\A d \in Drivers : RowAnnounced(d))

FlowInv == ProfileInv /\ IInv /\ InSerial /\ Heard /\ Said

\* Events and offsets of the one topic that matters here.
LEMMA PhotoTypes ==
    ASSUME IInv
    PROVE  /\ PhotoLog \in Seq(PhotoEvent) /\ Len(PhotoLog) \in Nat
           /\ PhotoPos \in Nat /\ PhotoPos <= Len(PhotoLog)
           /\ \A i \in 1 .. Len(PhotoLog) : PhotoLog[i] \in PhotoEvent
<1>1. PhotoLog \in Seq(PhotoEvent)
  BY DEF IInv, TypeOK, LogOK, PhotoLog
<1>2. PhotoPos \in Nat /\ PhotoPos <= Len(PhotoLog)
  BY DEF IInv, TypeOK, Topics, PhotoLog, PhotoPos
<1> QED BY <1>1, <1>2

\* Events have one outcome.
LEMMA FlagUnique ==
    ASSUME NEW d, NEW n \in Nat, NEW a \in BOOLEAN, NEW b \in BOOLEAN, FlagAfter(d, n, a), FlagAfter(d, n, b)
    PROVE  a = b
<1> SUFFICES ASSUME a # b PROVE FALSE
  OBVIOUS
<1> DEFINE Last(i, flag) == /\ i \in 1 .. n /\ PhotoLog[i] = [driver |-> d, hasPhoto |-> flag]
                            /\ \A j \in (i + 1) .. n : PhotoLog[j].driver # d
<1>1. ASSUME NEW i, NEW j, Last(i, a), Last(j, b) PROVE FALSE
  <2>1. PhotoLog[i].driver = d /\ PhotoLog[j].driver = d /\ PhotoLog[i].hasPhoto = a /\ PhotoLog[j].hasPhoto = b
    BY <1>1
  <2>2. i \in 1 .. n /\ j \in 1 .. n /\ ~(i \in (j + 1) .. n) /\ ~(j \in (i + 1) .. n)
    BY <1>1, <2>1
  <2>3. i = j
    BY <2>2
  <2> QED BY <2>1, <2>3
<1>2. ASSUME NEW i, NEW flag, Last(i, flag), \A j \in 1 .. n : PhotoLog[j].driver # d PROVE FALSE
  <2>1. PhotoLog[i].driver = d
    BY <1>2
  <2> QED BY <1>2, <2>1
<1>3. (~a /\ \A i \in 1 .. n : PhotoLog[i].driver # d) \/ \E i : Last(i, a)
  BY DEF FlagAfter
<1>4. (~b /\ \A i \in 1 .. n : PhotoLog[i].driver # d) \/ \E i : Last(i, b)
  BY DEF FlagAfter
<1> HIDE DEF Last
<1> QED BY <1>1, <1>2, <1>3, <1>4

\* One more event: of somebody else, or of the driver.
LEMMA FlagNext ==
    ASSUME NEW d, NEW n \in Nat, NEW flag \in BOOLEAN
    PROVE  /\ FlagAfter(d, n, flag) /\ PhotoLog[n + 1].driver # d => FlagAfter(d, n + 1, flag)
           /\ PhotoLog[n + 1] = [driver |-> d, hasPhoto |-> flag] => FlagAfter(d, n + 1, flag)
<1>1. ASSUME FlagAfter(d, n, flag), PhotoLog[n + 1].driver # d PROVE FlagAfter(d, n + 1, flag)
  <2>0. 1 .. (n + 1) = (1 .. n) \cup {n + 1}
    OBVIOUS
  <2>1. CASE ~flag /\ \A i \in 1 .. n : PhotoLog[i].driver # d
    BY <1>1, <2>0, <2>1 DEF FlagAfter
  <2>2. CASE \E i \in 1 .. n : /\ PhotoLog[i] = [driver |-> d, hasPhoto |-> flag]
                               /\ \A j \in (i + 1) .. n : PhotoLog[j].driver # d
    <3>1. PICK i \in 1 .. n : /\ PhotoLog[i] = [driver |-> d, hasPhoto |-> flag]
                              /\ \A j \in (i + 1) .. n : PhotoLog[j].driver # d
      BY <2>2
    <3>2. i \in 1 .. (n + 1) /\ \A j \in (i + 1) .. (n + 1) : j \in (i + 1) .. n \/ j = n + 1
      OBVIOUS
    <3>3. \A j \in (i + 1) .. (n + 1) : PhotoLog[j].driver # d
      BY <1>1, <3>1, <3>2
    <3> QED BY <3>1, <3>2, <3>3 DEF FlagAfter
  <2> QED BY <1>1, <2>1, <2>2 DEF FlagAfter
<1>2. ASSUME PhotoLog[n + 1] = [driver |-> d, hasPhoto |-> flag] PROVE FlagAfter(d, n + 1, flag)
  <2>1. n + 1 \in 1 .. (n + 1) /\ \A j \in (n + 1 + 1) .. (n + 1) : FALSE
    OBVIOUS
  <2> QED BY <1>2, <2>1 DEF FlagAfter
<1> QED BY <1>1, <1>2

\* The offset moves past an event of somebody else.
LEMMA FlagPasses ==
    ASSUME IInv, NEW d \in Drivers, FlagFrom(d, PhotoPos), PhotoPos < Len(PhotoLog), PhotoLog[PhotoPos + 1].driver # d
    PROVE  FlagFrom(d, PhotoPos + 1)
<1>1. PICK m \in PhotoPos .. Len(PhotoLog) : FlagAfter(d, m, drivers[d].hasPhoto)
  BY DEF FlagFrom
<1>2. PhotoPos \in Nat /\ Len(PhotoLog) \in Nat
  BY PhotoTypes
<1>3. CASE m = PhotoPos
  <2>1. drivers[d].hasPhoto \in BOOLEAN
    BY DEF IInv, TypeOK, Driver
  <2>2. FlagAfter(d, PhotoPos + 1, drivers[d].hasPhoto)
    BY <1>1, <1>2, <1>3, <2>1, FlagNext
  <2>3. PhotoPos + 1 \in (PhotoPos + 1) .. Len(PhotoLog)
    BY <1>2
  <2> QED BY <2>2, <2>3 DEF FlagFrom
<1>4. CASE m # PhotoPos
  <2>1. m \in (PhotoPos + 1) .. Len(PhotoLog)
    BY <1>2, <1>4
  <2> QED BY <1>1, <2>1 DEF FlagFrom
<1> QED BY <1>3, <1>4

-----------------------------------------------------------------------------
(* Driver-service hears of photos.                                         *)

DriverMoves ==
    \/ \E s \in Slots : DriverRequestStep(s) \/ \E d \in Drivers : DriverClient(s, d)
    \/ DriverConsumes \/ DriverTrouble

\* In terms of driver-service alone.
LEMMA DriverMovesOnly ==
    ASSUME DriverMoves
    PROVE  /\ UNCHANGED profileVars /\ log' = log /\ missed \subseteq missed'
           /\ \/ \E s \in Slots : Requests(s) \/ HttpStep(s) \/ RequestFails(s)
              \/ ConsumerStep /\ missed' = IF pos' # pos THEN missed \cup Strangers ELSE missed
              \/ missed' = missed \cup Overlooked' /\ (HandlerThrows \/ Crash \/ Rejoin)
<1>1. ASSUME NEW s \in Slots, DriverRequestStep(s)
      PROVE  UNCHANGED profileVars /\ log' = log /\ missed' = missed /\ HttpStep(s)
  BY <1>1 DEF DriverRequestStep, DriverDoes, HttpStep, Insert, StatusWrite, StatusRedis, StatusPublish,
              LocRedis, LocWrite
<1>2. ASSUME NEW s \in Slots, NEW d \in Drivers, DriverClient(s, d)
      PROVE  UNCHANGED profileVars /\ log' = log /\ missed' = missed /\ Requests(s)
  BY <1>2 DEF DriverClient, DriverDoes, Requests, createDriver, updateStatus, Accept
<1>3. ASSUME DriverConsumes
      PROVE  /\ UNCHANGED profileVars /\ log' = log /\ ConsumerStep
             /\ missed' = IF pos' # pos THEN missed \cup Strangers ELSE missed
  <2>1. UNCHANGED profileVars /\ ConsumerStep /\ missed' = IF pos' # pos THEN missed \cup Strangers ELSE missed
    BY <1>3 DEF DriverConsumes, DriverDoes
  <2>2. log' = log
    BY <2>1 DEF ConsumerStep, Consume, PhotoWrite, SystemWrite, SystemRedis, SystemPublish
  <2> QED BY <2>1, <2>2
<1>4. ASSUME DriverTrouble
      PROVE  /\ UNCHANGED profileVars /\ log' = log /\ missed' = missed \cup Overlooked'
             /\ HandlerThrows \/ Crash \/ Rejoin \/ \E s \in Slots : RequestFails(s)
  BY <1>4 DEF DriverTrouble, DriverDoes, HandlerThrows, Crash, Rejoin, RequestFails
<1> QED BY <1>1, <1>2, <1>3, <1>4 DEF DriverMoves

\* What is left there by some events is left there until the next event of d.
LEMMA FlagStays ==
    ASSUME NEW d, NEW flag, NEW m \in Nat, NEW n \in Nat, m <= n, FlagAfter(d, m, flag),
           \A i \in (m + 1) .. n : PhotoLog[i].driver # d
    PROVE  FlagAfter(d, n, flag)
<1>1. CASE ~flag /\ \A i \in 1 .. m : PhotoLog[i].driver # d
  <2>1. \A i \in 1 .. n : PhotoLog[i].driver # d
    BY <1>1
  <2> QED BY <1>1, <2>1 DEF FlagAfter
<1>2. CASE \E i \in 1 .. m : /\ PhotoLog[i] = [driver |-> d, hasPhoto |-> flag]
                             /\ \A j \in (i + 1) .. m : PhotoLog[j].driver # d
  <2>1. PICK i \in 1 .. m : /\ PhotoLog[i] = [driver |-> d, hasPhoto |-> flag]
                            /\ \A j \in (i + 1) .. m : PhotoLog[j].driver # d
    BY <1>2
  <2>2. i \in 1 .. n /\ \A j \in (i + 1) .. n : j \in (i + 1) .. m \/ j \in (m + 1) .. n
    OBVIOUS
  <2>3. \A j \in (i + 1) .. n : PhotoLog[j].driver # d
    BY <2>1, <2>2
  <2> QED BY <2>1, <2>2, <2>3 DEF FlagAfter
<1> QED BY <1>1, <1>2 DEF FlagAfter

\* Rows keep their flags but for new rows, which have none; the offset may go
\* back, or jump over events of drivers who then have missed one.
LEMMA FlagsStay ==
    ASSUME IInv, \A d \in Drivers : FlagOK(d), log' = log, missed \subseteq missed',
           PhotoPos' \in Nat, PhotoPos' <= Len(PhotoLog),
           \A d \in Drivers \ missed' : \A i \in (PhotoPos + 1) .. PhotoPos' : PhotoLog[i].driver # d,
           \A d \in Drivers :
              \/ drivers'[d].exists = drivers[d].exists /\ drivers'[d].hasPhoto = drivers[d].hasPhoto
              \/ ~drivers[d].exists /\ drivers'[d].exists /\ drivers'[d].hasPhoto = FALSE
    PROVE  \A d \in Drivers : FlagOK(d)'
<1> SUFFICES ASSUME NEW d \in Drivers, d \notin missed' PROVE FlagOK(d)'
  BY DEF FlagOK
<1>1. PhotoPos \in Nat /\ Len(PhotoLog) \in Nat /\ PhotoPos <= Len(PhotoLog) /\ PhotoLog' = PhotoLog
  BY PhotoTypes DEF PhotoLog
<1>2. IF drivers[d].exists THEN FlagFrom(d, PhotoPos) ELSE \A i \in 1 .. PhotoPos : PhotoLog[i].driver # d
  BY DEF FlagOK
<1>3. CASE drivers[d].exists
  <2>1. PICK m \in PhotoPos .. Len(PhotoLog) : FlagAfter(d, m, drivers[d].hasPhoto)
    BY <1>2, <1>3 DEF FlagFrom
  <2>2. PICK k \in PhotoPos' .. Len(PhotoLog) : FlagAfter(d, k, drivers[d].hasPhoto)
    <3>1. CASE PhotoPos' <= m
      BY <1>1, <2>1, <3>1
    <3>2. CASE ~(PhotoPos' <= m)
      <4>1. m \in Nat /\ m <= PhotoPos' /\ \A i \in (m + 1) .. PhotoPos' : PhotoLog[i].driver # d
        BY <1>1, <2>1, <3>2
      <4>2. FlagAfter(d, PhotoPos', drivers[d].hasPhoto)
        BY <2>1, <4>1, FlagStays
      <4> QED BY <1>1, <4>2
    <3> QED BY <3>1, <3>2
  <2>3. k \in PhotoPos' .. Len(PhotoLog') /\ FlagAfter(d, k, drivers'[d].hasPhoto)
    BY <1>1, <1>3, <2>2
  <2>4. FlagFrom(d, PhotoPos)'
    BY <1>1, <2>3 DEF FlagFrom, FlagAfter
  <2> QED BY <1>3, <2>4 DEF FlagOK
<1>4. CASE ~drivers[d].exists
  <2>1. \A i \in 1 .. PhotoPos' : PhotoLog'[i].driver # d
    <3>1. \A i \in 1 .. PhotoPos' : i \in 1 .. PhotoPos \/ i \in (PhotoPos + 1) .. PhotoPos'
      BY <1>1
    <3> QED BY <1>1, <1>2, <1>4, <3>1
  <2>2. CASE drivers'[d].exists
    <3>1. drivers'[d].hasPhoto = FALSE
      BY <1>4, <2>2
    <3>2. PhotoPos' \in PhotoPos' .. Len(PhotoLog') /\ FlagAfter(d, PhotoPos, drivers[d].hasPhoto)'
      BY <1>1, <2>1, <3>1 DEF FlagAfter
    <3>3. FlagFrom(d, PhotoPos)'
      BY <3>2 DEF FlagFrom, FlagAfter
    <3> QED BY <2>2, <3>3 DEF FlagOK
  <2>3. CASE ~drivers'[d].exists
    BY <2>1, <2>3 DEF FlagOK
  <2> QED BY <2>2, <2>3
<1> QED BY <1>3, <1>4

\* The handler at work is not disturbed by requests.
LEMMA JobFlagStays ==
    ASSUME IInv, JobFlagOK, log' = log, missed \subseteq missed', pos' = pos, job' = job \/ job' = NoJob,
           \A d \in Drivers : drivers[d].exists =>
              drivers'[d].exists = drivers[d].exists /\ drivers'[d].hasPhoto = drivers[d].hasPhoto
    PROVE  JobFlagOK'
<1>1. job.pc # "idle" => drivers'[job.driver].hasPhoto = drivers[job.driver].hasPhoto
  BY DEF IInv, HandlersOK, JobOK
<1>2. PhotoPos' = PhotoPos /\ PhotoLog' = PhotoLog
  BY DEF PhotoPos, PhotoLog
<1>3. CASE job' = NoJob
  BY <1>3 DEF NoJob, JobFlagOK
<1>4. CASE job' = job
  BY <1>1, <1>2, <1>4 DEF JobFlagOK, FlagFrom, FlagAfter
<1> QED BY <1>3, <1>4

\* Requests of drivers do not write flags.
LEMMA RequestKeepsHeard ==
    ASSUME IInv, Heard, missed \subseteq missed', log' = log,
           NEW s \in Slots, Requests(s) \/ HttpStep(s) \/ RequestFails(s)
    PROVE  Heard'
<1>1. UNCHANGED <<job, pos>>
  BY DEF Requests, createDriver, updateStatus, updateLocation, Accept,
         HttpStep, Insert, StatusWrite, StatusRedis, StatusPublish, LocRedis, LocWrite, RequestFails
<1>2. ASSUME NEW d \in Drivers
      PROVE  \/ drivers'[d].exists = drivers[d].exists /\ drivers'[d].hasPhoto = drivers[d].hasPhoto
             \/ ~drivers[d].exists /\ drivers'[d].exists /\ drivers'[d].hasPhoto = FALSE
  <2>1. drivers \in [Drivers -> Driver] /\ drivers[d] \in Driver /\ http[s] \in Request
    BY DEF IInv, TypeOK
  <2>2. CASE Insert(s)
    <3>1. http[s].loc \in Places \cup {NoPlace}
      BY <2>1 DEF Request
    <3> QED BY <2>1, <2>2, <3>1, NewProfileFields DEF Insert
  <2>3. CASE StatusWrite(s)
    BY <2>1, <2>3 DEF StatusWrite, Driver
  <2>4. CASE LocWrite(s)
    BY <2>1, <2>4 DEF LocWrite, Driver
  <2>5. CASE ~Insert(s) /\ ~StatusWrite(s) /\ ~LocWrite(s)
    BY <2>5 DEF Requests, createDriver, updateStatus, updateLocation, Accept, tableVars,
                HttpStep, StatusRedis, StatusPublish, LocRedis, RequestFails
  <2> QED BY <2>2, <2>3, <2>4, <2>5
<1>3. \A d \in Drivers : FlagOK(d)'
  <2>1. PhotoPos' = PhotoPos /\ PhotoPos \in Nat /\ PhotoPos <= Len(PhotoLog)
    BY <1>1, PhotoTypes DEF PhotoPos
  <2>2. \A d \in Drivers \ missed' : \A i \in (PhotoPos + 1) .. PhotoPos' : PhotoLog[i].driver # d
    BY <2>1
  <2> QED BY <1>2, <2>1, <2>2, FlagsStay DEF Heard
<1>4. JobFlagOK'
  BY <1>1, <1>2, JobFlagStays DEF Heard
<1> QED BY <1>3, <1>4 DEF Heard

\* A group that joins anew goes back or jumps over events.
LEMMA PhotoResume ==
    ASSUME IInv, Resume, log' = log
    PROVE  /\ PhotoPos' \in Nat /\ PhotoPos' <= Len(PhotoLog)
           /\ \A i \in (PhotoPos + 1) .. PhotoPos' : i \in committed'["user.photo.updated"].skipped
<1>1. PICK k : /\ k \in Rejoins(log, committed, pos, DriverTopics)
               /\ pos' = PosAfter(k, pos) /\ committed' = CommittedAfter(k, committed)
  BY DEF Resume
<1>2. DriverTopics \subseteq Topics /\ LogOK(log) /\ OffsetsOK(log, committed, pos, DriverTopics)
      /\ "user.photo.updated" \in DriverTopics
  BY DEF DriverTopics, Topics, IInv, TypeOK, OffsetsOK
<1>3. /\ OffsetsOK(log, committed', pos', DriverTopics)
      /\ Moved(log, committed, pos, committed', pos', DriverTopics)
  BY <1>1, <1>2, RejoinsFacts
<1>4. PhotoPos' \in Nat /\ PhotoPos' <= Len(PhotoLog) /\ PhotoPos \in Nat
  BY <1>2, <1>3, PhotoTypes DEF OffsetsOK, PhotoPos, PhotoLog, Topics
<1>5. \/ PhotoPos' <= PhotoPos
      \/ /\ PhotoPos' = Len(PhotoLog)
         /\ (PhotoPos + 1) .. Len(PhotoLog) \subseteq committed'["user.photo.updated"].skipped
  BY <1>2, <1>3 DEF Moved, PhotoPos, PhotoLog
<1> QED BY <1>4, <1>5

\* Failures send the offset back at most, or over events that are then missed.
LEMMA TroubleKeepsHeard ==
    ASSUME IInv, Heard, missed' = missed \cup Overlooked', log' = log, HandlerThrows \/ Crash \/ Rejoin
    PROVE  Heard'
<1>1. drivers' = drivers /\ (job' = NoJob \/ (job.pc = "idle" /\ job' = job))
  BY DEF HandlerThrows, Crash, Rejoin, tableVars
<1>2. /\ PhotoPos' \in Nat /\ PhotoPos' <= Len(PhotoLog)
      /\ \A i \in (PhotoPos + 1) .. PhotoPos' : i \in committed'["user.photo.updated"].skipped
  <2>1. CASE HandlerThrows
    <3>1. PhotoPos' = PhotoPos /\ PhotoPos \in Nat /\ PhotoPos <= Len(PhotoLog)
      BY <2>1, PhotoTypes DEF HandlerThrows, PhotoPos
    <3> QED BY <3>1
  <2>2. CASE Crash \/ Rejoin
    BY <2>2, PhotoResume DEF Crash, Rejoin
  <2> QED BY <2>1, <2>2
<1>3. ASSUME NEW d \in Drivers \ missed', NEW i \in (PhotoPos + 1) .. PhotoPos' PROVE PhotoLog[i].driver # d
  <2>1. d # NoDriver
    BY EventsAssumption
  <2>2. PhotoLog[i].driver \in Overlooked' \cup {NoDriver}
    BY <1>2 DEF Overlooked, PhotoLog
  <2> QED BY <2>1, <2>2
<1>4. \A d \in Drivers : FlagOK(d)'
  BY <1>1, <1>2, <1>3, FlagsStay DEF Heard
<1>5. JobFlagOK'
  BY <1>1 DEF NoJob, JobFlagOK
<1> QED BY <1>4, <1>5 DEF Heard

\* The event that is next has been handled.
LEMMA FlagsPass ==
    ASSUME IInv, \A d \in Drivers : FlagOK(d), log' = log, missed \subseteq missed',
           PhotoPos' = PhotoPos + 1, PhotoPos < Len(PhotoLog),
           \A d \in Drivers : drivers'[d].exists = drivers[d].exists,
           \A d \in Drivers : PhotoLog[PhotoPos + 1].driver # d => drivers'[d].hasPhoto = drivers[d].hasPhoto,
           \A d \in Drivers : PhotoLog[PhotoPos + 1].driver = d =>
              d \in missed' \/ (drivers'[d].exists /\ FlagFrom(d, PhotoPos)')
    PROVE  \A d \in Drivers : FlagOK(d)'
<1> SUFFICES ASSUME NEW d \in Drivers, d \notin missed' PROVE FlagOK(d)'
  BY DEF FlagOK
<1>1. PhotoPos \in Nat /\ Len(PhotoLog) \in Nat /\ PhotoLog' = PhotoLog
  BY PhotoTypes DEF PhotoLog
<1>2. CASE PhotoLog[PhotoPos + 1].driver = d
  BY <1>2 DEF FlagOK
<1>3. CASE PhotoLog[PhotoPos + 1].driver # d
  <2>1. drivers'[d].exists = drivers[d].exists /\ drivers'[d].hasPhoto = drivers[d].hasPhoto
    BY <1>3
  <2>2. IF drivers[d].exists THEN FlagFrom(d, PhotoPos) ELSE \A i \in 1 .. PhotoPos : PhotoLog[i].driver # d
    BY DEF FlagOK
  <2>3. CASE drivers[d].exists
    <3>1. FlagFrom(d, PhotoPos + 1)
      BY <1>3, <2>2, <2>3, FlagPasses
    <3>2. FlagFrom(d, PhotoPos)'
      BY <1>1, <2>1, <3>1 DEF FlagFrom, FlagAfter
    <3> QED BY <2>1, <2>3, <3>2 DEF FlagOK
  <2>4. CASE ~drivers[d].exists
    <3>1. \A i \in 1 .. PhotoPos' : i \in 1 .. PhotoPos \/ i = PhotoPos + 1
      BY <1>1
    <3>2. \A i \in 1 .. PhotoPos' : PhotoLog'[i].driver # d
      BY <1>1, <1>3, <2>2, <2>4, <3>1
    <3> QED BY <2>1, <2>4, <3>2 DEF FlagOK
  <2> QED BY <2>3, <2>4
<1> QED BY <1>2, <1>3

\* An event of another topic, or one that leaves the offset where it is.
LEMMA OtherAck ==
    ASSUME IInv, \A d \in Drivers : FlagOK(d), log' = log, missed \subseteq missed', pos' = pos \/ PhotoPos' = PhotoPos,
           \A d \in Drivers :
              drivers'[d].exists = drivers[d].exists /\ drivers'[d].hasPhoto = drivers[d].hasPhoto
    PROVE  \A d \in Drivers : FlagOK(d)'
<1>1. PhotoPos' = PhotoPos /\ PhotoLog' = PhotoLog
  BY DEF PhotoPos, PhotoLog
<1> QED BY <1>1 DEF FlagOK, FlagFrom, FlagAfter

\* An event is handed to its handler, or to nobody.
LEMMA ConsumeKeepsHeard ==
    ASSUME IInv, Heard, log' = log, NEW t \in DriverTopics, Consume(t),
           missed' = IF pos' # pos THEN missed \cup Strangers ELSE missed
    PROVE  Heard'
<1> PICK m : m = NextMessage(log[t], pos[t])
  OBVIOUS
<1>1. HasNext(log[t], pos[t]) /\ drivers' = drivers /\ missed \subseteq missed'
  BY DEF Consume, tableVars
<1>2. CASE Ignored(t, m) /\ Ack(t)
  <2>1. JobFlagOK'
    BY <1>2 DEF Ack, NoJob, JobFlagOK
  <2>2. CASE t # "user.photo.updated"
    <3>1. PhotoPos' = PhotoPos
      BY <1>2, <2>2 DEF Ack, PhotoPos, IInv, TypeOK, Topics
    <3> QED BY <1>1, <2>1, <3>1, OtherAck DEF Heard
  <2>3. CASE t = "user.photo.updated"
    <3>1. PhotoPos \in Nat /\ PhotoPos < Len(PhotoLog) /\ m = PhotoLog[PhotoPos + 1]
      BY <1>1, <2>3, PhotoTypes DEF HasNext, NextMessage, PhotoLog, PhotoPos
    <3>2. PhotoPos' = PhotoPos + 1
      BY <1>2, <2>3 DEF Ack, PhotoPos, IInv, TypeOK, Topics
    <3>3. ASSUME NEW d \in Drivers, m.driver = d PROVE d \in missed'
      <4>1. ~drivers[d].exists
        BY <1>2, <2>3, <3>3, EventsAssumption DEF Ignored
      <4>2. d \in Strangers
        BY <1>1, <2>3, <3>3, <4>1 DEF Strangers
      <4>3. pos' # pos
        BY <3>1, <3>2 DEF PhotoPos
      <4> QED BY <4>2, <4>3
    <3>4. \A d \in Drivers : FlagOK(d)'
      BY <1>1, <3>1, <3>2, <3>3, FlagsPass DEF Heard
    <3> QED BY <2>1, <3>4 DEF Heard
  <2> QED BY <2>2, <2>3
<1>3. CASE ~Ignored(t, m) /\ job' = JobFor(t, m) /\ pos' = pos
  <2>1. \A d \in Drivers : FlagOK(d)'
    BY <1>1, <1>3, OtherAck DEF Heard
  <2>2. CASE t = "user.photo.updated"
    <3>1. job'.pc = "photoWrite" /\ job'.hasPhoto = m.hasPhoto
      BY <1>3, <2>2 DEF JobFor, PhotoJob
    <3>2. m = PhotoLog'[PhotoPos' + 1]
      BY <1>3, <2>2 DEF NextMessage, PhotoLog, PhotoPos
    <3> QED BY <2>1, <3>1, <3>2 DEF Heard, JobFlagOK
  <2>3. CASE t # "user.photo.updated"
    <3>1. job'.topic = t
      BY <1>3, <2>3 DEF JobFor, StatusJob, DriverTopics
    <3> QED BY <2>1, <2>3, <3>1 DEF Heard, JobFlagOK
  <2> QED BY <2>2, <2>3
<1> QED BY <1>2, <1>3 DEF Consume

\* The flag is written; it is what the event says.
LEMMA PhotoWriteKeepsHeard ==
    ASSUME IInv, Heard, log' = log, missed \subseteq missed', PhotoWrite
    PROVE  Heard'
<1> PICK d : d = job.driver
  OBVIOUS
<1>1. /\ d \in Drivers /\ drivers[d].exists /\ job.topic = "user.photo.updated"
      /\ PhotoPos < Len(PhotoLog) /\ PhotoLog[PhotoPos + 1].driver = d
      /\ job.hasPhoto = PhotoLog[PhotoPos + 1].hasPhoto /\ job \in Job
  BY DEF PhotoWrite, IInv, TypeOK, HandlersOK, JobOK, Heard, JobFlagOK, HasNext, NextMessage, PhotoLog, PhotoPos
<1>2. /\ drivers'[d].hasPhoto = job.hasPhoto /\ drivers'[d].exists
      /\ \A e \in Drivers : drivers'[e].exists = drivers[e].exists
      /\ \A e \in Drivers \ {d} : drivers'[e] = drivers[e]
  <2>1. drivers \in [Drivers -> Driver] /\ drivers[d] \in Driver
    BY <1>1 DEF IInv, TypeOK
  <2> QED BY <1>1, <2>1 DEF PhotoWrite, Driver
<1>3. PhotoPos \in Nat /\ PhotoPos + 1 \in 1 .. Len(PhotoLog) /\ PhotoLog[PhotoPos + 1] \in PhotoEvent /\ Len(PhotoLog) \in Nat
  BY <1>1, PhotoTypes
<1>4. PhotoLog[PhotoPos + 1] = [driver |-> d, hasPhoto |-> job.hasPhoto] /\ job.hasPhoto \in BOOLEAN
  BY <1>1, <1>3 DEF PhotoEvent
<1>5. FlagAfter(d, PhotoPos + 1, job.hasPhoto)
  BY <1>3, <1>4, FlagNext
<1>6. PhotoLog' = PhotoLog /\ PhotoPos + 1 \in (PhotoPos + 1) .. Len(PhotoLog) /\ PhotoPos + 1 \in PhotoPos .. Len(PhotoLog)
  BY <1>3 DEF PhotoLog
<1>7. CASE job.goOffline
  <2>1. job' = [job EXCEPT !.pc = "statusWrite"] /\ pos' = pos /\ PhotoPos' = PhotoPos
    BY <1>7 DEF PhotoWrite, PhotoPos
  <2>2. job'.driver = d /\ job'.pc = "statusWrite"
    BY <1>1, <2>1, JobGoto DEF JobPcs
  <2>3. FlagFrom(d, PhotoPos + 1)' /\ FlagFrom(d, PhotoPos)'
    BY <1>2, <1>5, <1>6, <2>1 DEF FlagFrom, FlagAfter
  <2>4. ASSUME NEW e \in Drivers PROVE FlagOK(e)'
    <3>1. CASE e = d
      BY <1>2, <2>3, <3>1 DEF FlagOK
    <3>2. CASE e # d
      BY <1>2, <1>6, <2>1, <3>2 DEF Heard, FlagOK, FlagFrom, FlagAfter
    <3> QED BY <3>1, <3>2
  <2>5. JobFlagOK'
    BY <2>2, <2>3 DEF JobFlagOK
  <2> QED BY <2>4, <2>5 DEF Heard
<1>8. CASE ~job.goOffline
  <2>1. job' = NoJob /\ PhotoPos' = PhotoPos + 1
    BY <1>1, <1>8 DEF PhotoWrite, Ack, PhotoPos, IInv, TypeOK, Topics
  <2>2. FlagFrom(d, PhotoPos)'
    BY <1>2, <1>5, <1>6, <2>1 DEF FlagFrom, FlagAfter
  <2>3. \A e \in Drivers : FlagOK(e)'
    BY <1>1, <1>2, <2>1, <2>2, FlagsPass DEF Heard
  <2>4. JobFlagOK'
    BY <2>1 DEF NoJob, JobFlagOK
  <2> QED BY <2>3, <2>4 DEF Heard
<1> QED BY <1>7, <1>8

\* The rest of the handlers: status, pool and announcement.
LEMMA SystemKeepsHeard ==
    ASSUME IInv, Heard, log' = log, missed \subseteq missed', SystemWrite \/ SystemRedis \/ SystemPublish
    PROVE  Heard'
<1> PICK d : d = job.driver
  OBVIOUS
<1>1. d \in Drivers /\ drivers[d].exists /\ job \in Job /\ job.topic \in Topics /\ job.pc \notin {"idle", "photoWrite"}
  BY DEF SystemWrite, SystemRedis, SystemPublish, IInv, TypeOK, HandlersOK, JobOK, DriverTopics, Topics
<1>2. \A e \in Drivers : drivers'[e].exists = drivers[e].exists /\ drivers'[e].hasPhoto = drivers[e].hasPhoto
  <2>1. CASE SystemWrite
    <3>1. drivers \in [Drivers -> Driver] /\ \A e \in Drivers : drivers[e] \in Driver
      BY DEF IInv, TypeOK
    <3> QED BY <2>1, <3>1 DEF SystemWrite, Driver
  <2>2. CASE SystemRedis \/ SystemPublish
    BY <2>2 DEF SystemRedis, SystemPublish
  <2> QED BY <2>1, <2>2
<1>3. PhotoLog' = PhotoLog
  BY DEF PhotoLog
<1>4. CASE SystemWrite \/ SystemRedis
  <2>1. \E pc \in {"statusRedis", "statusPublish"} : job' = [job EXCEPT !.pc = pc]
    BY <1>4 DEF SystemWrite, SystemRedis
  <2>2. pos' = pos /\ PhotoPos' = PhotoPos
    BY <1>4 DEF SystemWrite, SystemRedis, PhotoPos
  <2>3. job'.pc \notin {"idle", "photoWrite"} /\ job'.driver = d /\ job'.topic = job.topic
    BY <1>1, <2>1, JobGoto DEF JobPcs
  <2>4. \A e \in Drivers : FlagOK(e)'
    BY <1>2, <2>2, OtherAck DEF Heard
  <2>5. job.topic = "user.photo.updated" /\ d \notin missed => FlagFrom(d, PhotoPos + 1)
    BY <1>1 DEF Heard, JobFlagOK
  <2>6. FlagFrom(d, PhotoPos + 1) => FlagFrom(d, PhotoPos + 1)'
    BY <1>1, <1>2, <1>3, <2>2 DEF FlagFrom, FlagAfter
  <2>7. JobFlagOK'
    BY <2>3, <2>5, <2>6 DEF JobFlagOK
  <2> QED BY <2>4, <2>7 DEF Heard
<1>5. CASE SystemPublish
  <2>1. Ack(job.topic)
    BY <1>5 DEF SystemPublish
  <2>2. JobFlagOK'
    BY <2>1 DEF Ack, NoJob, JobFlagOK
  <2>3. CASE job.topic # "user.photo.updated"
    <3>1. PhotoPos' = PhotoPos
      BY <1>1, <2>1, <2>3 DEF Ack, PhotoPos, IInv, TypeOK, Topics
    <3> QED BY <1>2, <2>2, <3>1, OtherAck DEF Heard
  <2>4. CASE job.topic = "user.photo.updated"
    <3>1. PhotoPos' = PhotoPos + 1
      BY <2>1, <2>4 DEF Ack, PhotoPos, IInv, TypeOK, Topics
    <3>2. PhotoPos < Len(PhotoLog) /\ PhotoLog[PhotoPos + 1].driver = d
      BY <1>1, <2>4 DEF IInv, HandlersOK, JobOK, HasNext, NextMessage, PhotoLog, PhotoPos
    <3>3. d \in missed \/ FlagFrom(d, PhotoPos + 1)
      BY <1>1, <2>4 DEF Heard, JobFlagOK
    <3>4. d \in missed' \/ (drivers'[d].exists /\ FlagFrom(d, PhotoPos)')
      BY <1>1, <1>2, <1>3, <3>1, <3>3 DEF FlagFrom, FlagAfter
    <3>5. \A e \in Drivers : FlagOK(e)'
      BY <1>2, <3>1, <3>2, <3>4, FlagsPass DEF Heard
    <3> QED BY <2>2, <3>5 DEF Heard
  <2> QED BY <2>3, <2>4
<1> QED BY <1>4, <1>5

LEMMA DriverKeepsHeard ==
    ASSUME IInv, Heard, DriverMoves
    PROVE  Heard'
<1>1. log' = log /\ missed \subseteq missed'
  BY DriverMovesOnly
<1>2. ASSUME ConsumerStep, missed' = IF pos' # pos THEN missed \cup Strangers ELSE missed PROVE Heard'
  BY <1>1, <1>2, ConsumeKeepsHeard, PhotoWriteKeepsHeard, SystemKeepsHeard DEF ConsumerStep
<1> QED BY <1>1, <1>2, DriverMovesOnly, RequestKeepsHeard, TroubleKeepsHeard

-----------------------------------------------------------------------------
(* Auth-service speaks of photos.                                          *)

\* Other drivers' rows and requests stay as they are.
LEMMA OtherRowAnnounced ==
    ASSUME NEW d \in Drivers, RowAnnounced(d), log' = log, photoKey'[d] = photoKey[d],
           raced \subseteq raced', unsure \subseteq unsure', pfaults' >= pfaults, pfaults \in Nat, pfaults' \in Nat,
           \A t \in ProfileSlots : req[t].user = d => req'[t] = req[t]
    PROVE  RowAnnounced(d)'
<1>1. PhotoLog' = PhotoLog
  BY DEF PhotoLog
<1>2. Announcing(d) => Announcing(d)'
  BY DEF Announcing
<1>3. FlagAfter(d, Len(PhotoLog), photoKey[d] # NoKey) => FlagAfter(d, Len(PhotoLog), photoKey[d] # NoKey)'
  BY <1>1 DEF FlagAfter
<1> QED BY <1>2, <1>3 DEF RowAnnounced

\* From what the request in slot s shows for itself and its user to all.
LEMMA SlotSays ==
    ASSUME ProfileInv, ProfileTypeOK', Said, NEW s \in ProfileSlots, NEW u, u = req[s].user, u \in Users,
           log' = log, raced' = raced, unsure \subseteq unsure', pfaults' >= pfaults,
           \A t \in ProfileSlots \ {s} : req'[t] = req[t],
           \A v \in Users : v # u => photoKey'[v] = photoKey[v],
           RequestKeyOK(s)',
           u \in Drivers /\ u \notin raced => RowAnnounced(u)'
    PROVE  Said'
<1>1. ASSUME NEW t \in ProfileSlots PROVE RequestKeyOK(t)'
  <2>1. CASE t = s
    BY <2>1
  <2>2. CASE t # s
    <3>1. req'[t] = req[t] /\ req[t] \in ProfileRequest /\ req[t].user \in Users \cup {NoUser}
      BY <2>2 DEF ProfileInv, ProfileTypeOK, ProfileRequest
    <3>2. req[t].pc # "idle" => req[t].user \in Users
      BY <3>1 DEF ProfileInv, ProfileRequestsOK, ProfileRequestOK
    <3>3. req[t].user = u => u \in raced
      BY <2>2, ProfileAssumption DEF ProfileInv, RacesSeen
    <3> QED BY <3>1, <3>2, <3>3 DEF Said, RequestKeyOK
  <2> QED BY <2>1, <2>2
<1>2. ASSUME NEW d \in Drivers PROVE RowAnnounced(d)'
  <2>1. CASE d = u
    BY <2>1 DEF RowAnnounced
  <2>2. CASE d # u
    <3>1. d \in Users /\ pfaults \in Nat /\ pfaults' \in Nat
      BY DEF Users, ProfileInv, ProfileTypeOK
    <3>2. \A t \in ProfileSlots : req[t].user = d => req'[t] = req[t]
      BY <2>2
    <3> QED BY <2>2, <3>1, <3>2, OtherRowAnnounced DEF Said
  <2> QED BY <2>1, <2>2
<1> QED BY <1>1, <1>2 DEF Said

\* The row of the request's user is what it was, and the request does not give
\* up announcing it.
LEMMA SameRowSays ==
    ASSUME ProfileInv, ProfileTypeOK', Said, NEW s \in ProfileSlots, NEW u, u = req[s].user, u \in Users,
           UNCHANGED <<log, raced, photoKey>>, unsure \subseteq unsure', pfaults' >= pfaults,
           \A t \in ProfileSlots \ {s} : req'[t] = req[t],
           RequestKeyOK(s)',
           u \notin raced /\ req[s].key = photoKey[u] /\ req[s].pc \in {"head", "bytes", "deleteOld", "publish"} =>
              \/ /\ req'[s].user = u /\ req'[s].key = photoKey[u]
                 /\ req'[s].pc \in {"head", "bytes", "deleteOld", "publish"}
              \/ photoKey[u] \in unsure'
              \/ photoKey[u] = NoKey /\ pfaults' > 0
    PROVE  Said'
<1>1. ASSUME u \in Drivers, u \notin raced PROVE RowAnnounced(u)'
  <2>1. pfaults \in Nat /\ pfaults' \in Nat /\ PhotoLog' = PhotoLog
    BY DEF ProfileInv, ProfileTypeOK, PhotoLog
  <2>2. FlagAfter(u, Len(PhotoLog), photoKey[u] # NoKey) => FlagAfter(u, Len(PhotoLog), photoKey[u] # NoKey)'
    BY <2>1 DEF FlagAfter
  <2>3. Announcing(u) => Announcing(u)' \/ photoKey[u] \in unsure' \/ (photoKey[u] = NoKey /\ pfaults' > 0)
    <3>1. SUFFICES ASSUME NEW t \in ProfileSlots, req[t].user = u, req[t].key = photoKey[u],
                          req[t].pc \in {"head", "bytes", "deleteOld", "publish"}
                   PROVE  Announcing(u)' \/ photoKey[u] \in unsure' \/ (photoKey[u] = NoKey /\ pfaults' > 0)
      BY DEF Announcing
    <3>2. CASE t = s
      BY <1>1, <3>1, <3>2 DEF Announcing
    <3>3. CASE t # s
      BY <3>1, <3>3 DEF Announcing
    <3> QED BY <3>2, <3>3
  <2>4. \/ FlagAfter(u, Len(PhotoLog), photoKey[u] # NoKey)
        \/ photoKey[u] \in unsure
        \/ photoKey[u] = NoKey /\ pfaults > 0
        \/ Announcing(u)
    BY <1>1 DEF Said, RowAnnounced
  <2> QED BY <2>1, <2>2, <2>3, <2>4 DEF RowAnnounced
<1> QED BY <1>1, SlotSays

\* A client asks: a key that is the photo is on its way again.
LEMMA AcceptSays ==
    ASSUME ProfileInv, ProfileTypeOK', Said, NEW s \in ProfileSlots, NEW r, Begins(s, r),
           r.pc \in {"head", "clear"},
           r.pc = "clear" => r.key = NoKey /\ r.hasPhoto = FALSE,
           r.pc = "head" => r.key # NoKey /\ Owner[r.key] = r.user /\ r.hasPhoto = TRUE
    PROVE  Said'
<1>1. /\ req'[s] = r /\ req[s].pc = "idle" /\ \A t \in ProfileSlots \ {s} : req'[t] = req[t]
      /\ raced \subseteq raced' /\ unsure' = unsure \ {r.key} /\ UNCHANGED <<photoKey, pfaults, log>>
  BY DEF Begins, ProfileInv, ProfileTypeOK
<1>2. ASSUME NEW t \in ProfileSlots PROVE RequestKeyOK(t)'
  <2>1. CASE t = s
    <3>1. r.hasPhoto = (r.key # NoKey)
      <4>1. CASE r.pc = "clear"
        BY <4>1
      <4>2. CASE r.pc = "head"
        BY <4>2
      <4> QED BY <4>1, <4>2
    <3> QED BY <1>1, <2>1, <3>1 DEF RequestKeyOK
  <2>2. CASE t # s
    BY <1>1, <2>2 DEF Said, RequestKeyOK
  <2> QED BY <2>1, <2>2
<1>3. ASSUME NEW d \in Drivers, d \notin raced' PROVE RowAnnounced(d)'
  <2>1. PhotoLog' = PhotoLog /\ d \notin raced
    BY <1>1, <1>3 DEF PhotoLog
  <2>2. FlagAfter(d, Len(PhotoLog), photoKey[d] # NoKey) => FlagAfter(d, Len(PhotoLog), photoKey[d] # NoKey)'
    BY <1>1, <2>1 DEF FlagAfter
  <2>3. Announcing(d) => Announcing(d)'
    BY <1>1 DEF Announcing
  <2>4. photoKey[d] \in unsure => photoKey[d] \in unsure' \/ Announcing(d)'
    <3>1. SUFFICES ASSUME photoKey[d] \in unsure, photoKey[d] = r.key PROVE Announcing(d)'
      BY <1>1
    <3>2. photoKey[d] # NoKey /\ d \in Users
      BY <3>1, ProfileAssumption DEF ProfileInv, ProfileTypeOK, Users
    <3>3. Owner[photoKey[d]] = d
      BY <3>2 DEF ProfileInv, PhotoIsThere
    <3> QED BY <1>1, <3>1, <3>2, <3>3 DEF Announcing
  <2>5. \/ FlagAfter(d, Len(PhotoLog), photoKey[d] # NoKey)
        \/ photoKey[d] \in unsure
        \/ photoKey[d] = NoKey /\ pfaults > 0
        \/ Announcing(d)
    BY <2>1 DEF Said, RowAnnounced
  <2> QED BY <1>1, <2>2, <2>3, <2>4, <2>5 DEF RowAnnounced
<1> QED BY <1>2, <1>3 DEF Said, RowAnnounced

LEMMA ClientSays ==
    ASSUME ProfileInv, ProfileTypeOK', Said, NEW s \in ProfileSlots, NEW u,
           deletePhoto(s, u) \/ \E k \in Keys : confirmPhoto(s, u, k)
    PROVE  Said'
<1>1. CASE deletePhoto(s, u)
  <2> PICK r : r = [NoProfileRequest EXCEPT !.pc = "clear", !.user = u, !.previous = photoKey[u]]
    OBVIOUS
  <2>1. r.pc = "clear" /\ r.key = NoKey /\ r.hasPhoto = FALSE /\ Begins(s, r)
    BY <1>1 DEF deletePhoto, NoProfileRequest
  <2> QED BY <2>1, AcceptSays
<1>2. ASSUME NEW k \in Keys, confirmPhoto(s, u, k) PROVE Said'
  <2> PICK r : r = [NoProfileRequest EXCEPT !.pc = "head", !.user = u, !.key = k,
                                     !.previous = photoKey[u], !.hasPhoto = TRUE]
    OBVIOUS
  <2>1. r.pc = "head" /\ r.key = k /\ r.hasPhoto = TRUE /\ r.user = u /\ Owner[k] = u /\ Begins(s, r) /\ k # NoKey
    BY <1>2, ProfileAssumption DEF confirmPhoto, NoProfileRequest
  <2> QED BY <2>1, AcceptSays
<1> QED BY <1>1, <1>2

\* Facts about a request in progress.
LEMMA RequestFacts ==
    ASSUME ProfileInv, NEW s \in ProfileSlots, req[s].pc # "idle"
    PROVE  /\ req \in [ProfileSlots -> ProfileRequest] /\ req[s].user \in Users
           /\ req[s].key \in Keys \cup {NoKey} /\ req[s].previous \in Keys \cup {NoKey} /\ pfaults \in Nat
  BY DEF ProfileInv, ProfileTypeOK, ProfileRequest, ProfileRequestsOK, ProfileRequestOK

\* The checks of a confirm: the object of a key that is the photo passes them.
LEMMA ChecksSay ==
    ASSUME ProfileInv, ProfileTypeOK', Said, NEW s \in ProfileSlots, HeadObject(s) \/ ReadFirstBytes(s)
    PROVE  Said'
<1> PICK u, k : u = req[s].user /\ k = req[s].key
  OBVIOUS
<1>0. req[s].pc \in {"head", "bytes"}
  BY DEF HeadObject, ReadFirstBytes
<1>1. /\ req \in [ProfileSlots -> ProfileRequest] /\ u \in Users /\ pfaults \in Nat
      /\ k # NoKey /\ req[s].hasPhoto = TRUE
      /\ u \notin raced => req[s].previous = photoKey[u]
      /\ photoKey[u] = k /\ u \notin raced => object[k] = "image"
  <2>1. req \in [ProfileSlots -> ProfileRequest] /\ u \in Users /\ pfaults \in Nat
    BY <1>0, RequestFacts
  <2>2. k # NoKey /\ (u \notin raced => req[s].previous = photoKey[u])
    BY <1>0 DEF ProfileInv, ProfileRequestsOK, ProfileRequestOK
  <2>3. req[s].hasPhoto = (k # NoKey)
    BY <1>0 DEF Said, RequestKeyOK
  <2>4. req[s].hasPhoto = TRUE
    BY <2>2, <2>3
  <2>5. photoKey[u] = k /\ u \notin raced => object[k] = "image"
    BY <2>1, <2>2 DEF ProfileInv, PhotoIsThere
  <2> QED BY <2>1, <2>2, <2>4, <2>5
<1>2. UNCHANGED <<log, raced, photoKey, unsure, pfaults>>
  BY DEF HeadObject, ReadFirstBytes
<1>3. PICK pc \in {"idle", "discard", "bytes", "publish", "update"} :
        /\ GoOn(s, pc)
        /\ photoKey[u] = k /\ u \notin raced => pc \in {"bytes", "publish"}
        /\ pc = "publish" /\ u \notin raced => photoKey[u] = k
  <2>1. CASE HeadObject(s)
    <3>1. object[k] = "image" => headObject(k) = "image"
      BY DEF headObject
    <3> QED BY <1>1, <2>1, <3>1 DEF HeadObject
  <2>2. CASE ReadFirstBytes(s)
    BY <1>1, <2>2 DEF ReadFirstBytes, AfterBytes, matchesImageSignature
  <2> QED BY <2>1, <2>2
<1>4. /\ \A t \in ProfileSlots \ {s} : req'[t] = req[t]
      /\ pc = "idle" => req'[s] = NoProfileRequest
      /\ pc # "idle" => req'[s].pc = pc /\ req'[s].user = u /\ req'[s].key = k /\ req'[s].hasPhoto = TRUE
  BY <1>1, <1>3, GoOnFields DEF ProfilePcs
<1>5. RequestKeyOK(s)'
  <2>1. CASE pc = "idle"
    BY <1>4, <2>1 DEF RequestKeyOK, NoProfileRequest
  <2>2. CASE pc # "idle"
    <3>1. req'[s].hasPhoto = (req'[s].key # NoKey)
      BY <1>1, <1>4, <2>2
    <3>2. req'[s].pc \in {"deleteOld", "publish"} /\ u \notin raced => photoKey[u] = k
      BY <1>3, <1>4, <2>2
    <3> QED BY <1>2, <1>4, <2>2, <3>1, <3>2 DEF RequestKeyOK
  <2> QED BY <2>1, <2>2
<1>6. u \notin raced /\ req[s].key = photoKey[u] =>
        req'[s].user = u /\ req'[s].key = photoKey[u] /\ req'[s].pc \in {"bytes", "publish"}
  BY <1>3, <1>4
<1> QED BY <1>1, <1>2, <1>4, <1>5, <1>6, SameRowSays

\* The request ends before it has written anything, or goes on after it has tried
\* to delete the old photo.
LEMMA DeletesSay ==
    ASSUME ProfileInv, ProfileTypeOK', Said, NEW s \in ProfileSlots, Discard(s) \/ DeleteOld(s) \/ DeleteFails(s)
    PROVE  Said'
<1> PICK u : u = req[s].user
  OBVIOUS
<1>0. req[s].pc \in {"discard", "deleteOld"}
  BY DEF Discard, DeleteOld, DeleteFails
<1>1. req \in [ProfileSlots -> ProfileRequest] /\ u \in Users /\ pfaults \in Nat
  BY <1>0, RequestFacts
<1>2. UNCHANGED <<log, raced, photoKey, unsure>> /\ pfaults' >= pfaults
  BY <1>1 DEF Discard, DeleteOld, DeleteFails, ProfileFault
<1>3. CASE req[s].pc = "discard"
  <2>1. req'[s] = NoProfileRequest /\ \A t \in ProfileSlots \ {s} : req'[t] = req[t]
    BY <1>1, <1>3 DEF Discard, DeleteOld, DeleteFails, Answer
  <2>2. RequestKeyOK(s)'
    BY <2>1 DEF RequestKeyOK, NoProfileRequest
  <2> QED BY <1>1, <1>2, <1>3, <2>1, <2>2, SameRowSays
<1>4. CASE req[s].pc = "deleteOld"
  <2>1. GoOn(s, "publish")
    BY <1>4 DEF Discard, DeleteOld, DeleteFails
  <2>2. /\ req'[s].pc = "publish" /\ req'[s].user = u /\ req'[s].key = req[s].key
        /\ req'[s].hasPhoto = req[s].hasPhoto /\ \A t \in ProfileSlots \ {s} : req'[t] = req[t]
    BY <1>1, <2>1, GoOnFields DEF ProfilePcs
  <2>3. RequestKeyOK(s)'
    BY <1>2, <1>4, <2>2 DEF Said, RequestKeyOK
  <2> QED BY <1>1, <1>2, <2>2, <2>3, SameRowSays
<1> QED BY <1>0, <1>3, <1>4

\* The row changes, and the request goes on to announce it.
LEMMA RowWriteSays ==
    ASSUME ProfileInv, ProfileTypeOK', Said, NEW s \in ProfileSlots, Update(s) \/ Clear(s)
    PROVE  Said'
<1> PICK u, k : u = req[s].user /\ k = req[s].key
  OBVIOUS
<1>0. req[s].pc \in {"update", "clear"}
  BY DEF Update, Clear
<1>1. req \in [ProfileSlots -> ProfileRequest] /\ u \in Users /\ pfaults \in Nat /\ photoKey \in [Users -> Keys \cup {NoKey}]
  BY <1>0, RequestFacts DEF ProfileInv, ProfileTypeOK
<1>2. /\ UNCHANGED <<log, raced, unsure, pfaults>> /\ photoKey' = [photoKey EXCEPT ![u] = k]
      /\ \E pc \in {"publish", "deleteOld"} : GoOn(s, pc)
  <2>1. CASE Update(s)
    BY <2>1 DEF Update
  <2>2. CASE Clear(s)
    <3>1. k = NoKey
      BY <2>2 DEF Clear, Said, RequestKeyOK
    <3> QED BY <2>2, <3>1 DEF Clear
  <2> QED BY <2>1, <2>2
<1>3. /\ req'[s].pc \in {"publish", "deleteOld"} /\ req'[s].user = u /\ req'[s].key = k
      /\ req'[s].hasPhoto = req[s].hasPhoto /\ \A t \in ProfileSlots \ {s} : req'[t] = req[t]
  BY <1>1, <1>2, GoOnFields DEF ProfilePcs
<1>4. photoKey'[u] = k /\ \A v \in Users : v # u => photoKey'[v] = photoKey[v]
  BY <1>1, <1>2
<1>5. RequestKeyOK(s)'
  BY <1>0, <1>3, <1>4 DEF Said, RequestKeyOK
<1>6. RowAnnounced(u)'
  BY <1>3, <1>4 DEF RowAnnounced, Announcing
<1> QED BY <1>1, <1>2, <1>3, <1>4, <1>5, <1>6, SlotSays

\* A request ends with 500, or all of them: the clients of confirms know that
\* they have to ask again.
LEMMA FailureSays ==
    ASSUME ProfileInv, ProfileTypeOK', Said, ProfileCrash \/ \E s \in ProfileSlots : ProfileRequestFails(s)
    PROVE  Said'
<1>1. PICK slots \in SUBSET ProfileSlots :
        /\ Unsure(slots) /\ \A s \in slots : req'[s] = NoProfileRequest
        /\ \A s \in ProfileSlots \ slots : req'[s] = req[s]
  <2>1. CASE ProfileCrash
    BY <2>1 DEF ProfileCrash
  <2>2. ASSUME NEW s \in ProfileSlots, ProfileRequestFails(s)
        PROVE  /\ Unsure({s}) /\ \A t \in {s} : req'[t] = NoProfileRequest
               /\ \A t \in ProfileSlots \ {s} : req'[t] = req[t]
    BY <2>2 DEF ProfileRequestFails, Answer, ProfileInv, ProfileTypeOK
  <2> QED BY <2>1, <2>2
<1>2. UNCHANGED <<log, raced, photoKey>> /\ pfaults' > 0 /\ unsure \subseteq unsure' /\ PhotoLog' = PhotoLog
  BY <1>1 DEF ProfileCrash, ProfileRequestFails, ProfileFault, Unsure, ProfileInv, ProfileTypeOK, PhotoLog
<1>3. ASSUME NEW s \in ProfileSlots PROVE RequestKeyOK(s)'
  BY <1>1, <1>2 DEF Said, RequestKeyOK, NoProfileRequest
<1>4. ASSUME NEW d \in Drivers PROVE RowAnnounced(d)'
  <2>1. FlagAfter(d, Len(PhotoLog), photoKey[d] # NoKey) => FlagAfter(d, Len(PhotoLog), photoKey[d] # NoKey)'
    BY <1>2 DEF FlagAfter
  <2>2. Announcing(d) => Announcing(d)' \/ photoKey[d] \in unsure' \/ photoKey[d] = NoKey
    <3>1. SUFFICES ASSUME NEW t \in ProfileSlots, req[t].user = d, req[t].key = photoKey[d],
                          req[t].pc \in {"head", "bytes", "deleteOld", "publish"}
                   PROVE  Announcing(d)' \/ photoKey[d] \in unsure' \/ photoKey[d] = NoKey
      BY DEF Announcing
    <3>2. CASE t \in slots
      BY <1>1, <3>1, <3>2 DEF Unsure
    <3>3. CASE t \notin slots
      BY <1>1, <1>2, <3>1, <3>3 DEF Announcing
    <3> QED BY <3>2, <3>3
  <2> QED BY <1>2, <2>1, <2>2 DEF Said, RowAnnounced
<1> QED BY <1>3, <1>4 DEF Said

-----------------------------------------------------------------------------
(* An event goes from one service to the other.                            *)

\* What Publish of a request adds to the topic.
LEMMA PublishFacts ==
    ASSUME ProfileInv, IInv, NEW s \in ProfileSlots, Publish(s)
    PROVE  LET m == PhotoEventOf(req[s]) IN
           /\ req[s].user \in Users /\ m \in PhotoEvent /\ m.hasPhoto = req[s].hasPhoto
           /\ log' = Published(log, "user.photo.updated", m)
           /\ \A d \in Drivers : m.driver = d <=> d = req[s].user
           /\ PhotoLog' = Append(PhotoLog, m) /\ Len(PhotoLog') = Len(PhotoLog) + 1
           /\ \A i \in 1 .. Len(PhotoLog) : PhotoLog'[i] = PhotoLog[i]
           /\ PhotoLog'[Len(PhotoLog) + 1] = m
<1> PICK m : m = PhotoEventOf(req[s])
  OBVIOUS
<1>1. req[s] \in ProfileRequest /\ req[s].user \in Users
  BY RequestFacts DEF Publish
<1>2. m \in PhotoEvent /\ m.hasPhoto = req[s].hasPhoto
  BY <1>1 DEF PhotoEventOf, PhotoEvent, ProfileRequest
<1>3. \A d \in Drivers : m.driver = d <=> d = req[s].user
  BY <1>1, EventsAssumption DEF PhotoEventOf
<1>4. log' = Published(log, "user.photo.updated", m)
  BY DEF Publish
<1>5. PhotoLog' = Append(PhotoLog, m)
  <2>1. LogOK(log) /\ "user.photo.updated" \in Topics
    BY DEF IInv, TypeOK, Topics
  <2> QED BY <1>4, <2>1, PublishedTopics DEF PhotoLog
<1>6. PhotoLog \in Seq(PhotoEvent)
  BY PhotoTypes
<1>7. /\ Len(Append(PhotoLog, m)) = Len(PhotoLog) + 1 /\ Append(PhotoLog, m)[Len(PhotoLog) + 1] = m
      /\ \A i \in 1 .. Len(PhotoLog) : Append(PhotoLog, m)[i] = PhotoLog[i]
  BY <1>2, <1>6, AppendFacts
<1> QED BY <1>1, <1>2, <1>3, <1>4, <1>5, <1>7

\* What the first events have come to stays.
LEMMA FlagKept ==
    ASSUME ProfileInv, IInv, NEW s \in ProfileSlots, Publish(s),
           NEW d, NEW n \in 0 .. Len(PhotoLog), NEW flag, FlagAfter(d, n, flag)
    PROVE  FlagAfter(d, n, flag)'
<1>1. Len(PhotoLog) \in Nat /\ \A i \in 1 .. n : PhotoLog'[i] = PhotoLog[i]
  BY PublishFacts, PhotoTypes
<1>2. \A i \in 1 .. n : \A j \in (i + 1) .. n : j \in 1 .. n
  BY <1>1
<1> QED BY <1>1, <1>2 DEF FlagAfter

LEMMA PublishSays ==
    ASSUME ProfileInv, ProfileTypeOK', IInv, Said, NEW s \in ProfileSlots, Publish(s)
    PROVE  Said'
<1> PICK m, u : m = PhotoEventOf(req[s]) /\ u = req[s].user
  OBVIOUS
<1>1. /\ UNCHANGED <<photoKey, raced, unsure, pfaults>> /\ req'[s] = NoProfileRequest
      /\ \A t \in ProfileSlots \ {s} : req'[t] = req[t]
  BY DEF Publish, Answer, ProfileInv, ProfileTypeOK
<1>2. ASSUME NEW t \in ProfileSlots PROVE RequestKeyOK(t)'
  <2>1. CASE t = s
    BY <1>1, <2>1 DEF RequestKeyOK, NoProfileRequest
  <2>2. CASE t # s
    BY <1>1, <2>2 DEF Said, RequestKeyOK
  <2> QED BY <2>1, <2>2
<1>3. ASSUME NEW d \in Drivers, d \notin raced PROVE RowAnnounced(d)'
  <2> PICK flag, n : flag = (photoKey[d] # NoKey) /\ n = Len(PhotoLog)
    OBVIOUS
  <2>1. /\ n \in Nat /\ n \in 0 .. Len(PhotoLog) /\ Len(PhotoLog') = n + 1 /\ flag \in BOOLEAN
        /\ PhotoLog'[n + 1] = m /\ m \in PhotoEvent /\ m.hasPhoto = req[s].hasPhoto
        /\ m.driver = d <=> d = u
    BY PublishFacts, PhotoTypes
  <2>2. CASE d = u
    <3>1. req[s].pc = "publish" /\ req[s].hasPhoto = (req[s].key # NoKey) /\ photoKey[u] = req[s].key
      BY <1>3, <2>2 DEF Publish, Said, RequestKeyOK
    <3>2. m.hasPhoto = flag /\ m.driver = d
      BY <2>1, <2>2, <3>1
    <3>3. m = [driver |-> d, hasPhoto |-> flag]
      BY <2>1, <3>2 DEF PhotoEvent
    <3>4. n + 1 \in 1 .. (n + 1) /\ \A j \in (n + 1 + 1) .. (n + 1) : FALSE
      BY <2>1
    <3>5. FlagAfter(d, n + 1, flag)'
      BY <2>1, <3>3, <3>4 DEF FlagAfter
    <3> QED BY <1>1, <2>1, <3>5 DEF RowAnnounced
  <2>3. CASE d # u
    <3>1. Announcing(d) => Announcing(d)'
      BY <1>1, <2>3 DEF Announcing
    <3>2. ASSUME FlagAfter(d, n, flag) PROVE FlagAfter(d, n + 1, flag)'
      <4>1. FlagAfter(d, n, flag)'
        BY <2>1, <3>2, FlagKept
      <4>2. PhotoLog'[n + 1].driver # d
        BY <2>1, <2>3
      <4>3. 1 .. (n + 1) = (1 .. n) \cup {n + 1} /\ \A i \in 1 .. n : (i + 1) .. (n + 1) = ((i + 1) .. n) \cup {n + 1}
        BY <2>1
      <4> QED BY <4>1, <4>2, <4>3 DEF FlagAfter
    <3>3. \/ FlagAfter(d, n, flag)
          \/ photoKey[d] \in unsure
          \/ photoKey[d] = NoKey /\ pfaults > 0
          \/ Announcing(d)
      BY <1>3 DEF Said, RowAnnounced
    <3> QED BY <1>1, <2>1, <3>1, <3>2, <3>3 DEF RowAnnounced
  <2> QED BY <2>2, <2>3
<1> QED BY <1>1, <1>2, <1>3 DEF Said, RowAnnounced

\* Driver-service has as much to hear as before, and one event more.
LEMMA PublishHeard ==
    ASSUME ProfileInv, IInv, Heard, NEW s \in ProfileSlots, Publish(s), UNCHANGED <<driverVars, missed>>
    PROVE  Heard'
<1>1. UNCHANGED <<drivers, job, pos>> /\ PhotoPos' = PhotoPos
  BY DEF driverVars, tableVars, PhotoPos
<1>2. /\ Len(PhotoLog) \in Nat /\ PhotoPos \in Nat /\ PhotoPos <= Len(PhotoLog)
      /\ Len(PhotoLog') = Len(PhotoLog) + 1 /\ \A i \in 1 .. Len(PhotoLog) : PhotoLog'[i] = PhotoLog[i]
  BY PublishFacts, PhotoTypes
<1>3. ASSUME NEW d, NEW n \in Nat, FlagFrom(d, n) PROVE FlagFrom(d, n)'
  <2>1. PICK k \in n .. Len(PhotoLog) : FlagAfter(d, k, drivers[d].hasPhoto)
    BY <1>3 DEF FlagFrom
  <2> PICK flag : flag = drivers[d].hasPhoto
    OBVIOUS
  <2>2. k \in 0 .. Len(PhotoLog) /\ k \in n .. Len(PhotoLog')
    BY <1>2
  <2>3. FlagAfter(d, k, flag)'
    BY <2>1, <2>2, FlagKept
  <2> QED BY <1>1, <2>2, <2>3 DEF FlagFrom, FlagAfter
<1>4. ASSUME NEW d \in Drivers PROVE FlagOK(d)'
  <2>1. FlagFrom(d, PhotoPos) => FlagFrom(d, PhotoPos)'
    <3> PICK n : n = PhotoPos
      OBVIOUS
    <3>1. FlagFrom(d, n) => FlagFrom(d, n)'
      BY <1>2, <1>3
    <3> QED BY <1>1, <3>1 DEF FlagFrom
  <2>2. \A i \in 1 .. PhotoPos : PhotoLog'[i] = PhotoLog[i]
    BY <1>2
  <2> QED BY <1>1, <2>1, <2>2 DEF Heard, FlagOK
<1>5. JobFlagOK'
  <2> SUFFICES ASSUME job.topic = "user.photo.updated", job.pc # "idle" PROVE JobFlagOK'
    BY <1>1 DEF JobFlagOK
  <2> PICK n : n = PhotoPos + 1
    OBVIOUS
  <2>1. PhotoPos < Len(PhotoLog)
    BY DEF IInv, HandlersOK, JobOK, HasNext, PhotoLog, PhotoPos
  <2>2. n \in 1 .. Len(PhotoLog) /\ PhotoLog'[n] = PhotoLog[n] /\ n \in Nat /\ n = PhotoPos' + 1
    BY <1>1, <1>2, <2>1
  <2>3. FlagFrom(job.driver, n) => FlagFrom(job.driver, n)'
    <3> PICK d : d = job.driver
      OBVIOUS
    <3>1. FlagFrom(d, n) => FlagFrom(d, n)'
      BY <1>3, <2>2
    <3> QED BY <1>1, <3>1 DEF FlagFrom
  <2> QED BY <1>1, <2>2, <2>3 DEF Heard, JobFlagOK
<1> QED BY <1>4, <1>5 DEF Heard

-----------------------------------------------------------------------------
(* The composition.                                                        *)

ProfileMoves ==
    \/ \E u \in Users : PhotoClient(u)
    \/ \E k \in Keys : ClientUploads(k) \/ RetriesConfirm(k)
    \/ \E s \in ProfileSlots : ProfileStep(s)
    \/ ProfileTrouble

LEMMA FlowMoves == FlowNext <=> ProfileMoves \/ DriverMoves
  BY DEF FlowNext, ProfileMoves, DriverMoves

\* In terms of auth-service alone.
LEMMA ProfileMovesOnly ==
    ASSUME ProfileMoves
    PROVE  UNCHANGED <<driverVars, missed>> /\ ProfileNext
  BY DEF ProfileMoves, PhotoClient, ClientUploads, RetriesConfirm, ProfileStep, ProfileTrouble, ProfileDoes, ProfileNext

\* Its invariant does not depend on what driver-service does ...
LEMMA FlowKeepsProfile ==
    ASSUME ProfileInv, [FlowNext]_flowVars
    PROVE  ProfileInv'
<1>1. [ProfileNext]_<<profileVars, log>>
  <2>1. CASE UNCHANGED flowVars
    BY <2>1 DEF flowVars, profileVars
  <2>2. CASE DriverMoves
    BY <2>2, DriverMovesOnly DEF profileVars
  <2> QED BY <2>1, <2>2, FlowMoves, ProfileMovesOnly
<1> QED BY <1>1, ProfileStepInv

\* All that auth-service does but to publish leaves the topic alone.
LEMMA ProfileLog ==
    ASSUME ProfileNext
    PROVE  log' = log \/ \E s \in ProfileSlots : Publish(s)
<1>1. ASSUME NEW s \in ProfileSlots, Step(s) PROVE log' = log \/ Publish(s)
  BY <1>1 DEF Step, HeadObject, ReadFirstBytes, Discard, Update, Clear, DeleteOld
<1>2. ASSUME Trouble PROVE log' = log
  BY <1>2 DEF Trouble, ProfileCrash, ProfileRequestFails, DeleteFails
<1>3. ASSUME NEW u \in Users, Clients(u) PROVE log' = log
  BY <1>3 DEF Clients, deletePhoto, confirmPhoto, Begins
<1>4. ASSUME NEW k \in Keys, Retry(k) \/ \E content \in Uploads : Upload(k, content) PROVE log' = log
  BY <1>4 DEF Retry, confirmPhoto, Begins, Upload
<1> QED BY <1>1, <1>2, <1>3, <1>4 DEF ProfileNext

\* ... and the invariants of driver-service hold with auth-service for its
\* environment, as they do with the one of DriverService.
LEMMA FlowKeepsDriver ==
    ASSUME ProfileInv, IInv, InSerial, [FlowNext]_flowVars
    PROVE  IInv' /\ InSerial'
<1>1. CASE DriverMoves
  <2>1. CASE \E s \in Slots : Requests(s) \/ HttpStep(s) \/ RequestFails(s)
    BY <2>1, StepInv DEF Next
  <2>2. CASE ConsumerStep \/ HandlerThrows \/ Crash \/ Rejoin
    BY <2>2, StepInv DEF Next
  <2> QED BY <1>1, <2>1, <2>2, DriverMovesOnly
<1>2. ASSUME NEW s \in ProfileSlots, Publish(s), UNCHANGED <<driverVars, missed>> PROVE IInv' /\ InSerial'
  <2> PICK m : m = PhotoEventOf(req[s])
    OBVIOUS
  <2>1. m \in PhotoEvent /\ log' = Published(log, "user.photo.updated", m)
    BY <1>2, PublishFacts
  <2>2. UNCHANGED <<drivers, pool, announced, http, job, pos, committed, faults, rejoins, disturbed>> /\ held' = held
    BY <1>2 DEF driverVars, tableVars
  <2>3. TypeOK'
    <3>1. TypeOK /\ held' \subseteq Drivers /\ "user.photo.updated" \in Topics
      BY <2>2 DEF IInv, TypeOK, Topics
    <3> QED BY <2>1, <2>2, <3>1, RoomForEvent
  <2>4. "user.photo.updated" \in Topics /\ UNCHANGED <<tableVars, http, job, pos, committed, disturbed>>
    BY <2>2 DEF Topics, tableVars
  <2> QED BY <2>1, <2>3, <2>4, ReportKeeps
<1>3. ASSUME log' = log, UNCHANGED driverVars PROVE IInv' /\ InSerial'
  <2>1. UNCHANGED vars
    BY <1>3 DEF driverVars, tableVars, vars
  <2> QED BY <2>1, StepInv
<1>4. CASE ProfileMoves
  BY <1>2, <1>3, <1>4, ProfileMovesOnly, ProfileLog
<1>5. CASE UNCHANGED flowVars
  BY <1>3, <1>5 DEF flowVars
<1> QED BY <1>1, <1>4, <1>5, FlowMoves

LEMMA FlowInitInv == FlowInit => FlowInv
<1> SUFFICES ASSUME FlowInit PROVE FlowInv
  OBVIOUS
<1>1. ProfileInv /\ IInv /\ InSerial
  BY ProfileInitInv, InitInv DEF FlowInit
<1>2. PhotoPos = 0 /\ Len(PhotoLog) = 0 /\ \A d : FlagAfter(d, 0, FALSE)
  BY DEF FlowInit, Init, EmptyLog, Topics, PhotoPos, PhotoLog, FlagAfter
<1>3. Heard
  BY <1>2 DEF FlowInit, Init, NoProfile, NoJob, Heard, FlagOK, JobFlagOK
<1>4. Said
  <2>1. ASSUME NEW d \in Drivers PROVE RowAnnounced(d)
    <3>1. photoKey[d] = NoKey /\ (photoKey[d] # NoKey) = FALSE
      BY DEF FlowInit, ProfileInit, Users
    <3> QED BY <1>2, <3>1 DEF RowAnnounced
  <2>2. ASSUME NEW s \in ProfileSlots PROVE RequestKeyOK(s)
    BY DEF FlowInit, ProfileInit, NoProfileRequest, RequestKeyOK
  <2> QED BY <2>1, <2>2 DEF Said
<1> QED BY <1>1, <1>3, <1>4 DEF FlowInv

\* Every step of the two services and their clients keeps what each of them
\* needs, what driver-service has heard, and what auth-service has said.
THEOREM FlowStepInv ==
    ASSUME FlowInv, [FlowNext]_flowVars
    PROVE  FlowInv'
<1>1. ProfileInv /\ IInv /\ InSerial /\ Heard /\ Said
  BY DEF FlowInv
<1>2. ProfileInv' /\ IInv' /\ InSerial' /\ ProfileTypeOK'
  <2>1. ProfileInv'
    BY <1>1, FlowKeepsProfile
  <2> QED BY <1>1, <2>1, FlowKeepsDriver DEF ProfileInv
<1>3. ASSUME UNCHANGED <<driverVars, missed>>, log' = log PROVE Heard'
  <2>1. UNCHANGED <<drivers, job, pos, log, missed>>
    BY <1>3 DEF driverVars, tableVars
  <2> QED BY <1>1, <2>1 DEF Heard, FlagOK, JobFlagOK, FlagFrom, FlagAfter, PhotoLog, PhotoPos
<1>4. ASSUME UNCHANGED profileVars, log' = log PROVE Said'
  BY <1>1, <1>4 DEF profileVars, Said, RequestKeyOK, RowAnnounced, Announcing, FlagAfter, PhotoLog
<1>5. CASE DriverMoves
  BY <1>1, <1>2, <1>4, <1>5, DriverKeepsHeard, DriverMovesOnly DEF FlowInv
<1>6. CASE ProfileMoves
  <2>1. UNCHANGED <<driverVars, missed>> /\ ProfileNext
    BY <1>6, ProfileMovesOnly
  <2>2. Heard'
    BY <1>1, <1>3, <2>1, ProfileLog, PublishHeard
  <2>3. Said'
    <3>1. ASSUME NEW u \in Users, Clients(u) PROVE Said'
      BY <1>1, <1>2, <3>1, ClientSays DEF Clients
    <3>2. ASSUME NEW k \in Keys, Retry(k) PROVE Said'
      BY <1>1, <1>2, <3>2, ClientSays DEF Retry
    <3>3. ASSUME NEW k \in Keys, NEW content \in Uploads, Upload(k, content) PROVE Said'
      BY <1>1, <3>3 DEF Upload, Said, RequestKeyOK, RowAnnounced, Announcing, FlagAfter, PhotoLog
    <3>4. ASSUME NEW s \in ProfileSlots, Step(s) PROVE Said'
      BY <1>1, <1>2, <3>4, ChecksSay, DeletesSay, RowWriteSays, PublishSays DEF Step
    <3>5. CASE Trouble
      BY <1>1, <1>2, <3>5, DeletesSay, FailureSays DEF Trouble
    <3> QED BY <2>1, <3>1, <3>2, <3>3, <3>4, <3>5 DEF ProfileNext
  <2> QED BY <1>2, <2>2, <2>3 DEF FlowInv
<1>7. CASE UNCHANGED flowVars
  BY <1>2, <1>3, <1>4, <1>7 DEF FlowInv, flowVars
<1> QED BY <1>2, <1>5, <1>6, <1>7, FlowMoves DEF FlowInv

\* The inductive invariant of the composition.
THEOREM FlowInvariance == FlowSpec => []FlowInv
  BY FlowInitInv, FlowStepInv, PTL DEF FlowSpec

\* When all is settled, a driver's flag is what the row of the users table says.
LEMMA FlagIsRow ==
    ASSUME FlowInv, Settled, NEW d \in Orderly
    PROVE  /\ photoKey[d] # NoKey /\ photoKey[d] \notin unsure => drivers[d].hasPhoto
           /\ drivers[d].hasPhoto /\ pfaults = 0 => photoKey[d] # NoKey
<1> PICK n : n = Len(PhotoLog)
  OBVIOUS
<1>1. d \in Drivers /\ drivers[d].exists /\ d \notin raced /\ d \notin missed /\ d \in Users
  BY DEF Orderly, Users
<1>2. n \in Nat /\ PhotoPos = n /\ drivers[d].hasPhoto \in BOOLEAN
  BY <1>1, PhotoTypes DEF FlowInv, Settled, Drained, DriverTopics, PhotoPos, PhotoLog, IInv, TypeOK, Driver
<1>3. FlagAfter(d, n, drivers[d].hasPhoto)
  <2>1. PICK m \in n .. n : FlagAfter(d, m, drivers[d].hasPhoto)
    BY <1>1, <1>2 DEF FlowInv, Heard, FlagOK, FlagFrom
  <2>2. m = n
    BY <1>2
  <2> QED BY <2>1, <2>2
<1>4. ~Announcing(d)
  BY DEF Settled, Announcing
<1>5. \/ FlagAfter(d, n, photoKey[d] # NoKey)
      \/ photoKey[d] \in unsure
      \/ photoKey[d] = NoKey /\ pfaults > 0
  BY <1>1, <1>4 DEF FlowInv, Said, RowAnnounced
<1>6. FlagAfter(d, n, photoKey[d] # NoKey) => drivers[d].hasPhoto = (photoKey[d] # NoKey)
  BY <1>2, <1>3, FlagUnique
<1>7. photoKey[d] \in unsure => photoKey[d] # NoKey
  BY ProfileAssumption DEF FlowInv, ProfileInv, ProfileTypeOK
<1>8. pfaults = 0 => ~(pfaults > 0)
  OBVIOUS
<1> QED BY <1>5, <1>6, <1>7, <1>8

\* FlagFollowsPhoto: whatever fails, in whatever order the services work, and
\* though events come again after a crash, driver-service ends with the flag of
\* the photo that auth-service has, once clients have repeated failed confirms,
\* for every driver none of whose events its group has jumped over.
THEOREM FlagFollows == FlowSpec => []FlagFollowsPhoto
<1>1. FlowInv => FlagFollowsPhoto
  BY FlagIsRow DEF FlagFollowsPhoto
<1> QED BY <1>1, FlowInvariance, PTL

\* RemovedPhotoEndsShift: the flag is the row's, nobody without the flag is
\* online after handlers that ran one by one, and nobody who is not online is in
\* the pool.  A driver one of whose events was jumped over is exempt.
THEOREM ShiftEnds == FlowSpec => []RemovedPhotoEndsShift
<1>1. ASSUME FlowInv, Settled, ~disturbed, pfaults = 0, NEW d \in Orderly, photoKey[d] = NoKey
      PROVE  drivers[d].status # "available" /\ pool[d] = NoPlace
  <2>1. ~drivers[d].hasPhoto
    BY <1>1, FlagIsRow
  <2>2. InStep(d)
    BY <1>1, SerialMeansInStep DEF FlowInv, Settled, Serial, Orderly
  <2> QED BY <2>1, <2>2 DEF InStep, PhotoOK, PoolAt
<1>2. FlowInv => RemovedPhotoEndsShift
  BY <1>1 DEF RemovedPhotoEndsShift
<1> QED BY <1>2, FlowInvariance, PTL
=============================================================================
