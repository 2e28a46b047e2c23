----------------------------- MODULE PhotoFlow -----------------------------
(***************************************************************************)
(* auth-service's profiles and driver-service together: a driver may work  *)
(* only with a photo, but the photo is kept by one service and the rule    *)
(* enforced by another, which hears of photos through user.photo.updated.  *)
(*                                                                         *)
(* It extends both modules: ProfileService takes the place of the photo    *)
(* events of driver-service's environment.  No rides: nothing claims a     *)
(* driver (held stays empty), and positions do not change.                 *)
(***************************************************************************)
EXTENDS ProfileService, DriverService

\* Drivers whose photo event came before they had a profile, or was jumped over by
\* driver-service's group: history.
VARIABLE missed

driverVars == <<tableVars, http, job, pos, committed, faults, rejoins, disturbed>>
flowVars == <<log, profileVars, driverVars, missed>>

FlowInit == ProfileInit /\ Init /\ missed = {}

-----------------------------------------------------------------------------
ProfileDoes(A) == A /\ UNCHANGED <<driverVars, missed>>
DriverDoes(A) == A /\ UNCHANGED profileVars

PhotoClient(u) == ProfileDoes(Clients(u))
ClientUploads(k) == ProfileDoes(\E content \in Uploads : Upload(k, content))
RetriesConfirm(k) == ProfileDoes(Retry(k))
ProfileStep(s) == ProfileDoes(Step(s))
TroubleAllowed == pfaults + faults + rejoins < MaxTrouble

ProfileTrouble == TroubleAllowed /\ ProfileDoes(Trouble)

\* A driver signs up, goes online and offline.
DriverClient(s, d) ==
    /\ DriverDoes(\/ \E loc \in Places : createDriver(s, d, loc)
                  \/ \E status \in DriverStatus : updateStatus(s, d, status))
    /\ UNCHANGED missed

DriverRequestStep(s) == DriverDoes(HttpStep(s)) /\ UNCHANGED missed

\* The driver whose photo event comes next, if there is one without a profile.
Strangers ==
    IF HasNext(log["user.photo.updated"], pos["user.photo.updated"])
    THEN {d \in Drivers : ~drivers[d].exists
             /\ NextMessage(log["user.photo.updated"], pos["user.photo.updated"]).driver = d}
    ELSE {}

\* handleUserPhotoUpdated returns when it finds no profile, and the event is gone.
DriverConsumes ==
    /\ DriverDoes(ConsumerStep)
    /\ missed' = IF pos' # pos THEN missed \cup Strangers ELSE missed

\* The drivers whose photo events the group has ever jumped over.
Overlooked ==
    {log["user.photo.updated"][i].driver : i \in committed["user.photo.updated"].skipped} \ {NoDriver}

DriverTrouble ==
    /\ TroubleAllowed
    /\ DriverDoes(HandlerThrows \/ Crash \/ Rejoin \/ \E s \in Slots : RequestFails(s))
    /\ missed' = missed \cup Overlooked'

FlowNext ==
    \/ \E u \in Users : PhotoClient(u)
    \/ \E k \in Keys : ClientUploads(k) \/ RetriesConfirm(k)
    \/ \E s \in ProfileSlots : ProfileStep(s)
    \/ ProfileTrouble
    \/ \E s \in Slots : DriverRequestStep(s) \/ \E d \in Drivers : DriverClient(s, d)
    \/ DriverConsumes
    \/ DriverTrouble

FlowSpec == FlowInit /\ [][FlowNext]_flowVars

\* Requests go on, the consumer polls, and a client repeats a confirm that
\* ended with 500 (strong fairness: other requests may take the slot each time,
\* but not for ever).  What else clients do, and faults, are free.
Fairness ==
    /\ \A s \in ProfileSlots : WF_flowVars(ProfileStep(s))
    /\ \A s \in Slots : WF_flowVars(DriverRequestStep(s))
    /\ \A k \in Keys : SF_flowVars(RetriesConfirm(k))
    /\ WF_flowVars(DriverConsumes)

FairFlow == FlowSpec /\ Fairness

-----------------------------------------------------------------------------
Settled ==
    /\ \A s \in ProfileSlots : req[s].pc = "idle"
    /\ Quiet
    /\ Drained(log, pos, DriverTopics)

\* Drivers whose requests came one by one, the first photo after the profile, as
\* the load test's do, and whose photo events driver-service has all received.
Orderly == {d \in Drivers : drivers[d].exists} \ (raced \cup missed)

\* With everything handled, driver-service's flag says what auth-service's
\* table says.  Failures of auth-service may cost the event of a removed
\* photo, but not that of a confirmed one, once its client has repeated the
\* confirm; failures of driver-service cost nothing, once its group has an offset.
FlagFollowsPhoto ==
    Settled => \A d \in Orderly :
        /\ photoKey[d] # NoKey /\ photoKey[d] \notin unsure => drivers[d].hasPhoto
        /\ drivers[d].hasPhoto /\ pfaults = 0 => photoKey[d] # NoKey

\* "Removing the photo while a driver is online takes them offline and out of
\* the pool": true where nothing fails and driver-service's handlers do not
\* overlap.
RemovedPhotoEndsShift ==
    (Settled /\ ~disturbed /\ pfaults = 0) =>
        \A d \in Orderly : photoKey[d] = NoKey => drivers[d].status # "available" /\ pool[d] = NoPlace

\* The photo of a driver with a profile lets them work in the end, unless it is
\* replaced or removed before: failing calls and crashes of either service are
\* made good by the consumer's retry and the client's, but for an event that a
\* group without an offset jumps over.
ConfirmedPhotoArrives ==
    \A d \in Drivers, k \in Keys :
        photoKey[d] = k ~> (drivers[d].hasPhoto \/ photoKey[d] # k \/ d \in raced \cup missed)
=============================================================================
