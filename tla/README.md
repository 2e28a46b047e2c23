# TLA+ models of fake-drivers

This directory specifies the ride-hailing backend in `src/`: what its services
keep, what each of their handlers does step by step, and what is true of the
whole however requests, Kafka events, failures and restarts interleave. TLC
checks the models on small instances; TLAPS proves, for instances of every size,
the safety properties of each service by itself, those of the photo rule across
two services and of a ride across three, and that the receipt service implements
what it promises.

Contents: [the system](#the-system), [hard behaviours](#hard-behaviours),
[the modules](#the-modules), [how code becomes actions](#how-code-becomes-actions),
[the runs](#the-runs), [disagreements](#disagreements-with-the-documentation),
[proofs](#proofs), [what is left out](#what-is-left-out), [the plan](#plan).

## The system

Nine NestJS services, one process each (`docker-compose.yml`), one Kafka broker
that creates topics on first use with one partition, one Redis, one PostgreSQL
database per service. The services call each other hardly at all: they publish
events and react to them.

| Component | State | Operations | Talks to | What makes it correct |
|---|---|---|---|---|
| driver-service | table `drivers` (status, photo flag, position); GEO set `drivers:available` | `createDriver`, `updateStatus`, `updateLocation`; handlers of `user.photo.updated`, `driver.assigned`, `ride.completed`, `ride.status.updated` | consumes from auth, matching, ride; publishes `driver.status.updated`; shares the GEO set with matching | only available drivers are in the pool; nobody drives without a photo; busy belongs to the system |
| matching-service | none of its own: the GEO set, Kafka offsets | handlers of `ride.requested`, `driver.declined`; the Lua claim | consumes from ride; publishes `driver.assigned` | one claim per driver in the pool; no request is dropped |
| ride-service | table `rides` (status, driver, fare) | `requestRide`, `updateStatus`; handler of `driver.assigned` | publishes `ride.requested`, `ride.status.updated`, `ride.completed` | saved rides are announced; every assignment reaches the row and the rider; the fare on the receipt is the ride's |
| email-service | table `sent_emails`, unique on (ride, type) | handler of `ride.completed`: look up, insert, mail, mark | calls auth-service and SES | every completed ride is receipted; a second mail costs a failure; "sent" means sent |
| auth-service, profile | `users.photo_key`, objects in S3 | upload URL, confirm, delete | publishes `user.photo.updated` | the key names an object that exists; driver-service's flag follows the photo |
| auth-service, accounts | table `users` | register, login, internal lookup | called by gateway, seed and email | one account per e-mail; a token tells whose it is |
| notification-service | socket rooms shared through Redis, a gauge of connections | connect, disconnect; handlers of five topics | consumes from matching, ride and payment | who is connected gets the push, in order; nothing blocks a topic |
| gateway | none | token check, forwarding | calls auth, driver, email | identity comes from the token |
| rider-service | table `riders` | create, get | called by seed and apps | one profile per user |
| payment-service | none (a scaffold) | health, metrics | nobody | - |
| k6 load test | the script's progress | a driver's and a rider's whole session | HTTP and sockets | it waits for each effect before it goes on |
| seed | the number of the account each of its two loops is at | register, create the profile | calls auth, driver, rider | every account gets its profile |

## Hard behaviours

`PROJECT.json` lists each hazard at its line. They are of seven kinds.

- **Read, await, write.** Every handler reads a row once, then writes the table,
  writes Redis and publishes, with an `await` before each. Another request or
  event may run in between, and what was read is stale.
- **Two stores and a topic, no transaction.** A failure after the first write
  leaves the others behind. The retry starts from the changed row, so an early
  return that was meant for duplicates can skip the rest.
- **At least once, after the first commit.** Offsets are committed in the
  background. A crash, a restart or a rebalance delivers handled events again,
  perhaps while the old owner of the partition is in the middle of one. A group
  that has not committed anything yet starts at the end of its topics instead
  (`fromBeginning: false`, in all five consumers): what it had not handled is lost.
- **No order between topics.** `driver.assigned` and `ride.completed` of one
  ride reach driver-service in either order.
- **Different rules for errors.** driver-, ride- and email-service rethrow, so
  Kafka retries; matching- and notification-service catch everything, so Kafka
  does not.
- **Answers that never come.** A caller gives up and the handler goes on. What a
  retry is told (409, 500 or success) decides whether the caller ever knows.
- **One fact, two services.** The photo is kept by auth-service and the rule
  enforced by driver-service; the account is kept by auth-service and the
  profile stores whatever user id it is told.

## The modules

| Module | Models | Used by |
|---|---|---|
| `Kafka` | a topic as a log; what is known of a group's commits; where a group that joins anew may stand (external) | all but `Accounts` |
| `Events` | the topics and payloads of the ride and photo side | `Broker` and the services below |
| `Broker` | the logs of these topics, which `ProfileService` and `DriverService` share | `PhotoFlow` |
| `EmailService` | email-service: several instances, one chain of awaits each | `EmailProofs` |
| `Receipts` | what email-service promises, without rows, workers and calls | `EmailService` |
| `DriverService` | driver-service: table, pool, HTTP requests and the consumer | `RideFlow`, `PhotoFlow`, `MCDriver` |
| `MatchingService` | matching-service: several instances, claim and publish | `RideFlow`, `MCMatching` |
| `RideService` | ride-service: table, HTTP requests and the consumer | `RideFlow`, `MCRide` |
| `RideFlow` | the last three over one log and one pool, with the clients | `RideProofs`, `MCFlow` |
| `ProfileService` | auth-service's photos: table, bucket, events, several requests at once | `PhotoFlow`, `MCProfile` |
| `PhotoFlow` | `DriverService` with `ProfileService` in the place of its photo events, and the clients of both | `PhotoProofs`, `MCPhoto` |
| `Accounts` | auth-service's accounts, the profiles of driver- and rider-service, the identity the gateway forwards; apps and the seed as callers | `MCAccounts` |
| `NotificationService` | notification-service: instances, sockets and rooms, Redis between them, the consumer | `MCNotification` |
| `EmailProofs` | proofs about `EmailService`, and that it implements `Receipts` | - |
| `DriverProofs`, `MatchingProofs`, `AccountsProofs`, `NotificationProofs` | proofs about the module each is named after | `DriverProofs` by `PhotoProofs` |
| `RideProofs` | proofs about `RideService` and about `RideFlow` | - |
| `PhotoProofs` | proofs about `ProfileService` and about `PhotoFlow` | - |
| `EventsProofs` | lemmas about the topics: what publishing and resuming do to a log and its offsets | the proofs of the ride side |
| `MC*` | symmetry, the constants that are functions, and a view that forgets commits nobody will go back to (`MCDriver`) | the `.cfg` files |

`RideFlow` extends `RideService` and instantiates the other two (`D`, `M`), so its
steps are their steps. What the modules assume of their environment is replaced
by the service that was assumed, and `DriverSteps` and `RideSteps` say that the
replacement is allowed: every step of the composition, seen through the
variables of one module, is a step of that module. `DriverService!Next` and
`RideService!Next` are thus the abstract specifications of their surroundings,
and `RideFlow` implements them. It starts with every driver online; the photo
events that led there are handled and left out, so `DriverSteps` is about steps
and not about the start.

`PhotoFlow` extends `DriverService` and `ProfileService`, which share `log`: what
driver-service assumes of photo events is replaced by the service that publishes
them. It extends the two, rather than instantiates them, so that its proofs can
cite what is proved about each; this is why names in `ProfileService` say whose
they are (`ProfileInit`, `ProfileSlots`). `Receipts` is the
abstract specification of email-service; `EmailService` implements it under a
refinement mapping that forgets rows and workers (`ImplementsReceipts`).

## How code becomes actions

A handler is a chain of steps, one per `await`; the local variables of a chain
in progress are a record (`job[w]`, `http[s]`, `match[w]`, `req[s]`, `assign`)
whose `pc` names the next await. A step is one call, with the computation up to
the next one. The lookup a handler starts with is one step with the arrival of
the message or request: nothing is decided before it.

| Code | Actions |
|---|---|
| `email.service.ts` `sendRideReceipt` | `SkipSettled`, `StartReceipt`, `GetUser`, `CreateRow`, `MarkNotFound`, `Send`, `MarkSent`, `MarkFailed` (the catch block) |
| email `kafka.consumer.ts` | `SkipJunk`, `Returns`, `Throws` |
| `drivers.service.ts` `createDriver` | `createDriver` (the check), `Insert` (the unique index) |
| ... `updateStatus` | `updateStatus` (read and checks), `StatusWrite`, `StatusRedis`, `StatusPublish` |
| ... `updateLocation` | `updateLocation`, `LocRedis` if the driver was read as available, `LocWrite` |
| ... event handlers | `Consume` (read, early returns), `PhotoWrite`, then `setStatusFromSystem`: `SystemWrite`, `SystemRedis`, `SystemPublish` |
| `matching.service.ts` | `Receive`, `Claim` (the Lua script) or `NobodyInRange`, `PublishAssigned`; `CallFails` is its catch |
| `ride.service.ts` `requestRide` | `requestRide`, `PublishRequested` |
| ... `updateStatus` | `updateStatus` (read), `WriteStatus`, `PublishStatus` |
| ... `handleDriverAssigned` | `AssignDriver`, `AnnounceMatch` |
| `profile.service.ts` `createUploadUrl` and the PUT | `Upload` |
| ... `confirmPhoto` | `confirmPhoto` (read, checks), `HeadObject`, `ReadFirstBytes`, `Discard` (a refused file), `Update`, `DeleteOld`, `Publish` |
| ... `deletePhoto` | `deletePhoto`, `Clear`, `DeleteOld`, `Publish` |
| `users.service.ts` `register` | `register` (the check), `Insert` (the unique index), `Sign` |
| `auth.service.ts` `login` | `login`, `Compare`, `Sign` |
| `drivers.service.ts` and `rider.service.ts`, create | `createProfile`, `InsertProfile` |
| gateway, token check and `forwardError` | `VerifiedId`, `TokenExpires`; `Refused`, `AnswerLost` |
| `notification.gateway.ts` | `handleConnection`, `handleDisconnect` |
| `notification.service.ts` and its `kafka.consumer.ts` | `Handle` (to own sockets, and to Redis), `SkipBad` |
| `redis-io.adapter.ts` | `BusDelivers`; `BusLoses` |

Conventions that hold in every module:

- A request that is refused (4xx) before it changes anything is the absence of a
  step. In `Accounts`, where the caller goes on from the answer, it is a step.
- A failing call is a fault: an HTTP request ends (`RequestFails`), a handler
  that rethrows leaves its event in place (`HandlerThrows`, `CallFails`,
  `Throws`). A call that takes effect and loses its answer is the failure of the
  step after it; where that differs (SES, the claim) it is a disjunct of its own.
- `Crash` loses the local variables and resumes at any offset between the last
  known commit and the position, because a commit in the background is visible
  only to a consumer that starts again. The commit is therefore chosen at that
  moment. `Rebalance` gives a topic to another instance while the old owner goes
  on; the old owner's return no longer moves the offset. `Rejoin` is a restart
  between two events, without a failure.
- All consumers subscribe with `fromBeginning: false` (driver `kafka.consumer.ts:29`,
  matching, ride, email and notification `kafka.consumer.ts:33`), and every
  restart goes through it. A group without a committed offset stands at the end
  of the topic each time it joins, until its first commit. `Kafka` keeps what is
  known of a group in a topic as a record: `from`, the lowest offset it may have
  committed; `sure`, whether it has surely committed one; and `skipped`, the
  messages it has jumped over, which is history. `Rejoined` gives the ways in
  which it may stand after it has joined: at a commit between `from` and its
  position, or, if it is not known to have one, at the end. `Init` says nothing
  of earlier commits, so both a new and an old group are explored.
  (`EmailService`, with one topic, keeps the same in `committed`,
  `everCommitted` and `skipped`.) A property about events that were handled
  speaks of `Handled`, the positions moved past and not jumped over; one about
  their effects exempts those whose events were jumped over by name (`Claimed` in
  `DriverService`, `Forgotten` in `RideService`, `Overlooked` in `RideFlow` and
  `PhotoFlow`) and so says that nobody else is affected.
- notification-service's handlers have no `await` before their last emit; one of
  them is one step. What it sends through Redis arrives in a later one. A push
  names the part its recipient has in the ride (`as`), since one person may have
  both.
- History variables record what happened and guard nothing but the bounds: `disturbed`
  (handlers of driver-service have overlapped, a call failed or a claim was
  lost; a rejoin is none of these), `raced` (two requests of one user at the same time), `retired` (keys
  that were a photo), `missed` (drivers whose photo event came before their
  profile, or was jumped over), `failures`, `crashes`, `expiries`, `moves`, `drops`, `lost`.
  A property that exempts such a state says in which cases the code keeps it
  and, by that, which cases break it. `unsure` is state of the clients: the
  confirms that ended with 500 and that they may repeat.
- A key in S3 is uploaded once. The pre-signed URL would also allow a second PUT
  under the same key; no client of the repository does that.
- Photo events of riders, which driver-service ignores whatever they say, come with
  a photo only.
- Names, coordinates, timestamps, HTML, metrics and log lines are left out. A
  position is a model value, and matching sees only its distance.
- `attempts` of `sent_emails` is a count nobody branches on.
- Operators marked "Faulty" in a comment are bugs somebody could plausibly write
  at that place. Each property is known to fail when one of them takes the place
  of the definition that follows it.

The bounds are constants that guard the inputs and the faults, never a step of
the services: `MaxEvents`, `MaxWork` (events in all topics and requests in
progress together), `MaxFaults`, `MaxTrouble` (faults of all kinds or of all
services together), `MaxJoins` (how often a driver enters the pool), `SeedSize`.
The services of `RideFlow` run without `MaxEvents`; in its runs it is 100, which
`DriverSteps` and `RideSteps` never meet, since the rides run out first. Since
the inputs run out, every model ends in states without successors: deadlock is not checked,
and progress is stated as liveness instead.

## The runs

| Run | Question | Instance | Shows |
|---|---|---|---|
| `email_receipts` | Is every completed ride receipted, and mailed once? | 2 rides (one with an unknown rider), 1 malformed message, 2 instances, 3 events, 2 faults | `NoReceiptLost`, `SentMeansMailed`, `ExtraMailsCostFaults`; `EveryRideReceipted` under fairness; the refinement `ImplementsReceipts` |
| `driver_handlers` | What holds of handlers that interleave, fail and repeat, and what as long as they run one by one? | 1 driver, 2 requests at once, events and requests up to 4, 1 fault or rejoin, claims may be lost | `NoPhotoNoWork`, `BusyWasAssigned` always; `PoolMatchesStatus`, `OnlineHasPhoto`, `AnnouncedIsStatus` until handlers overlap or fail, also through a rejoin that repeats events or jumps over them |
| `matching_claims` | Can a driver be claimed twice, or a request vanish? | 2 rides, 2 drivers, 3 places, 2 instances, 3 events, 3 faults | `NoDoubleClaim`, `ExtraDriversCostFaults`, `RequestsAccountedFor` |
| `ride_requests` | Do row, announcements and assignments stay together? | 2 rides, 2 drivers, 2 requests at once, 3 events, no fares, 1 fault | `AssignedExists`, `MatchAnnounced`, `UnannouncedCostFaults`, `DriverIsLastAssigned` |
| `flow_patient` | Is the life of a ride right for clients that wait, as the load test does? | 2 rides, 2 drivers, no faults | `BusyHasOpenRide`, `OneOpenRidePerDriver`, `EndOfRideFreesDriver` |
| `flow_trouble` | Does the composition keep to the modules' assumptions, and is each request answered? | 1 ride, 1 driver, pings, a fault in any service | `DriverSteps`, `RideSteps`, `AnnouncedRideIsAnswered` |
| `photo_confirms` | Does a row ever name what is not there, and what stays in the bucket? | a driver with 2 keys, a rider with 1, 2 requests at once, files that are no images or too large, 3 requests that lead to an event, 1 fault | `PhotoIsThere`, `OrphansCostFaults` |
| `photo_flow` | Does the flag by which drivers may work follow the photo? | 1 driver, 2 keys, 1 request at a time in each service, 3 photo events, 1 fault in either | `FlagFollowsPhoto`, `RemovedPhotoEndsShift`, `ConfirmedPhotoArrives` |
| `accounts` | Does everybody get one account and their own profile? | 2 apps of one person (a form sent twice), 1 seeded driver and 1 seeded rider, 1 lost answer, failure, crash or expired token | `TokensTellTheTruth`, `ProfilesBelongToAccounts`, `HalfSeededCostFailures`, `EverybodyGetsIn` |
| `notifications` | Does who is connected hear of it, once and in order? | 2 instances, 2 clients (one without an id), 2 topics, 2 events (matched, without recipients, malformed), 1 crash, rebalance or loss in Redis | `GaugeCountsSockets`, `NoPushLost`, `PushesInOrder`, `CopiesCostMoves`, `EventsNeverBlock` |
| `flow_hasty`, `flow_ping` | Does the code do what the documentation says? | the smallest that shows it | counterexamples, see below |

The runs of email-, driver- and matching-service also check `TypeOK`, which has
the order of the offsets in it. In the other modules `TypeOK` states the types
for the reader and the proofs (it is a conjunct of each inductive invariant); no
run checks it by itself.

Why these bounds are enough to be of interest: two instances and one rebalance
are what it takes for two workers to handle one message, or for a push to cross
Redis; two requests at once are what it takes for a stale read to overwrite a
fresh one; a second ride is what it takes for one crash to leave two
unannounced; a second key is what it takes to replace a photo; three photo
events are a photo confirmed, removed and confirmed again; two faults are one to
leave something half done and one to interrupt the repair; one is enough to go
back to a commit, or for a new group to jump over what it had not handled.
Together the passing runs fire every action of every module, the faults
included.

Three properties of `driver_handlers` are claims about histories in which handlers
ran one by one (`Serial`). They are what the handlers were written to achieve;
with overlapping handlers they do not hold, which the next section comes back to.
One run explores both kinds of histories. With four events the serial ones have
those that matter: a photo that goes during a ride, whose end must then take the
driver offline, and a restart on either side of it.

Fairness is weak fairness of the steps of consumers, of requests in progress, of
the seed and of Redis. kafkajs polls as long as the process lives, and every
call returns, fails or times out. It is assumed of every worker, since a
rebalance may make any of them the owner. Strong fairness is assumed of two
kinds of clients, where other things that happen to them may come in between
but not for ever: one whose confirm ended with 500 repeats it in the end, as
the comment at `profile.service.ts:88` expects, and an app that is not in tries
again with its right password. What else clients do is free, and so are faults;
faults are finite, which is what "in the end" needs.

## Disagreements with the documentation

Two runs are expected to fail, each with one property that quotes the repository.

- `flow_hasty`: a client cancels while the assignment is under way. The driver
  becomes busy for a ride that is over and nothing frees them
  (`ride.service.ts:115`, `drivers.service.ts:256`).
- `flow_ping`: a location ping between the claim and `driver.assigned` puts the
  claimed driver back into the pool, and the next ride gets the same driver
  (`drivers.service.ts:175`).

Others were met on the way and have no run, because a passing property already
bounds them or another run has the same cause:

- A photo is removed while its owner is online, the status is written and Redis
  fails. The event is retried, but the driver is now read as offline, so the
  pool is never cleaned (`drivers.service.ts:227`). `PoolMatchesStatus` and
  `RemovedPhotoEndsShift` are therefore claims about histories without it.
- The comment in matching-service's consumer promises a retry ("a ride request must
  not be dropped on a Redis hiccup", `kafka.consumer.ts:51`), but the handler
  catches the error before the consumer sees it (`matching.service.ts:80`), and
  the request is neither assigned nor counted as unmatched.
  `RequestsAccountedFor` is what is true: it was at least logged.
- The comment in ride-service's consumer promises that "an assignment must not be
  lost" (`kafka.consumer.ts:51`), but a group that has no offset yet and restarts
  begins at the end of the topic (`kafka.consumer.ts:33`), and a replay or retry
  never brings back what it passed. `MatchAnnounced` is what is true: nothing else
  is lost. The other services lose events in the same way; the properties that
  name the loss are `PoolMatchesStatus`, `RequestsAccountedFor`, `NoReceiptLost`,
  `NoPushLost`, `FlagFollowsPhoto`, `ConfirmedPhotoArrives` and
  `AnnouncedRideIsAnswered`.
- A fare of 0 is published in `ride.completed` but not stored (`ride.service.ts:104`).
- "A failure leaves an orphan object, never a user pointing at nothing"
  (`profile.service.ts:109`) is true of failures. Without one, a confirm of the
  key that a delete is about to remove from S3 can still write it into the
  row (`PhotoIsThere` exempts users whose requests overlapped).
- `deletePhoto` that fails after its first write cannot be repeated: the second
  delete is a 404. driver-service keeps the flag of a driver without a photo
  (`FlagFollowsPhoto` exempts failures of auth-service for removed photos).
- A photo that is confirmed before the driver's profile exists is forgotten
  (`drivers.service.ts:215`); the driver has to confirm it once more.
- A seeded account whose profile failed stays without one: the next run of the
  seed gets 409 and goes on (`HalfSeededCostFailures` counts them).
- rider-service answers 500 to a profile that exists, so a client that lost its
  first answer cannot know that it is done (`rider.service.ts:43`).
- "Never twice" (`README.md:208`): the index stops redeliveries, but when SES
  accepts a mail and the update fails, the retry mails again
  (`email.service.ts:87`). `ExtraMailsCostFaults` is what is true.
- `handleDriverDeclined` says it excludes the driver who declined and drops the
  id (`matching.service.ts:103`). Nothing publishes `driver.declined` yet.
- `driver.assigned` delivered again after the ride has ended makes the driver
  busy (`drivers.service.ts:245`): the outcome of `flow_hasty` by another way.
- `updateStatus` may overwrite what an event wrote after it read the row
  (`drivers.service.ts:136`), which puts a driver without a photo online. This
  is why `OnlineHasPhoto` is a claim about handlers that do not overlap.
- Events of ride-service have no key although `README.md:136` says all have.
  With one partition it makes no difference.

## Proofs

The theorems hold for any sets of rides, drivers, users, instances and slots and
any bounds. The assumptions are the ones the modules name (`EmailAssumption`,
`MatchingAssumption`, ...): the values that stand for "none" are not members of
the sets they stand beside, bounds are numbers, and instances and requests of a
service are finitely many where a property counts them.

| Module | Theorem | States |
|---|---|---|
| `EmailProofs` | `TypeCorrect`, `ReceiptsKept`, `SentIsMailed` | `TypeOK`, `NoReceiptLost`, `SentMeansMailed` |
| | `ExtraMailsPaid` | `ExtraMailsCostFaults` |
| | `StepMaps`, `Refinement` | `ImplementsReceipts`: initial states map to initial states of `Receipts`, and steps to steps or stutters |
| `DriverProofs` | `TypeCorrect`, `PhotoFirst`, `BusyAssigned` | `TypeOK`, `NoPhotoNoWork`, `BusyWasAssigned` |
| | `PoolInStep`, `OnlineOnlyWithPhoto`, `AnnouncedInStep` | `PoolMatchesStatus`, `OnlineHasPhoto`, `AnnouncedIsStatus` |
| `MatchingProofs` | `TypeCorrect`, `RequestsAnswered` | `TypeOK`, `RequestsAccountedFor` |
| | `NobodyClaimedTwice`, `ExtraDriversPaid` | `NoDoubleClaim`, `ExtraDriversCostFaults` |
| `RideProofs` | `AssignedRidesExist`, `MatchesAnnounced`, `LastDriverStays` | `AssignedExists`, `MatchAnnounced`, `DriverIsLastAssigned` |
| | `UnannouncedPaid` | `UnannouncedCostFaults` |
| | `BusyHaveRides`, `OneRideEach` | `BusyHasOpenRide`, `OneOpenRidePerDriver` of `RideFlow`, for clients that wait, without pings and faults |
| | `FlowKeepsAssignments` | `AssignedExists`, `MatchAnnounced`, `DriverIsLastAssigned` in `RideFlow`, whatever clients do and whatever fails |
| | `FlowIsRideService`, `FlowIsDriverService` | `RideSteps`, `DriverSteps`, while the bound on events is not met |
| `PhotoProofs` | `PhotosExist`, `OrphansExplained` | `PhotoIsThere`, `OrphansCostFaults` of `ProfileService` |
| | `FlagFollows`, `ShiftEnds` | `FlagFollowsPhoto`, `RemovedPhotoEndsShift` of `PhotoFlow` |
| `AccountsProofs` | `TokensTruthful`, `ProfilesOwned` | `TokensTellTheTruth`, `ProfilesBelongToAccounts` |
| | `HalfSeededPaid` | `HalfSeededCostFailures` |
| `NotificationProofs` | `TypeCorrect`, `GaugeCorrect`, `NoPushIsLost` | `TypeOK`, `GaugeCountsSockets`, `NoPushLost` |
| | `PushesComeInOrder`, `CopiesArePaid` | `PushesInOrder`, `CopiesCostMoves` |

All are of the form `Spec => []P` (`ProfileSpec`, `FlowSpec` where two or three
services are composed), but for `StepMaps` (one step), the refinements
`Refinement`, `FlowIsRideService` and `FlowIsDriverService`, and the hypotheses
named in the table. Each module proves `StepInv` (`NextInv` in
`NotificationProofs`; `ProfileStepInv`, `FlowStepInv` and `CalmStepInv` beside it), that
every step keeps its inductive invariant; TLC has checked each inductive invariant on the instance of the
module's run before it was proved. None of the properties is inductive by
itself, because a handler works from what it read earlier, and a crash or a
rebalance makes an event come again. What makes them inductive is as follows.

**What a handler's variables are worth** (all modules). A conjunct per `pc` says
what the local variables of a chain in progress still say of the shared state.

- `EmailService`: the owner works on the message at `pos`; a worker past the
  insert has a row; one that will send or mark has a registered rider; one that
  will mark has the id of a mail SES accepted (`WorkersOK`). Only unknown riders
  are recorded as unknown (`NotFoundOK`), without which `MarkFailed` could
  overwrite the record of one. `RecordsKept` says that a step takes nothing
  back, and `OtherWorker`, `OffsetBack` and `OffsetMoves` use it for all steps.
- `DriverService`: whatever interleaves, a status or a ping that puts a driver to
  work goes back to a photo that was heard of, and a busy status to an
  assignment (`RowsOK`, `HandlersOK`). For handlers that run one by one,
  `InSerial` says for each `pc` of the one at work which of three promises (the
  pool, the photo, the announcement) are broken for the moment and what it
  knows that lets it keep them again; about all other drivers they hold.
- `MatchingService`: the event of an instance that still owns its topic is the
  next one of the topic (`MatchesOK`). An instance that lost the topic knows
  nothing, which is why it may not move the offset. Every position behind the
  offset was handled or jumped over (`RequestsAccountedFor` is inductive with it).
- `RideService`: the driver in a row is the one that some first `n` assignments
  of the topic leave there, and `n` is behind the offset only for a ride with an
  assignment that was jumped over (`RowAfter`, `DriversOK`). Redelivery lets the
  row go back and forth, but only within what is still to be handled again; at
  the end of the topic `n` is its length. A jump adds the rides it passes to
  `Forgotten`, and for the others it passes nothing of theirs, so `n` can be moved
  up with the offset.
- `ProfileService`: the row a request read is still the row of a user whose
  requests came one after the other (`ProfileRequestsOK`), and two requests of one user
  at the same time do not go unnoticed (`RacesSeen`).
- `Accounts`: an account's id is followed from the table into the handler's
  variables and the caller's token (`UsersOK`, `CallsOK`, `CallersOK`); a caller
  waits for one answer (`OneHeard`), so the answer is about the account it is at.
- `NotificationService` has no handler that is interrupted; its steps are related by
  what is on the way. What a client has and what Redis is bringing to its
  instance are one account: an emit enters a push there for whomever it concerns,
  and hearing it moves it from the one to the other (`EmitsToSocket`,
  `EmitsToQueue`, `Accounted`). For the order, the queues are sorted as well, and
  what is on the way to a client comes after what it has (`Ordered`); this needs
  that the instance that reads a topic hears of that topic from nobody else
  (`NotFromOthers`) and that nothing is on the way of events to come (`Handled`).

**Two services and a topic** (`PhotoFlow`). The invariant of the composition is the
invariant of each service, kept also by the steps of the other, and two sentences
about the topic between them. `Heard`: the flag in driver-service's table is what
some first events of the topic leave there, no fewer than the group has moved
past, so a redelivered event may set it back but only within what comes again.
It says nothing of drivers in `missed`, whom a jump adds before it can matter.
`Said`: what auth-service's row says is what the last event says, or a request is
about to announce it, or the client has had a 500 and repeats its confirm, or it
is a removal whose event was lost with a fault. When all is handled the two meet:
the flag is what the last event says, and the last event says what the row says.

**Three services and six topics** (`RideFlow`). That a busy driver has a ride, and
only one, is nobody's invariant: the driver is handed from the pool through
matching's variables and two topics into a row, and comes back by two others.
The proof follows them. `Work(d)` is the set of rides that were assigned to `d`
and whose end driver-service has not handled, which can be read off the topics
and offsets alone. Each driver is in the pool, claimed, or has one ride in
`Work(d)`, and is in one of these places only (`Placed`); the driver's status
and the handler at work say whether driver-service has heard of the ride
(`StatusOK`, `WorkJobOK`); a ride is announced, assigned and ended once
(`OnceEach`); a client ends a ride only after driver-service has handled its
assignment (`ClientsOK`, `EndsOK`), so that the end does not overtake the
beginning although they are in different topics. `CalmInv` is all of this. Its
hypothesis `Calm` says that clients wait as the load test does, that nobody
pings and that nothing fails. It cannot be dropped: `flow_hasty` and `flow_ping`
are what happens without the first two, and a crash after the end of a ride
delivers its `driver.assigned` again.

Without `Calm` the composition keeps `FlowInv`: the invariant of ride-service,
that matching works on rides that were announced (`MatcherOK`), and that a
driver whom a request has read in a row was assigned to that ride (`ReadsOK`).
This is what the modules of ride- and driver-service assume of the rest, so each
step of the composition maps to one of theirs: a claim to `Claim`, a claimed
driver that matching drops or crashes with to `ClaimLost`, a published
assignment to `Assigned` or `DriverAssigned`, a ride's event to `RideReported`.
The two modules bound what they accept from outside (`MaxEvents`, `MaxWork`) and
`RideFlow` does not, so the theorems are about behaviours within the bound; it
is any number.

**Budgets** (the `...Cost...` properties and `NoDoubleClaim`). Counting what has
gone wrong is not inductive; counting also what still may go wrong is.

- `ExtraMailsCostFaults`: mails sent, workers on their way to SES or to the update
  of their catch block, and one more if the row would open a new attempt, are at
  most `1 + faults` (`MailBudget`). This budget is also what the refinement needs
  to map `Send`.
- `NoDoubleClaim`: assignments of a driver, instances that hold them, and their
  place in the pool are at most the times they entered it (`ClaimedOnce`).
- `ExtraDriversCostFaults`: assignments of a ride, its requests not yet passed, and
  instances that lost the topic with one of them in hand, are at most the
  requests times `1 + faults` (`Delivered`).
- `UnannouncedCostFaults`: one step loses at most one request, a crash at most
  those in progress.
- `CopiesCostMoves`: copies a client has, copies on the way to its instance, and one
  more while the event is still to be handled, are at most `1 + moves`
  (`CopiesPaid`).
- `HalfSeededCostFailures`: `AtRisk` counts the seeded people without a profile for
  whom a handler works that nobody listens to, or who have an account that
  neither loop of the seed is about to complete. A failure adds one of them, a
  crash two.

Every invariant and every action property that a passing run checks is proved.
Only model-checked are the liveness properties (`EveryRideReceipted`,
`EndOfRideFreesDriver`, `AnnouncedRideIsAnswered`, `ConfirmedPhotoArrives`,
`EverybodyGetsIn`, `EventsNeverBlock`): the prover reaches neither fairness nor
`ENABLED`. The two counterexamples are TLC's as well.

What resuming does to a group's offsets is stated once, for any log, commits and
topics, in `RejoinedType` and `RejoinsType` of `EventsProofs`: the offset goes back, no
further than the commits, and nothing is jumped over, or it goes to the end and
what was in between is in `skipped`. Every proof about a crash, a rejoin or a
rebalance of the ride side cites it.

## What is left out

- payment-service, which is a scaffold without behaviour. `NotificationService`
  has its topics, as that service subscribes to them.
- The gateway's throttling and the validation of requests; `POST users/register`
  of auth-service, which nothing in the repository calls; bcrypt and JWT, of
  which the models know only whether a password is right and what a token says.
- Second PUTs to one pre-signed URL.
- A process of notification-service that dies after it has handled an event and
  before its push to Redis has left the process: the adapter does not wait for
  its publish. In the model the push is on its way when `Handle` ends.
- Fares, in the runs: no property is about them, so `Fares` is empty there.
- The counters of the services, except the gauge of connections, which goes up
  and down.
- Several partitions and keys: the deployment has one partition per topic.
- Malformed messages, except in `EmailService` and `NotificationService`, whose
  consumers treat them apart. Elsewhere an unparsable message is never produced.
- The end of kafkajs' retries: when they run out the consumer restarts, which is
  `Crash`.
- Schema changes, metrics, logging, dashboards and deployment. Nothing reads
  them back into the state that is modelled.

## Plan

What would come next, in this order:

1. Clients that repeat a PATCH: `handleRideFinished` does not compare the ride, so
   a second end of an old ride would free a driver who is on a new one.
2. `OneOpenRidePerDriver` under faults of matching- and ride-service alone, with a
   weaker hypothesis than `Calm`.
3. `Kafka` with partitions and keys, to ask what the unkeyed ride events cost.

## Running

    tlc -workers 2 -config EmailReceipts.cfg EmailService
    tlc -workers 2 -config FlowPatient.cfg MCFlow
    tlc -workers 2 -config PhotoFlow.cfg MCPhoto
    tlapm MatchingProofs.tla        (and every other *Proofs.tla)

`PROJECT.json` names the module, the configuration and the expected outcome of
every run, the source lines of every definition, and the fault that each
property detects. No run takes more than about four minutes on two cores.
