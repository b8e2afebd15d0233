# A TLA+ model of the photo gallery

The repository is a distributed photo gallery: Go services behind an HTTP
gateway, Postgres, MinIO, RabbitMQ and Redis below them, a React client above.
This directory holds TLA+ modules that model its concurrent and failing parts,
TLC configurations that check them on small instances, and TLAPS proofs of the
results that matter most. Paths are those of the repository, without `src/`.

## The system

| Component | Code | State it keeps | Operations |
|---|---|---|---|
| Circuit breaker | `internal/upload/circuitbreaker.go` | state, failure count, time of the last failure, probe flag, one mutex | `Call`: admission, the call outside the lock, completion |
| Upload handler | `internal/upload/api/grpc.go`, `postgres.go`, `storage/minio.go` | none of its own: bucket, table `upload_records`, breaker | `UploadPhoto`, `ListUploads` |
| Upload event publisher | `internal/upload/events/publisher.go` | connection, channel, mutex, a second breaker | `PublishPhoto`, `publish`, `connect` |
| Gallery commands | `internal/gallery/command` | tables `galleries` and `members`, an AMQP channel | create, delete, close, join, leave, alert |
| Gallery queries | `internal/gallery/query` | none | keyset pages, `IsMember` |
| Notification Service | `internal/notification`, `cmd/notification` | per replica: registry of live streams, AMQP consumer, Redis subscription | `Subscribe`, `Consume`, `Run`, `Notify` |
| Notification registry | `internal/notification/registry.go` | three maps under one RWMutex | connect, subscribe, unsubscribe, remove |
| User Service, tokens | `internal/user`, `internal/auth` | table `users` | register, log in, check a token |
| Gateway | `cmd/gateway`, `internal/handlers` | none | HTTP to gRPC, the event stream, the upload stream |
| Galleries page | `frontend/src`: `GalleryStore`, its actions and page | the store | load, load more, create, close, join, leave, delete |
| Details page | `frontend/src`: photo, details and upload stores, their actions, page, grid and form | the three stores | load details, load photos, upload |
| Session and notification stream | `frontend/src`: `AuthStore`, `api.ts`, `notificationStream.ts`, their actions and pages | a token in `sessionStorage`, the reconnection loop | log in, register, log out, reconnect |
| Load generators | `cmd/testgallery`, `cmd/testupload` | accounts, a pool of galleries, results | set-up, workers, crash of a service, report |

How they interact. An upload asks the Gallery Service (`IsMember`, through the
breaker) whether its user may upload, writes the object and then the record, asks
for the members, and hands an event to RabbitMQ. The Gallery Service announces
closings and alerts on the same exchange, from detached goroutines. The replicas
of the Notification Service compete for one durable queue; whoever gets an event
passes it to all replicas over Redis Pub/Sub, and each sends it to the streams
its registry lists for the gallery. A stream is subscribed once, at its start, to
the galleries its user is then a member of. The client reaches all of it through the
gateway with a token that lives for an hour; a 401 ends its session, and the feed of
notifications lives as long as the pages behind the login.

What is hard here: handlers that check a row and write later, without a
transaction (gallery commands, `UploadPhoto`); calls that return after the breaker
has changed state; a mutex held across a reconnection that takes it again; three
indexes kept in step by hand; an at-least-once queue in front of an at-most-once
fan-out; offsets into a list that grows at its head; global stores of the client,
to which every answer goes whatever page is shown by then and in whatever order
answers come; two ends of an upload stream, either of which may end it; a report
that must wait for workers and for a service that has been stopped. `PROJECT.json` lists each
hazard at its line.

What makes each component correct:

- breaker: its state agrees with what it counts, one call at a time tests a
  dependency, and a healthy dependency gets its calls back;
- publisher: the mutex protects the channel, and callers return;
- gallery commands: memberships belong to existing galleries, closing is final,
  only the moderator changes a gallery, nobody hears of a closing that is not
  there;
- registry: the indexes are three views of the same two relations, and it leaks
  nothing;
- notification: subscribers that stay get what was published while they were
  subscribed, once and in order, and nobody else gets it;
- upload: what is announced or listed is stored, what is stored was allowed, what
  failed is not seen, and requests end;
- listing: pages tile the gallery, and no photo is passed over;
- galleries page: its two lists are disjoint, complete once paged to the end, and
  no button waits for an answer that will not come;
- details page: a reported success is a photo in the bucket, and page and grid show
  the gallery of the address;
- session: there is one notification stream, it is that of the session shown, it
  comes back, and a valid session is not ended by its own requests;
- load generators: the report counts every request, and the service that has been
  stopped runs again when the tool ends.

## Modules

| Module | Models | Notes |
|---|---|---|
| `CircuitBreaker` | `CircuitBreaker.Call` | two atomic sections per call; `cooled` is all the code reads of the clock; `late` is a history variable |
| `CircuitBreakerProofs` | | theorems |
| `Publisher` | `NewPublisher`, `PublishPhoto`, `publish`, `connect` | an INSTANCE of `CircuitBreaker`; RabbitMQ stops and starts |
| `UploadService` | `UploadPhoto` after the stream has been read, which is in `DetailsPage` | another INSTANCE of `CircuitBreaker`; the gallery as far as an upload depends on it |
| `UploadServiceProofs` | | theorems about uploads and about `Publisher` (as `Pub`) |
| `UploadListing` | `ListUploads` over either repository | one client, records saved meanwhile |
| `GalleryBrowser` | the galleries page, its store and actions, the keyset listings | one tab; requests overlap and are answered in any order |
| `PagingProofs` | | theorems about `GalleryBrowser` and about `UploadListing` (as `Listing`) |
| `DetailsPage` | the page of one gallery: its stores and actions, the gateway's upload handlers, the loop that receives the chunks | one tab, other users upload; requests overlap |
| `DetailsPageProofs` | | theorems |
| `ClientSession` | `AuthStore`, `api.ts`, the pages that log in and out, the reconnection loop, the User Service, the check of tokens, the gateway's event stream | one tab; a token is its number |
| `ClientSessionProofs` | | theorems |
| `LoadTest` | both load generators | they share their skeleton; `tool` says which one runs |
| `LoadTestProofs` | | theorems |
| `GalleryService` | the six commands with their repository and publisher | one action per SQL statement |
| `GalleryServiceProofs` | | theorems |
| `Subscriptions` | what the registry promises | abstract: two relations |
| `Registry` | the three maps | implements `Subscriptions` |
| `NotificationService` | queue, consumers, Redis, broadcasters, stream handlers | uses the registry as `Subscriptions` states it |
| `NotificationServiceProofs` | | theorems about the registry (as `Indexes`), its refinement among them, and about the service, its use of `Subscriptions` among them |
| `MC...` | | the instances TLC checks |

How state and actions correspond to the code:

**CircuitBreaker.** `current`, `consecutiveFailures` and `probing` are the
fields; `lastFailure` is abstracted to `cooled`, whether `resetTimeout` has
passed since. `AdmitClosed`, `AdmitProbe` and `Reject` are the branches of the
first locked section of `Call`, `Succeed` and `Fail` those of the second, and
`Elapse` is the clock. The count saturates at the threshold, the only value it is
compared with. A caller is a goroutine; it may call again. `late` records that a
call was in flight when `resetTimeout` passed on an open breaker. That cannot
happen in `isMember` (2 s against 10 s) and can in the publisher, whose calls wait
for a mutex and for dials.

**Publisher.** `at[t]` is the point goroutine `t` has reached, `mu` the holder of
`p.mu`, `dialled` a connection that `connect` has opened and not stored. `Boot`
runs `connect` from `NewPublisher` before uploads are served. `Swap` for an upload
needs the mutex its own `Lock` has taken, as in the code.

**GalleryService.** A request slot goes from `read` to `write` to `publish` as the
handler does; what it has read is kept in `seen` and may be stale by the time it
writes. `CloseGallery` writes the whole row back (gorm's `Save`, which inserts
when the update matches nothing), `DeleteGallery` cascades to the members and
`JoinGallery` is refused by the foreign key when the gallery is gone. A slot stays
taken while its detached publish runs, which bounds the goroutines and nothing
else. Requests that validation refuses change nothing and are left out. `Start`
is the start of the process (`NewDB`, `NewRabbitMQPublisher`), which needs Postgres
and RabbitMQ; `running` is false before it and after a crash.

**Registry.** `clients`, `galleries` and `connections` are the maps, as functions
whose domain is the set of keys, so an entry that is left empty is visible. Every
exported operation is one action, as it runs under the mutex.

**NotificationService.** A stream handler resolves, registers, subscribes gallery
by gallery and waits. A replica's consumer has `held` events and is with the first of
them where `handling` says: it may have to ask the Gallery Service for the gallery's
name (`GetGallery`, a call without a deadline, which `GalleryAnswers` ends, by an
answer or an error), fans the event out and acknowledges it. The cache of names is left
out: any event may need the call or not. The broadcaster takes a snapshot and sends
outside the lock. A crash loses the replica's memory and returns its unacknowledged
events to the queue; a closed AMQP channel returns them too and ends `Consume` for
good, once it is through with the event in hand, while the replica goes on serving
streams (so does the code); `Start` brings a crashed replica back, empty. Redis may
lose a message for any set of replicas (a slow reader, whose channel in go-redis
overflows, is one of them), or give no answer, and the event is then dropped, whether
or not it went out; `lost` remembers which. go-redis, with its default options, sends a
PUBLISH again whose answer is lost: `Repeat` is a further copy, which reaches any
replicas at any time after the first, and `repeats` counts them. The
memberships of a stream are whatever they are when it resolves them. They change
freely before and after, which no step needs to show: nothing of the replicas reads
them again.

**UploadService.** One action per call to another process. A call that fails may
have had its effect. The three reads of `IsMember` are separate actions, with
joins, departures, the close and the deletion in between. Every upload is a
request of a user of its own; the object is written before the record. `Start`
makes a new breaker, and is fatal without MinIO, for which the compose file waits
only to be started.

**UploadListing.** `COUNT` and `SELECT` are separate steps. A photo is its time
stamp; records are saved in any order because uploads take the stamp before they
save. `repository` says whether the records are in Postgres or in memory
(`InMemoryRepository`, which the tests use); the latter returns them in the
order they were saved, backwards.

**GalleryBrowser.** `store` is `GalleryStore.state` field by field, `call[c]` an
action of the client that awaits its requests. A request is read or executed by
the server in one step (`ReadMine`, `ReadMore`, `Serve`) and answered in another
(`Loaded`, `MoreMy`, `Succeeds`), or fails; a failure may come after the effect. A
successful command goes on as a load. The buttons are those the store shows:
nothing else limits what overlaps. Closing a gallery changes neither listing.

**DetailsPage.** `details`, `grid` and `uploading` are `GalleryDetailsStore`,
`PhotoStore` and `UploadStore`; `asking` and `loads` are the requests of the first
two, in the order they were sent and answered in any, `upload` the one upload that
the form allows. `Enter` has the two effects of a change of gallery in the order
React runs them: the grid's, as long as the old details are still shown, then the
page's. A load is read by the server in one step and answered in another. The
gateway sends the metadata and the chunks (`SendAndRecv`) and the service may
refuse after any of them, which the gateway learns at a later message or at the end.
A stored photo is `listed` if its record was saved: `Save` may fail, which is logged,
and the upload succeeds all the same. Left out, because nothing changes by it: messages on their way between the two, and
the form of a closed gallery, which is an upload not made. While it loads or shows an error the grid hides
the photos it had, so the model drops them. One life of the tab, without a reload;
the form is taken to show what its store holds.

**ClientSession.** `session`, `loading` and `loggingOut` are the token, the flag of
`AuthStore` and the guard of `api.ts`; `call[c]` is a request with the token it was
sent with, `stream[s]` a reconnection loop with the token it was started with, and
`subscribed` the variable of `notificationActions.ts` that remembers the loop to
stop. A loop asks, listens once the gateway has opened the RPC, is open once the
headers have reached the browser, and sleeps. Moving to a page mounts or unmounts
the feed in the same step (`Moves`); `Loads` is a reload, which forgets everything
but the token. The galleries page and the details page are one page here, as the
feed stays mounted between them. The gateway starts, stops and dials lazily
(`StartGateway`, `StopGateway`, `Reached`); `AuthFuncOverride` lets public methods,
as `GetGallery` is, pass without a token. The tab and the services read one clock. Left out:
the list of the last thirty notifications, the values of the back-off, and the
double mounting of StrictMode, which production builds do not do.

**LoadTest.** `at[a]` is the point the goroutine of an account has reached, `sem`,
`wg`, `sent` and `closed` are the semaphore, the wait group and the channel of
results, `crash` the goroutine of `-crash-after`. `Stats` is `computeStats`, with
its truncating index. Weights are left out (an operation with a weight above 0 is
one that can be picked) and so is the printing.

## Runs

| Run | Instance | Shows |
|---|---|---|
| `Breaker` | 4 callers, threshold 3 | state, count and flag agree; one probe; recovery |
| `Publisher` | 3 uploads, threshold 2 | lock discipline; a stuck publish is for ever, ends all publishing and is the only way not to return |
| `PublisherReconnect` | the same | violation: the reconnection does not return |
| `Upload` | 2 uploads, threshold 1, every fault | stored was allowed, announced is stored, errors are unseen, requests end |
| `Listing` | either repository, up to 5 photos, pages of 2 | pages tile, none is skipped |
| `Browser` | 3 galleries, pages of 1 and 2, 2 actions at a time | lists disjoint, spinners have calls, paged to the end is complete |
| `Details` | 2 galleries, 2 requests of a kind at a time, pages of 1 of 2 photos | success means stored; details and grid are those of the address, the grid with the photo just uploaded if its record was saved; spinners have requests |
| `Session` | 1 user, 3 tokens, 2 requests, 2 loops | the stream is that of the session and comes back; valid sessions survive; forms do not lock up |
| `LoadTest` | 1 moderator, 2 members, 3 requests | the report is complete, percentiles hold, picks exist, the service is restored, the tool ends |
| `Gallery` | 2 users, 1 gallery, 3 requests, every fault | memberships, finality of closing, order of announcement, what a late close leaves |
| `Registry` | 2 users, 2 galleries, 3 connections | indexes agree and leak nothing; refinement of `Subscriptions` |
| `Notification` | 2 replicas, 2 events, prefetch 2, every fault, one retry of a PUBLISH | registry and handlers; who gets what; once and in order; what was published while subscribed arrives if calls end |

Every module states its `TypeOK`. It is proved for the breaker, the registry, the Gallery Service, the Notification Service, the Upload Service, the
galleries page, the details page, the session and the load generators; elsewhere it
documents the variables.

The bounds. Breaker: a straggler, a probe, a second probe and a rejected call are
four callers; the threshold is the configured one. Publisher: one upload that is
stuck, one that waits for its mutex and one that the breaker has yet to admit.
Upload: requests meet only in the breaker and in the gallery, so two with a
threshold of one reach every refusal. Gallery: the races of this code are between
two writers, and the third request is the bystander. Registry: two connections of
one user and one of another. Notification: `Prefetch` 2 lets one replica hold
both events or each hold one; `MaxFailures` 1 allows one crash or closed channel,
so that a survivor remains, or one event that Redis loses or gets again, in any
number of its copies; `MaxRetries` 1 stands for the three retries of go-redis, as a
second copy does what a third would. Listing: none
to three pages.
Browser: with three galleries a load-more starts, ends, or runs past the listing;
two actions suffice for every pair of load, load-more and command to overlap; one
gallery of the user and one of somebody else (`Changing`) come and go. Details:
two galleries, so that answers can be those of the one left; two requests of a kind,
so that one overtakes the other; two photos and a page of one, so that the newer
hides the older; files of no chunk, one, and one too many. Session: a token that has
expired, one to be replaced and one that replaces it; two requests, so that a late
answer meets a new session; two loops, so that a forgotten one would run beside the
next. One user suffices, as a token stands for whoever holds it. LoadTest: three
requests of one operation are a smallest, a middle and a largest sample; one permit
makes the set-up wait; larger samples are left to the proof.

`CHECK_DEADLOCK FALSE` is in `Listing`, whose client ends and whose photos are
finite, and in `LoadTest`, which models programs that end. Symmetry is used in
`Gallery`, `Registry`, `Browser` and `Details`, which check no liveness.

Conditional properties. What a property excepts is what the code does, and each
exception is named in its comment.

- `AtMostOneProbe` and `HalfOpenLeftByProbe` speak of the time before a call is
  `late`: afterwards the code does let a second probe in.
- `OnceAndInOrder` holds while no replica has failed, as at-least-once delivery
  repeats and reorders otherwise, and excepts the events that go-redis has published
  again (`repeats`), which may come twice and late. Other events are not disturbed.
- `DueDelivered` excepts the events that Redis has lost, which the code drops
  deliberately, and has the premise `CallsEnd`: no consumer waits for ever for
  `GetGallery`, no broadcaster for a client that does not read. Without it the
  property is false, as an event in the hands of a consumer that hangs is not given
  back.
- `NoneSkipped` leaves out the listings in which a record is saved between `COUNT`
  and `SELECT` (`raced`): with it, the total is one short, the token is missing, and
  the oldest photo is passed over.
- `PagedToTheEnd` speaks of lists that nothing has changed since they were loaded
  (`fresh`), with no load-more under way at that moment.
- `StreamFollowsSession` excepts a page about to be left after a 401, and a session
  that a late log-in has put in the place of another while the feed stays mounted
  (`overtaken`). `ValidSessionSurvives` excepts 401s that answer a request of an
  earlier session and wrong passwords. `StreamComesBack` speaks of valid tokens.
- `DetailsAreOfPage` and `GridIsCurrent` except answers that have overtaken later
  ones, or were asked for by an upload of a gallery left since (`late`); `GridIsCurrent`
  also excepts photos whose record could not be saved (`listed`).
- `ErrorMeansUnseen` is about the errors the handler returns. The browser also shows an
  error when the service crashes, which may be after the record was saved.
- `ServiceRestored` excepts runs in which ssh has failed, `EndsUnlessSshHangs` those
  in which it never returns.

## Fairness

- Breaker: calls return, the clock advances, and requests keep coming.
  `RecoversWhenHealthy` needs all three.
- Publisher: runnable goroutines run (weak). `Lock` is strongly fair because
  `sync.Mutex` hands over to a starving waiter after 1 ms. RabbitMQ and new
  requests have no fairness.
- Upload: every step of a handler, whose calls have timeouts (2 s and 3 s, and the
  request's own). The Gallery Service has none: it may stay away for ever.
  `PublishPhoto` has none, because it may block.
- Session: the timers of the back-off fire and connection attempts end. Users,
  requests and the service have no fairness: `StreamComesBack` speaks of runs in
  which the service stays reachable.
- LoadTest: goroutines run, requests end (the clients' timeout is 30 s), sleeps end.
  Nothing is assumed of ssh, which has no timeout.
- Notification: RabbitMQ delivers to a consumer with room, a consumer that has what it
  needs publishes and acknowledges (the timeouts and retries of go-redis end every
  PUBLISH), a broadcaster that is not sending takes the next message. The answer to
  `GetGallery` has none, because `consumer.go:46` runs under `context.Background()`
  (`cmd/notification/main.go:128`), nor has `Send`, which waits for the client's window;
  that they end is the premise of `DueDelivered`. Stream handlers and `Start` have none.
- Listing, Gallery, Registry, Browser, Details: no liveness is stated, no fairness assumed.

## What is proved

TLAPS checks every step of the following, for all values of the constants. The
assumptions are the named ones of the modules: positive thresholds, page sizes and
prefetch, natural bounds, finitely many accounts of a load test, and null values that
are nothing else. Proofs that rest on bounds (`MaxEvents`, `MaxTokens`,
`MaxGalleries`, `MaxPhotos`, ...) hold for every bound. TLC has checked each invariant
below before it was proved. Every invariant that a run checks is proved, and every
action property and refinement but those of liveness.

Where a module of proofs has two subjects, the second is an INSTANCE, under the same
constants or with constants of the proofs' own, and a theorem about it is a theorem
about every instance of the module.

**CircuitBreakerProofs.** The inductive invariant `AnyInv` joins the types,
`ClosedBelowThreshold` and `HalfOpenIsProbing`; each of the latter needs the other,
because opening from HALF-OPEN relies on the count being at the threshold already.
`TypeCorrect` and `StateAlwaysMatches` follow. `AtMostOneProbe` is not inductive: it
breaks if an ordinary call is still in flight when the probe starts. `Timely` says
that nobody is in flight when the breaker is ready to probe; `TimelyInv`, `AnyInv`
with `Timely` until a call is late, is inductive and yields `OneProbe` and
`ProbeDecides`.

**The publisher** (`UploadServiceProofs`, second part; `PubConstants`, a hypothesis,
is `Publisher`'s assumption that `Boot` and `NoOne` are not uploads). `PubInv`, the
positions with `LockDiscipline`, is inductive. From it: a goroutine in `swap` inside `publish` holds
the mutex it waits for, so nobody can lock it, so no step but the breaker's is enabled
for anybody (`StuckStep`); `StuckIsTheEnd` follows: the stuck call stays where it is
and nothing is published any more.

**The registry** (`NotificationServiceProofs`, first part). Types, `IndexesAgree` and `NoEmptyEntry` together are inductive:
that removing a connection from a gallery's entry leaves no empty one needs the entry
not to have been empty, and that it leaves no other trace needs the indexes to agree.
`IndexesAlwaysExact` follows. `RegistryRefines` maps each operation to one step of
`Subscriptions`, or to none.

**GalleryServiceProofs.** A row becomes open in `CreateGallery` only, so closing is
final if a creation is the first thing that happens to its id. `FreshIds` says that
an id not drawn yet is the id of nothing, `CreatedOnce` that an id being created is
known to nobody else: no row, no announcement, no request that has read it;
`ClosesWhatItRead` that a close saves a row that existed when it was read. With the
types and both properties this is inductive. `MembersAlwaysHaveGallery` and
`AnnouncedIsNeverOpen` are parts of it; `ClosedIsFinal` and `OnlyClosedReturn` follow
step by step: the late write of a close is the only step that gives a deleted gallery
back, and it gives it back closed.

**The Upload Service** (`UploadServiceProofs`, first part). The breaker's part of the
invariant is `TimelyInv`, from `CircuitBreakerProofs`: only `Start` replaces the
breaker, by a new one
(`BreakerKept`). A request's part follows the handler: what the reads of `IsMember` have seen was
true at some time of the request (`BeganSees`, `SeenWasTrue`), nothing is stored for
anybody else (`WasAllowed`), the object is there before record, event and answer
(`StoredInTime`), and record and event come after the last error a client is told of
(`UnseenInTime`). `OnlyAllowedStored`, `OnlyStoredAnnounced` and `ErrorsAreUnseen`
follow.

**The Notification Service** (`NotificationServiceProofs`, second part). `StreamInv` holds through every fault: events are
sent by number and the numbers are those of published events (`PublishedOnly`),
subscriptions are of galleries that were resolved, a stream not yet registered is in
no snapshot (`NewStreams`), and whoever is in one had the gallery resolved
(`Snapshots`). `RegisteredHaveHandlers` and `ReceivesResolvedOnly` follow.
`ReceivesOnceInOrder` is about the time before the first failure and needs the whole
path of an event, `OrderInv`: it is in the queue or held by one replica, in
increasing order everywhere (`OnePlace`); it is fanned out once, by one replica, in
the order of publication (`FansOutInOrder`); and what a stream has received, what is
being sent to it and what waits in the inbox of its replica come in this order
(`Pipeline`), where `Before` leaves out the events published again, of which a copy may
be anywhere. `UsedAsPromised` joins the service and the registry: except for
crashes, which empty it, every step uses the registry as `Subscriptions` allows,
which `RegistryRefines` shows the three maps to implement.

**DetailsPageProofs.** Answers come in any order, so what a store holds is related to
the address by the latest request that is not `late`: while there is one it is of the
gallery of the page, and once there is none what is shown is (`DetailsFollow`,
`GridFollows`). For the grid, what a load has read must contain every photo reported
as uploaded and saved that fits on the page (`Covers`), which rests on the success having been
reported after the object was stored (`UploadIsStored`) and on reads seeing what is
stored (`ReadIsStored`). `SuccessIsStored`, `DetailsFollowPage`, `GridFollowsUploads`
and `SpinnersStop` follow.

**ClientSessionProofs.** `StreamFollowsSession` and `SpinnerHasCall` are inductive
together with what answers say: a token is refused only when it has expired, but for
a wrong password (`RefusedExpired`), and a form that succeeds brings a token that was
issued (`OkBringsToken`). `OneLoopForSession`, `FormsComeBack` and the action property
`OwnRequestsKeepSession` follow.

**The galleries page** (`PagingProofs`, first part). A page of a listing is a piece of
the ordered list of a set, so the proofs begin with orders: `Ranks` (in a finite chain
the numbers of those before are 0, 1, 2, ..., each of one element), `SortedList` and
`SortedOnly` (`Sorted` is the one increasing list of a set). `CardsDisjoint` and
`SpinnersHaveCalls` are inductive given the types. `PagedToTheEnd` is not: it says
nothing of lists that have pages to come. `PagingInv` does. Fresh lists are those of
the server up to their tokens (`ListsCurrent`); what a load has read that no change
has overtaken is what the server would answer now (`LoadsCurrent`), so that it makes
the lists fresh; and while they are, at most one page of each is under way, for the
token the store has (`MoresCurrent`), so that it continues the list exactly where it
ends. At token 0 that is the whole list.

**The upload listing** (`PagingProofs`, second part). `rows` only grows. `Prefix`, what
the client has is the beginning of the order, is inductive as long as no record is
saved (`Tiling`), and gives `PagesAlwaysTile`. With records saved meanwhile positions
shift, never to smaller ones: `Covered`, every record of the beginning that is now
before the offset has been sent, stays true because the place of a record among those
most recent first only grows, in either order (`Backwards` or `ByTime`); with a count
that no upload has overtaken (`InRange`) it gives `NoneEverSkipped`.
`NoneSkippedInMemory`: the repository in memory needs no such condition, as nothing
comes between its count and its page (`Locked`).

**LoadTestProofs.** The invariant counts: the permits taken are the goroutines that
hold one (`PermitsHeld`), the wait group is the workers that are not done and the
channel has the results of those that are at least past `Send` (`Handover`),
`totalRequests` is the number of places in the lists of results (`Counted`). So when
`wg` is zero everything is in the channel (`Closing`, `AllReceived`), and as every
worker is done, nothing changes until the report and after it (`Reported`):
`ReportAlwaysComplete`. `Seeded` (a creator is ready only once its gallery is in the
pool) gives `PicksAlwaysExist`, `Restoring` gives `ServiceAlwaysRestored`. For
`PercentilesAlwaysHold`, the latencies have a sorted list (`Listable`, by `Ranks`
again, ties broken by any numbering), the k-th of n has at most n - k slower ones
(`FewSlower`), and the truncated index is far enough (`FewAfter`). `Index` is in
integers: the product in floating point that the code truncates gives the same index
for each of the three percentiles (compared up to 200000 samples).

Model-checked only:

- liveness (`RecoversWhenHealthy`, `ReturnsOrStuck`, `DueDelivered`,
  `EndsOrPublishes`, `StreamComesBack`, `EndsUnlessSshHangs`), which with ENABLED and
  fairness is out of the prover's reach;
- `Mean` of `LoadTest`, a fold over the results, of which no property speaks: it would
  need induction over data.

No module uses a RECURSIVE operator, and what the proofs reason about is not defined
by a fold or by a library's sort: `Sorted` and `ByTime` give the element of each rank,
`Sorted` of `LoadTest` any arrangement in order, as `slices.Sort` does.

## Disagreements between the code and its documents

Shown by a run: `PublisherReconnect`. `publisher.go:141` promises one reconnection;
it waits for the mutex its caller holds (`:143`, `:149`, `:82`). From the first
reconnection that reaches RabbitMQ every upload hangs after its photo has been
stored.

Visible in the models and not made into runs:

- The comment at `circuitbreaker.go:36-42` lists the transitions; the success of a
  straggler makes another, from OPEN to CLOSED without a probe
  (`CircuitBreaker.Succeed`).
- `broadcast.go:23-26` and `consumer.go:103-105` say that live streams follow
  memberships; no code does it: a user who leaves goes on receiving, one who joins
  receives nothing, until the next stream.
- `service.go:94-95` says that `Publish` retries with confirms; it makes one
  attempt, and after its connection has closed none succeeds again
  (`GalleryService.Publish`, `DropChannel`).
- A gallery deleted between the read and the write of `CloseGallery` is inserted
  again, closed (`UndeletedIsClosed` bounds the damage); a user may join a gallery
  closed between the read and the write of `JoinGallery`.
- A photo is stored in a gallery closed after the membership check, while
  `GalleriesPage.tsx:56` tells the moderator that members won't be able to upload.
- `UploadPhoto` succeeds when its record could not be saved
  (`internal/upload/api/grpc.go:230`), and the photo is then never listed, although
  `uploadActions.ts:24` loads the grid anew "so the new photo appears"
  (`DetailsPage.Stores`).
- A Gallery Service that hangs blocks the consumer of a replica for ever, with the event
  in its hands and up to `Prefetch` behind it (`consumer.go:46`), until RabbitMQ's own
  timeout for acknowledgements closes the channel, after which the replica consumes
  nothing any more (`GetGallery`, `Drop`).
- A notification whose PUBLISH has been answered, but whose answer is lost, is sent again
  by go-redis and shown twice (`Repeat`); if no answer ever comes, `consumer.go:128`
  reports a failure although streams may have received it (`FanOutFails`).
- The comment at `internal/upload/api/grpc.go:258-260` says that an event without
  members is delivered to nobody; the consumer does not read the members.
- A reload enables the button of a load-more that is still under way
  (`GalleryStore.ts:102`): its page is then appended to the new list, once more if
  the button has been used again, and galleries are shown twice.
- `internal/gallery/query/service.go:29-31` says that `ListGalleries` returns all
  open galleries; the query has no condition on the status.
- A reconnection loop whose token has expired goes on with it. The gateway opens the
  RPC before the service checks the token, so the browser gets status 200 and an
  event that reports the error; the back-off is reset, and the loop asks again every
  second until the page is left (`RefuseToken`). The page itself is not rendered
  anew, so that the expiry shows only with a 401.
- The gateway's headers go out with the first event: the dot stays at "connecting"
  on a stream that works and has nothing to say (`Accept`, `Notice`). The status
  "error" is overwritten by "closed" at once.
- A wrong password while a valid session is stored ends that session, as does a 401
  that answers a request of an earlier one (`Unauthorized`). A log-in that fails
  otherwise while a valid session is stored enters the galleries as the old user
  (`Proceeds`). A log-in answered after the page has moved on leaves the feed on the
  old token (`overtaken`).
- Any error of `CreateUser` is answered as an existing account
  (`internal/user/api/grpc.go:54-57`), also when the row has just been written
  (`RegisterFails`).
- The details of a gallery that has been left, when they come last, are shown on
  the page of the next, with a form that uploads to the next and the moderator of the
  former; the photos asked for after an upload to a gallery left since are shown on
  the grid of the other. The success message and the disabled button belong to no
  gallery. An older list that comes last hides the new photo (`late`).
- `internal/upload/api/grpc.go:175-178` checks an error that is not that of the line
  before: an invalid gallery id is refused later, by the membership check.
- The grid shows one page of 100 photos and follows no token.
- `-crash-after`: when stopping fails the report still says that the service was
  stopped and restarted; a stop that failed after its effect leaves the service down.
  The last sleep of a moderator counts as duration, which understates the throughput.
  The truncated index makes the smaller of two requests the 95th percentile.
- Uploads to a deleted gallery count as failures of the Gallery Service: three of
  them refuse everybody's uploads for ten seconds.

## Not modelled

- Generated code, mocks and the tests; `Get` of the in-memory repository.
- Of the start-up of the services all but what may fail or be lost: configuration,
  listeners, migrations. `Publisher.Close`, called once as `main` returns (it
  dereferences a nil channel when the first connection failed).
- The routes that grpc-gateway generates: a request and its answer.
- The moderator's alert form, which keeps its result to itself; what the stores
  keep of the previous user after a logout; layout and wording everywhere.
- Two closes of one gallery both succeed and both announce it, with the same event;
  no property distinguishes them.

`PROJECT.json` gives the reason for each part.

## Plan

Order of what was written: the breaker first (two components hang on it), then
publisher and upload, the gallery commands, the registry with its abstract
specification, the notification path that composes them, the listing, the galleries
page, the details page with the upload stream, the session with the User Service and
the reconnection loop, the load generators.

Proofs, in the order they were written: the breaker, the registry with its
refinement, the publisher; then the Gallery Service, the Upload Service, the
Notification Service, the details page and the session; then what joins the parts,
`UsedAsPromised`; at last the galleries page, the upload listing
and the load generators, and with them every invariant of the runs.

Left: the start-up and the shutdown of the services beyond what may fail or be lost,
and the liveness properties for more than the instances above.
