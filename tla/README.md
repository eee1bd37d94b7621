# mailgun-operator: TLA+ models and proofs

The operator is a Kubernetes controller manager. A user creates a `Domain` or a
`Route` object; the operator registers a domain or a route at Mailgun, exports
SMTP credentials to a Secret, publishes DNS records through an external-dns
`DNSEndpoint`, polls Mailgun until the domain is verified, and cleans up when
the object is deleted. This directory models in TLA+ its two controllers, how they
run together in one manager, how a manager process starts and is configured, and the
mock of Mailgun its tests rely on. TLC checks the models on small instances; TLAPS
proves their safety properties for every value of the constants.

## 1. Inventory

| Part | State it keeps | Operations | Talks to |
|---|---|---|---|
| Domain controller, `internal/controller/domain/domain_controller.go` | none of its own between two reconciles; everything is in the object's status and finalizers | `Reconcile`, `createDomain`, `exportCredentialsToSecret`, `createExternalDNSEntity`, `checkMXRecordsAndSetState`, `deleteDomain` | API server (reads through a cache), Mailgun |
| Route controller, `internal/controller/domain/route_controller.go` | `status.route_id`, finalizer | `Reconcile` | API server, Mailgun (routes, and `GetDomain`) |
| Custom resources, `api/domain/v1` | spec, status, finalizers, deletion mark | - | - |
| Manager, `cmd/main.go` with controller-runtime | work queue, delayed retries, informer caches | deliver events, run one worker per controller, retry | API server |
| Configuration, `internal/configuration` | API token and server, verification period | `LoadConfiguration`, `hashToConfig`, `MailgunClient` | ConfigMap, Secret |
| Mailgun mock server, `internal/utils/mailgun_mock_server.go` | lists of domains and routes, sets that steer failures, a mutex | HTTP handlers, used by the tests | the controllers under test |
| Utilities, scheme, generated code, manifests | none | - | - |

The two controllers share nothing in memory. They meet at Mailgun: a route with
a domain waits until Mailgun reports that domain active. They start together,
once the process holds the lease, with one configuration that is never read again.

What is hard here, and where: a controller works on a cached copy that may be
old and writes whole objects from it (optimistic lock); the predicate hides
status updates, so wakeups can be lost; the domain is registered before
anything about it is stored, and so is the DNSEndpoint; any call can fail, or
take effect and lose its answer; the process can die between two calls; an
object can be deleted and created again under the same name; people change
domains at Mailgun by hand. A configuration comes from two objects, which are read
one after the other. The mock's handlers run at the same time on shared lists.
`PROJECT.json` lists each of these hazards at its
line with the properties that watch it.

What makes each part correct:

- Domain controller: no wakeup lost; no domain left at Mailgun without its
  object; no live Domain loses its domain; states only move forward; a user's
  edit is never taken back; activation is earned; exported credentials work;
  deletion and verification come to an end.
- Route controller: no wakeup lost; `status.route_id`, the only link to the
  route, is kept and names a route of its own object; one route per object, none
  left behind; edits reach Mailgun; deletion comes to an end.
- Both together: no route is made for a domain unless Mailgun had it active while the
  controller worked on that Route; a Route whose domain becomes verified gets its route.
- Mock server: requests answer as if each ran alone, and each is answered.
- Configuration: a process runs with what the Secret and the ConfigMap say, or
  ends; once they can be parsed, one runs.

## 2. Modules

| Module | Models | Kind |
|---|---|---|
| `DomainObjects` | `Domain`: the part of spec and status the code branches on; finalizers | data |
| `ClusterStore` | API server, informer cache, users, garbage collector | external |
| `MailgunDomains` | Mailgun's domain API, DNS publication, people at the console | external |
| `DomainController` | `domain_controller.go` on its queue, with failures and restarts | core |
| `DomainProperties` | the properties | properties |
| `DomainLifecycle` | what a user is promised of a Domain | abstract specification |
| `DomainRefinement` | refinement mapping from `DomainController` to `DomainLifecycle` | refinement |
| `MCDomain` | instances for TLC | model checking |
| `RouteStore` | `Route`, the API server, informer cache and users of Routes | data, external |
| `MailgunRoutes` | Mailgun's route API, and the state of the domains routes wait for | external |
| `RouteController` | `route_controller.go` on its queue, with failures and restarts | core |
| `RouteProperties` | the properties | properties |
| `MCRoute` | instances for TLC | model checking |
| `Operator` | the two controllers in one process, on one Mailgun account | composition |
| `MockData` | what the mock keeps, its requests, and what they compute | data |
| `MockServer` | the mock's handlers as threads with the mutex | core |
| `MockAPI` | the same requests, each in one step | abstract specification |
| `Startup` | `main` and `LoadConfiguration` of several pods, the lease, users who edit | core |
| `MCOperator`, `MCMockServer`, `MCStartup` | instances for TLC | model checking |
| `DomainSafetyProofs`, `DomainOrphanProofs`, `DomainStatusProofs`, `DomainLifecycleProofs` | theorems about the Domain controller, each module on top of the one before | proofs |
| `RouteProofs`, `OperatorProofs` | theorems about the Route controller and about both | proofs |
| `MockProofs`, `StartupProofs` | theorems about the mock and the start | proofs |

### How the state corresponds to the code

- `domains[k]` is the stored object, `cache[k]` what the informer shows,
  `pending[k]` the versions it has not delivered yet, in order. `r.Get` reads
  `cache`; an update is accepted iff the copy carries the stored
  resourceVersion, which is what `fresh` says.
- `obj` is `mailgunDomain`, the copy a reconcile has in memory; `pc` is the
  call it is about to make to the API server or to Mailgun. One action is one
  call with everything the code computes up to the next one. So every place
  where another actor, a failure or a restart can get in between is a state.
- `queue` and `delayed` are the work queue and the retries (`RequeueAfter`, the
  backoff of an error).
- `mailgun[n]` says whether `n` is registered, for which object (uid, 0 for
  none) and with which SMTP password. The code sees only the first; the others
  are there for the properties.
- `endpoints`, `epCache`, `epSynced` are the DNSEndpoint, the informer's copy
  and whether that informer runs: the first `Get` of the type starts it.
- `routes`, `cache`, `pending` of `RouteStore`, and `queue`, `delayed`, `pc`,
  `obj`, `fresh` of `RouteController`, are the same things for Routes.
- `posted[i]` is the route Mailgun made in its i-th POST, or `Nil` when it is
  deleted; `status.route_id` (`id`) is an index of it, 0 for none. `owner`, the
  uid of the object it was made for, is there for the properties.
- `domainState[n]` is all a Route sees of a domain. In `Operator` it is no
  variable: it is what `mailgun` of the Domain controller and `active` (the names
  Mailgun has verified) make it. `Operator` takes every action of both controllers
  as it is (`R` is `RouteProperties` with its own store, queue and worker); they
  interleave freely, and `ManagerRestart` is a restart of both. The Route side has bounds
  and failing calls of its own (`RouteFaulty`, `MaxRouteEdits`, ...), and people may delete
  routes at Mailgun (`RouteByHand`). `seen` is there for the property: the names that
  were active at some moment since the Route worker took up its key (`Watch`).
- In `MockServer`, `server` holds the fields of `MailgunMockServer`, `mutex` the
  mutex, and `pc`, `call`, `at`, `copy`, `answer` are the goroutine of a request: the
  index its loop has found, its copy of a route, what `toJSON` writes. A handler is
  three to five steps: take the mutex, look, change (twice, in a verification), give it
  back. The calls tests make do not pass through `authHandler`.
- In `Startup`, `configMap` and `secret` are the data of the two objects or `Nil`,
  `data[p]` is `configData`, `config[p]` the `configuration.Data` of process p, `leader`
  the holder of the lease. `offered[p]` holds the pairs of a ConfigMap and a
  Secret that the two reads of p's process may give: those there when it starts and, for an edit
  while it reads, what `Offer` adds. It is there for the property.

Each action carries the name of the code step, and `PROJECT.json` maps it to its
lines. `Fault` is a call that fails although nothing is wrong: without effect,
or with its effect and a lost answer. `SaveFails` adds the conflict, which is no
fault and is not bounded.

### What is abstracted

Names, DNS record contents, event and error texts, timestamps and validation
counts. `status.mailgun_error` and `status.domain_state` are never read by the
controller and are left out. The update of line 446 cannot change anything (the
status is a subresource, `Update` ignores it), so `NoteEndpoint` only reads the
resourceVersion. The DNSEndpoint cache jumps to the current state instead of
passing through each version: only whether the object is there is ever read. A
reconcile reads the Secret through a cache as well; a stale read there ends in
an error of the write, one of the outcomes of `Export`. The informer is taken to
list and watch without gaps: a relist that skips versions is a fast delivery
of all of them, except that it may hide an object that was deleted and created
again. A Route's description and expression are one value, since
the code compares and sends them together; its priority is a number and its actions
are a list, of which the code compares the length. An update sends only what has a
value (`Merged`): priority 0 and an empty list of actions are left out, and Mailgun
keeps what it has, as the mock does (line 390).
Routes are deleted in the background only. An update that changes nothing makes
no new version. In the mock, a form field has a value or is empty, DNS records are
valid or unknown all together (the handlers never tell them apart), and the random
identifier of a route is the next number; what `getDomains` shows is left open,
because it reads the list without the mutex. In `Startup` a configuration is a
function of field names; the flags that name the two objects are given, and a call to the API
server that fails is one of the deaths. Overlap of two managers (leader election off and two replicas) is not
modelled.

## 3. Runs

The runs are instances of the `MC` modules. Faulty calls are given by `Faulty`, their
number by `MaxFaults`; `MaxUid` bounds how often objects are created,
`MaxEdits` the edits, `MaxRestarts` the restarts, `MaxOutside` what people do at
Mailgun (`MaxByHand` with routes), and `MaxLag` how many versions the cache may
be behind when a reconcile starts. `MaxPosts` bounds the routes Mailgun
accepts; a further one is refused, which is an answer the controller handles.
Deadlock checking is off everywhere: with its objects settled
and the bounds used up the system has nothing to do, a standby waits for its lease,
and a mock nobody calls is idle.

| Run | Shows | Instance |
|---|---|---|
| `DomainSafety` | `NoLostWakeup`, `NoOrphanedDomain`, `UsableCredentials`, `DnsFlagHonest`, `ActivationIsEarned`, `LiveDomainNeverDeleted`, `TypeOK` | 1 key with all options, 2 objects, 1 edit of the MX check, any 2 failing calls but the lookup before a deletion, 1 restart |
| `DomainMeddling` | `StatusMachine`, `UserIntentKept` | 1 key, hand-made changes, foreground deletion, export without a name, 1 edit, 1 failing call, 1 restart |
| `DomainLiveness` | `ImplementsLifecycle`, `VerificationEnds`, `PublishedGetsActivated` | 2 objects, 1 edit of the MX check, any 1 failing call but the lookup before a deletion, lag 1 |
| `RouteSafety` | `NoLostWakeup`, `RouteIDNamesOwnRoute`, `RouteIDKept`, `ReleasedRouteGone`, `TypeOK` | 1 key, 2 objects, 1 edit of everything at once, a domain that comes and goes, any 1 failing call but the two `GetRoute`, 1 restart, 1 route deleted by hand, 2 posts |
| `RouteLiveness` | `RouteGetsCreated`, `EditReachesMailgun`, `RouteDeletionCompletes` | 1 edit, the same failures, 1 restart, 1 route deleted by hand, no lag, 5 posts |
| `Operator` | `RoutesOfVerifiedDomains`, `RouteFollowsDomain` | 1 Domain and 1 Route that asks for its name, 1 failing verification, 1 restart of the manager, 1 route deleted by hand, no lag, 2 posts |
| `MockServer` | `OneAtATime`, `EveryCallReturns`, `TypeOK` | 2 threads, 2 names, 4 requests or calls in all: every handler, every refusal, updates that leave fields out, a name registered twice |
| `Startup` | `RunsAsConfigured`, `EventuallyRuns`, `TypeOK` | 2 pods, 2 fields, 5 contents of each source (none, one field, both, no number), 2 edits, 2 deaths |

`RouteLiveness` has no lag at the start of a reconcile: nothing bounds how often a
worker may read the same old copy before the informer moves, and each time it
posts another route, so with lag any `MaxPosts` would be used up. A copy still gets
old while a reconcile runs. Five posts are more than its failure, restart and edit
can cause, so the bound does not bind there; in `RouteSafety` it may, and the
refused POST shows the error path. The two `GetRoute` do not fail there: an error of
the first ends the reconcile without a retry (line 182), so that an edit may never
reach Mailgun, and an error of the second (line 105) gives up the finalizer as the
Domain controller does in `FinalizerDropped`. `DomainLiveness` has no restart:
what a restart loses is what `NoLostWakeup` is about, and that is checked with one.

The bounds are small because each hazard needs few actors: a stale copy needs
one version of lag beyond the one the reconcile itself writes, a re-creation two
objects, a lost answer one fault, and a failure while reporting a failure two.
Neither controller keeps anything across keys, and its worker handles one at a
time, so one key shows what the runs are about; the theorems of section 5 hold for
any number. `Operator` checks what needs both controllers, with few failures, since
the runs of each have more: its bound on posts does not bind, for without an edit
or a failing save only a restart makes a second route. Its Domain asks for no MX check, so no MX
records are published (`ReceivingNames`). Four calls to the mock are what the longest hazard
takes: a registration, its double, a verification, and the deletion that moves the list
under it. In `Startup` two edits mend one source after breaking the other, and two deaths
kill the leader and its standby.

`OneAtATime` is the refinement of `MockAPI`, where a request takes one step. Between its two
writes a verification counts as done in the mapping (`Seen`): that nobody can look at the
state it leaves is just what the mutex has to give. `RunsAsConfigured` covers the edit between
the two reads: what a process runs with is then a mixture, but of one ConfigMap and one Secret
that were both there while it read, the Secret not the older one. An edit after the reads is not
seen at all, not even by a standby that leads hours later; nothing in the repository promises more.

`RoutesOfVerifiedDomains` is about the gap between `GetDomain` and the call that makes or
changes the route. The domain may be deleted in it, and the code makes the route all the same;
what it never does is to act on the answer of an earlier reconcile, or on none.

### Where the code does something else than the repository says

These runs end in a counterexample; each is a finding in `PROJECT.json`.

| Run | Statement | What the code does |
|---|---|---|
| `FinalizerDropped` | "should not remove finalizer if unable to remove domain from mailgun" (`domain_controller_test.go:315`) | an error of `GetDomain` counts as "already deleted" |
| `EndpointRetry` | "create external DNS records if they are not created yet" (`domain_controller.go:147`) | a DNSEndpoint that is there, with the flag not saved, makes every retry fail before the verification |
| `RouteUnrecorded` | "should create mailgun route correctly and store ID of record" (`route_controller_test.go:40`) | the id is stored after the route is made: an edit in between makes a second route, a deletion leaves the first behind |
| `RouteEditLost` | "should update route on mailgun" (`route_controller_test.go:186`) | an action replaced by another is no difference |

That is why `DomainSafety` and `DomainLiveness` let every call fail but
`delLookup`, and why `DomainLiveness` starts with the options it has: with
external DNS asked for from the start the domain that was registered by the
failed attempt makes the retry end as failed, and `VerificationEnds` holds; when
it is turned on later the retry has no end.

Deleting a Domain that is marked as not managed deletes the domain somebody made by
hand (`domain_controller.go:459`); the repository does not say that it should not,
and no run is about it. Nor is there one about two other observations of these models. An
edit of the spec during the creation makes the first save conflict, and the retry finds
the domain the operator itself registered and marks it as not managed
(`domain_controller.go:113`), though the comment in `domain_types.go:89` has
someone else create it. And a DNSEndpoint the cache does not show yet when the Domain is deleted
is left behind (`domain_controller.go:438`): the code notes the failure and goes on.

Three more hazards are left out of every run, each by a bound that is named. A
`DomainVerifyDuration` that is not positive turns the poll off (`domain_controller.go:220`): all
runs have a positive one. A `GetRoute` that fails before a deletion gives up the finalizer
(`route_controller.go:105`): the calls that fail are all but the lookups. And an
edit back to priority 0 or to no actions is never sent (`route_controller.go:193`):
`EditReachesMailgun` asks only for what an update can send.

## 4. Fairness

`FairSpec`, the same for both controllers and their composition, adds what the process does as long as it runs: the worker makes its
next call, informers deliver, timers fire (weak fairness), and `Dequeue(k)` is
strongly fair because the work queue is first in, first out: a key is not
passed over for ever, although it leaves and enters the queue, and although the
worker is busy in between. Users, publication of records, failures and
restarts are not fair: nothing obliges them, and the bounds on failures
and restarts say that they stop, without which no retry loop has to end.
`RequeueAfterVerify` needs a positive `DomainVerifyDuration`
(the default is 300 s).

In `MockServer` a goroutine that can go on does, and `Lock` is strongly fair: Go's mutex
hands itself over to a waiter that has waited for a millisecond. In `Startup` a process
goes on and the kubelet starts one that has ended (a Deployment restarts its containers);
a free lease is taken by some standby that keeps asking. Edits and deaths are not fair.

## 5. Proofs

TLAPS proves these for every set of keys, names, threads and pods, every assignment of
specs, every bound and, unless a hypothesis says otherwise, every set of failing calls.
Assumed are the typing of the constants, that `Nil` is none of the values, and what the
`ASSUME`s of the modules name (`ObjectsAssumption`, `StoreAssumption`,
`MailgunAssumption`, `ControllerAssumption`, their counterparts for Routes,
`OperatorAssumption`, `StartupAssumption`, and `MockAssumption`: a request is one that a
handler can be called with, `WellFormed`). Hypotheses that are more than typing are part of
the theorem and named. Each of them keeps out a behaviour of the code that breaks
the property, or one the property is not about:

| Hypothesis | Says | Without it |
|---|---|---|
| `Orderly` | no foreground deletion; `GetDomain` does not fail before a deletion; an edit does not rename the domain | a Domain deleted that way before it has the finalizer is still provisioned; run `FinalizerDropped`; the old name is left behind |
| `Apart` | `Orderly`; nobody handles the operator's names by hand; no two Domains share one | the second Domain deletes the domain of the first |
| `Settled` | `Apart`; an edit leaves the export alone | an export asked for after the creation is never made: the code makes it in `createDomain` |
| `DomainVerifyDuration > 0` | the retry of a verification is a later one | `RequeueAfter: 0` is no retry |
| `AnsweredOnDelete` | `GetRoute` does not fail before a deletion | the finalizer is given up with the route in place (line 105) |
| `AnsweredOnUpdate` | `GetRoute` does not fail before an update | an edit never reaches Mailgun (line 182) |

### Domain controller

- `TypeCorrect`: `Spec => []TypeOK`. `TypeOK` is not inductive: `Reconcile` reads
  `obj` only while it works, and `name` only while `obj` is an object.
  `TypeInv` adds that between `get` and the end of a reconcile `key` is a key and
  `obj` an object of the store's type.
- `CopyInvariance`: `CopyInv` adds `Synced` (the last version on its way to the
  informer is the stored one, and with none on its way the cache is the stored
  one) and `CopyOK` (while `fresh`, the copy agrees with the stored object in
  everything but the status). The worker's steps are sorted into three kinds
  (`Ending`, `Reading`, `GoingOn`), and the environment's by `OthersShape`, so
  that the invariant is proved over kinds of steps and not over 23 calls.
- `UserIntentSafe`: `Spec => UserIntentKept`, from `CopyInv`: what is stored by
  the worker comes from a copy that has the stored spec and deletion mark.
- `NoOrphans`: `Orderly => (Spec => []NoOrphanedDomain)`. The inductive
  invariant `OrphanInv` adds to `CopyInv`:
  `UidsOK`, `KnownOK` (every object that is stored, cached, on its way or in
  memory has a uid of its own key, and is marked as deleted only with the
  finalizer), `OwnersOK` (a domain is registered under the name of its object),
  `FinalizedOK` (a version that shows the finalizer and is not deleted belongs to a
  stored object that has it; without this a stale copy could be provisioned for an
  object that is gone), `ProvisionOK` (so nothing is registered without the
  finalizer), `DeleteOK` (while a deletion may save its copy, the informer holds
  nothing older, which is what makes `FinalizedOK` survive the removal) and
  `ReleasedOK` (the removal comes when nothing is registered for the object).
- `StateMovesForward`: `Spec => StatusMachine`, with people who meddle and without
  any hypothesis. `StatusInv` follows a status through a reconcile: `StepState` is the
  state of the copy at each call, `StepMark` its deletion mark, `StoredState` what is
  stored while the copy is `fresh`. Only the last allows to say what a save replaces.
- `ActivatedIsVerified`: `Spec => ActivationIsEarned`, from the same invariant:
  only a verification stores "activated", and what it saw is still so.
- `WakeupsNotLost`: with `DomainVerifyDuration > 0`, `Spec => []NoLostWakeup`. The
  property says that work left is seen by someone; the predicate lets updates pass
  unseen. `QuietFollows` is what bridges the two: if no version from some index
  on passes the predicate, the stored object still asks for all the work that version
  asked for (`Follows`, an order that chains). `WakeupInv` carries it, with
  `IdleKey`, over deliveries, saves, restarts and lost answers.
- `FlagIsHonest`: `Spec => []DnsFlagHonest`. `SeenInv` says that an object whose
  finalizer is saved is known to the informer (`AddCurrent`, `VersionsLive`), and that a
  deletion in memory is not of its successor; `FlagInv` adds that the
  flag comes after the finalizer and the DNSEndpoint.
- `LiveDomainsSafe`: under `Apart`, `Spec => LiveDomainNeverDeleted`, from `LiveInv`, which
  joins `OrphanInv` and `SeenInv`.
- `CredentialsUsable`: under `Settled`, `Spec => []UsableCredentials`: a live Domain that is
  created or activated has its domain at Mailgun, and its Secret holds that domain's password. `CredInv` says at which
  calls the copy in memory is served (`StepServed`) and that what is stored is
  (`StoredServed`), an old registration and its password included.
- `KeepsLifecycle`: under `Apart`, `Spec => Lifecycle!Spec`: the safety part of
  `ImplementsLifecycle`, for any lag, while that run allows for one version. `LifeInv` adds to
  `CredInv` that no version that may be provisioned comes after one that is deleted
  (`Ordered`), that the informer has none left while a deletion works (`DelSeen`), and
  that an object that was created has its domain as long as anyone may still take
  it for one to create (`StillHeld`). Each step is then one of the seven of `DomainLifecycle`
  or none: `IsStored` maps the writes of the store, `IsLifecycle` the calls to Mailgun.

### Route controller

- `TypeCorrect`: `Spec => []TypeOK`, and `CopyInvariance` as above; `StepOK` adds what
  the copy says at three calls.
- `IdsNameOwnRoutes`: `Spec => []RouteIDNamesOwnRoute`. `IdsInv` says of every version that
  is stored, cached, on its way or in memory that its uid is of its key (`UidsOK`), that
  its id is of a route made for that uid (`KnownOK`), and that a mark of deletion is not
  of the live object (`DeletedOK`); so no stale copy deletes its route (`HeldOK`).
- `IdsKept`: `Spec => RouteIDKept`, from `CopyInv`: a copy without the id is never stored over it.
- `ReleasedWhenGone`: with `AnsweredOnDelete`, `Spec => ReleasedRouteGone`.
- `WakeupsNotLost`: with `AnsweredOnUpdate`, `Spec => []NoLostWakeup`, as for Domains. Here a
  reconcile ends without a save when Mailgun has what the spec says, so `WakeupInv`
  also relates the copy to the stored Route (`CopyKnown`, `CopyFollows`).

### Both together

- `ImplementsDomains`: `OperatorSpec => Spec`, and `ImplementsRoutes`: `OperatorSpec => R!Spec`.
  The composition adds no behaviour to either: everything proved of the Domain controller
  holds beside the Route controller, and the Domain controller at Mailgun is
  one of the environments the Route controller was proved in.
- `RoutesKept`: `OperatorSpec => []R!RouteIDNamesOwnRoute`, for every set of failing calls of either
  controller, by the Route controller's own `IdsInv` (`RouteSide`).
- `RouteWakeupsKept`: with `AnsweredOnUpdate`, `OperatorSpec => []R!NoLostWakeup`, by its `WakeupInv`.
- `RoutesVerified`: `OperatorSpec => RoutesOfVerifiedDomains`, the property neither controller
  has alone. Between `GetDomain` and the POST other steps come, the domain's deletion
  included; `AskedOK` says what the answer leaves true of it (the name is in `seen`), `SeenStays`
  that a reconcile keeps what it has seen, and `MadeByWorker` that only the worker makes or changes a route.

### Mock server and start

- `TypeCorrect` and `HandlersExclude`, from `MockInv`: the thread that holds the mutex is
  the one inside a handler (`Exclusion`), and the index it has found, and its copy of
  a route, are still right when it uses them (`Findings`).
- `ActsOneAtATime`: `Spec => OneAtATime`, the refinement of `MockAPI`, for any number of
  threads and requests.
- `TypeCorrect` of the start: what has been read so far are maps of fields (`FieldsOf`).
- `RunsAsMeant`: `Spec => []RunsAsConfigured`, for any pods, fields, contents, edits and
  deaths, edits between the two reads included. `RunsAsConfigured` says nothing of a process that still
  reads; `StartInv` says what each has read so far, by some pair it is offered (`First`
  after the ConfigMap, `Both` after the Secret), `EditKeeps` that an edit never takes such a
  pair back, and `OverlayMeans` that the defaults under both sources are, field by field, what
  the sources mean. `OneProcess` carries the invariant over a step of one process.

### What stays with TLC

Every safety property of the passing runs is the subject of a theorem. Only
model-checked, because liveness, fairness and `ENABLED` are out of the prover's reach:
`Lifecycle!Ends` in `ImplementsLifecycle`, `VerificationEnds`, `PublishedGetsActivated`,
`RouteGetsCreated`, `EditReachesMailgun`, `RouteDeletionCompletes`, `RouteFollowsDomain`,
`EveryCallReturns` and `EventuallyRuns`. So are the counterexamples of section 3: a
theorem cannot show that something happens.

## 6. Not modelled, and the plan

Done in this order, the most important behaviour first: the Domain controller
with its store and Mailgun, its properties, its refinement, its theorems; the
Route controller with its store, Mailgun and properties; both in `Operator`; the mock
and the start; the theorems about all of them. Next:

`RouteLifecycle`, what a user is promised of a Route, and the refinement
`RouteController` satisfies once the lookups do not fail; its safety part can be proved
along `KeepsLifecycle`, from `WakeupInv` of `RouteProofs`.

Not planned:

- the content of DNSEndpoints: how `createExternalDNSEntity` groups records is a
  computation without state that the tests cover well;
- two managers that run at once (no leader election and two replicas): the
  manifests of the repository turn leader election on;
- `MailgunClient` (a choice of the API's address), flags, TLS, metrics, health
  checks, the utilities, generated code, manifests and scripts: no behaviour of their own
  that a model would add to.
