# A verification of the RancherCUBE API server

The RancherCUBE API server (`main.go`, `app/`) is one process that serves a REST
API and runs two Kubernetes controllers. This directory holds TLA+ modules that
model it, TLC runs that check them on small instances, and TLAPS proofs of the
properties that matter most. Paths below are relative to the repository.

## 1. The system

| Part | State it keeps | Operations | Interacts with |
|---|---|---|---|
| Start-up (`app/apiserver.go`, `backend/user.go`, `configmap.go`, `longhorn.go`, `ranchervm.go`) | resource definitions, the user cube-admin, the ConfigMap | `startAPIServer` | starts everything below |
| RSA key (`backend/secret.go`, `util/util.go`) | two files and a Secret | generate, read, save | other processes of the same deployment |
| Login and tokens (`api/insecure.go`, `api/router.go`, `backend/insecure`, `backend/provider`, `app/purge.go`) | Token objects | login, lookup by the middleware, logout, purge | informer caches, the User controller's results |
| Infrastructure API (`api/infra.go`, `backend/infra.go`, `service.go`, `common.go`) | the package variables `status`, `state`, `Service`, `configMap` | list, get, create, delete, base information | creates and deletes what the controller watches |
| Event streams (`api/baseinfo.go`, `api/cluster.go`) | a channel and a context per request | informer callbacks send, the handler writes to the client | informers |
| Cluster resources (`backend/cluster.go`) | none | sums over nodes and pods | API server |
| Work queue (`vendor/k8s.io/client-go/util/workqueue`) | queue, dirty and processing sets, waiting keys | Add, AddAfter, Get, Done, ShutDown | event handlers add, workers take |
| Infrastructure controller (`controller/infra_controller.go`) | nothing but the queue; reads caches, writes to the API server | two workers running `syncHandler`; handlers for Infrastructures and Deployments | API server, informers, garbage collector |
| User controller (`controller/user_controller.go`, `common.go`) | the same | the same for Users, Principals, ClusterRoles, ClusterRoleBindings | the same |
| Clients, impersonation, nodes, schemas, generated code | none | construct, read, convert | API server |

What is hard here is not in any one function. Everything a controller, a login or
a request reads is a cache that lags behind the API server; everything that is
written is one of several calls, any of which may fail, succeed without an answer,
or be the last before a crash; users, administrators and the garbage collector
write to the same objects in between; an error ends the attempt without a new one
being queued; and the handlers share package variables and channels without locks.

The properties that make each part correct:

- *Start-up and key*: after any failures and crashes the next clean start leaves
  everything in place; all processes sign with one matching key pair.
- *Tokens*: a request runs for the owner of its token, only while the token lives
  and before its deadline; every token that has expired is removed.
- *Infrastructure API*: an answer tells what its request has read; a request fails
  only for a reason, and ends.
- *Event streams*: a change reaches every client that stays, and what it is shown
  goes back only for a reason; a disconnect leaves no callback hanging, and ends
  the process only by a send that was already under way.
- *Cluster resources*: the sums are what the listed pods need.
- *Work queue*: a key is in at most one worker's hands, and no add is lost.
- *Infrastructure controller*: the deployment comes after what it needs; a status
  write undoes nobody's change; an Infrastructure that stays gets its deployment,
  its replicas and a true status; one that is deleted leaves nothing behind.
- *User controller*: a User reported as synced has its own principal, role and
  binding; writing `PrincipalIDs` undoes nobody's change; a User that stays gets
  its rights.

`PROJECT.json` lists the hazards, each at its line, with the properties that
would catch it, or with a note that says why none does.

## 2. Modules

```
PendingWork <= WorkQueue ──┬── InfraController ── MCInfra
                 │         │        └── InfraControllerProofs
                 │         └── UserController ── MCUser
                 │                  └── UserControllerProofs
                 ├─ MCWorkQueue
                 └─ WorkQueueProofs (extended by the proofs of both controllers)

TokenLife <= TokenService ──┬── MCToken       Startup ──┬── MCStartup
                            └── ...Proofs               └── ...Proofs
EventStream ──┬── MCStream                    InfraApi ──┬── MCInfraApi
              └── ...Proofs                              └── ...Proofs
ClusterResources ──┬── MCCluster
                   └── ...Proofs              (A <= B: B is shown to implement A)
```

**WorkQueue** models `queue.go`, `delaying_queue.go` and `rate_limitting_queue.go`
with the workers that use them. Its actions constrain the queue's variables only;
a controller conjoins them with what it does to its own. Time is abstracted to
order: a waiting key may become ready at any later moment, so the failure counter
of the limiter, which only sets the length of the delay, is left out.
**PendingWork** is what the controllers rely on: a key that was asked for stays
pending until a worker takes it, and is with one worker at a time.

**InfraController** composes the queue with the controller.

| Model | Code |
|---|---|
| `infra`, `dep`, `prereq`, `lives` | what the API server stores: the Infrastructure of each kind, the deployment with its name, the owner of every other object; how many Infrastructures of the kind there were (their UIDs) |
| `infraCache`, `depCache`, `svcCache` and `...Ev` | the listers, and the watch events not yet applied to them |
| `pc`, `step`, `snap`, `view`, `healthy`, `failed` | each worker's place in `syncHandler` and its local variables |
| `DeliverInfra`, `DeliverDep`, `DeliverSvc`, `Resync` | the informers and the handlers of `NewInfraController` |
| `processNextWorkItem`, `FinishWorkItem` | `processNextWorkItem`, before and after `syncHandler` |
| `LookupInfra`, `LookupDeployment`, `Judge` | `syncHandler` up to the choice between create, update and status |
| `bundleCreate`, `bundleUpdate` and the sequences they select | the create and update functions: which objects, in which order |
| `EnsureNamespace`, `CreatePrerequisite`, `CreateDeployment`, `updateDashboard` | their calls, one step each |
| `detectService`, `InfraCopy`, `updateInfra` | `updateInfra` |
| `Stop`, `Restart` | the end of `Run`; a crash at any point and the next start |
| `InfrastructureDeploy`, `InfrastructureDelete` | `backend/infra.go` |
| `Scale`, `AvailabilityChanges`, `Admin...`, `Collect...`, `Accepts`, `Store` | outside the repository: clients, the cluster, the garbage collector, optimistic locking |

A call that fails may have been carried out. An update needs the stored UID and
resource version. The generated clients return an empty object beside an error,
which is why `AlreadyExists` yields a deployment nobody owns. An object is its
owner's UID; templates, images and ports are left out. What the collector does to
a cluster-scoped object (`ClusterScoped`) with a namespaced owner is not defined:
it may take one whose owner is gone, and need not.

**UserController** has the same shape. `Rights` is the order principal, role,
binding; an object is the UID of its owner; a UID is a position in `born`, so the
owner's name is known to `handleObject`. `GetRight` holds the panic of
`generateClusterRole`, which returns nil without an error when the role exists.

**Startup** is `startAPIServer` up to the router, run by several processes at once
(a rolling update): they share the API server and not their files. `crds`,
`served`, `admin`, `config` and `secret` are what the API server stores, `priv`
and `pub` the two key files. A key pair is the number of its generation; a file
that was opened and not written is `Torn`. `GetSecret`, `CheckRSAKeyFileExist`,
`OpenPrivateKey` ... `CreateSecret` are `GetRSAKey` and `GenerateRSA256`, one step
for each call and each half of a file write.

**TokenService** has one action for each step of a login (`AuthenticateUser`,
`CheckAccess`, `EnsureUser`, `CreateToken`, `UpdateToken`), `Request` for the two
middlewares, `Logout`, and `PurgeStarts` and `PurgeToken` for the daemon. `user`,
`principal` and `cache` are informer caches; `tok` gives each token ever created
its fields, `store` says which of them the API server has, `held` which of them a
client can send. `answer` is the last answer, with whom the request ran for. The
clock counts seconds, the unit of the claims, so two logins in one second with one
lifetime get the same key. **TokenLife** is the promise to a holder: a token works
for its owner, while it lives and until its deadline, and never comes back. A
token lives from its creation until it is gone from the store and the cache.

**EventStream** has the two handlers and their callbacks, one goroutine for each
handler and informer. `conn` is where a handler is, from the first answer over the
registration and the loop to `cancel` and `close`; `cb`, `queue` and `msg` are a
callback, its notifications and the answer it has made. A resource is a version
number, an answer the versions it was made from.

| Model | Code |
|---|---|
| `at`, `pos`, `got`, `made` | a call of `BaseInfoGet` (`backend/infra.go`), made by the handler or by its callback, and its local variables |
| `infos` | the package variables `status` and `state`, which are written and read together, as one map: the version read for each kind, 0 for no entry and for the "False" of a failed Get |
| `GetConfigMap`, `AssignConfigMap` | `getConfigMapInfo`: the test of `configMap` and the assignment are two steps, between which another caller may assign it |
| `ResetMaps`, `GetInfra`, `GetInfraFails`, `checkStatus`, `BuildAnswer` | `statusGet`, with one Get and one entry at a time, and the loop that copies the maps into the answer |
| `MapConflict`, `ConcurrentMapAccess` | two callers in a map, one of them writing: both orders are taken, and the runtime may end the process |
| `Others` | callers of `BaseInfoGet` whose own streams do not matter: other clients of the maps |
| `Started` | the informers that run. The one of the component statuses is asked for in `ClusterList` (`api/cluster.go:58`), after the only `InformerFactory.Start` (`app/apiserver.go:145`), and never runs: its callback is registered and never told of anything |
| `CheckContext`, `BeginSend`, `Receive`, `SendPanics` | the `select` on `ctx.Done()`, the send after it, its end in the loop of the handler, and its end on a closed channel. Between any two of them the handler may `Cancel` and `Close` |

`alone` (nobody else was in the maps during the call), `lost` (one of its Gets
failed or had no name) and `late` (the notification was taken after the cancel)
are history that only properties read. `InformerFactory.Start` is called in a
goroutine beside the web server; a request for `ClusterList` that is served before
that goroutine runs would have its informer started after all, and is left out.
The return of a callback after an error of `BaseInfoGet` is left out too: only a
failed lookup of the ConfigMap is such an error, and the handler that registered
the callback has found the variable set.

**InfraApi** takes one step for each access to a package variable and each call;
in `ConfigMapDeploy` the Create and the Get after `AlreadyExists` are two, since
the ConfigMap may be deleted in between, which is an error of the request.
`configMap`, `status`, `state` and `Service` have the names of the code. Two
goroutines that use a map at the same time go on in either order, or
`ConcurrentMapAccess` ends the process. `alone`, `setBy`, `failed` and parts of
`req` are history that only properties read. With an empty ConfigMap every name
looked up in it is empty, and every call with it is refused.

**ClusterResources** has the arithmetic of `addMap`, `addMapForInit`, `getPodData`
and the aggregation as operators (folds over the containers and pods), inside the
call that lists nodes and then the pods of each. A quantity is a natural number;
`Resources` are the resources a container may ask for.
The reference definition of what a pod needs (`Needs`) uses sums and maxima only.

Definitions whose comment starts with "Mutant of" are never used by a
specification; each is a plausible error that a property must catch.

## 3. Runs

| Run | Question |
|---|---|
| `work_queue` | Three keys, two workers: mutual exclusion, no lost add; does the queue implement `PendingWork`? |
| `infra_safety` | Any kind, two workers, disturbed by a failed call, a crash, a stop, or an administrator who deletes and replaces the deployment: are the prerequisites always there first, does a status write undo a scaling, is a deployment seen to be foreign left alone? |
| `infra_converges` | A Dashboard after a failed call and a crash, or deleted and deployed again under a slow worker: deployment, replicas and status; nothing left of a deleted one |
| `user_shared_principal` | Two Users that claim one principal, two workers: is only one reported as synced? |
| `user_converges` | An edit, a failed call, a removed object, a crash and panics; a User created again; an intrusion and a stop: does the User get its rights, is the edit kept? |
| `startup` | Two processes with a failed call, a crash (with or without loss of the files) and an edit of cube-admin: one key pair, a start that completes, an admin that is kept |
| `tokens` | Logins, requests, logouts and purges by two users over a lagging cache; does the service implement `TokenLife`? |
| `event_stream` | A stream of either kind beside another caller of `BaseInfoGet`, two changes, a failed call or a resync, a disconnect at any moment: are changes shown, can an answer go back, what ends the process? |
| `infra_api` | Two concurrent requests of any kind over two infrastructures, with a failed call or a deleted ConfigMap |
| `cluster_resources` | Two nodes, pods with and without init containers and with clashing names, two changes or failures during the call |
| `infra_bundle_gap` (violated) | After delete and deploy, an object of the predecessor counts as created, is collected, and is never made again |
| `user_panic` (violated) | A second sync before the role is in the cache ends the process |

What the properties of the newer runs say of the code, in its own terms:

- *startup.* `OneKeyPair` and `Recovers` hold because `Create` of the secret decides
  which process wins and the others end and start again. `Recovers` excludes one
  case on purpose: a crash in the middle of writing `id_rsa.pub` leaves a torn file
  that counts as present, reaches the secret, and stops every later start.
  `CleanStartCompletes` asks that Users were served before the start began: on a
  fresh cluster `InitCubeAdmin` may come too early and its error is dropped.
- *tokens.* `RunsForOwner` needs the comparison of the token's name, for keys are
  not unique. A lookup that finds two tokens with the same key answers 404, so
  both holders are locked out until one of them is purged, and a logout in that
  state reports success and removes nothing. `EveryTokenPurged` covers the tokens
  whose update failed. A lifetime of zero is never purged, and works for the
  current second only.
- *event_stream.* The streams have flaws that no order of steps avoids, and the
  properties say what is left. A send that was past its look at the context when
  the client left ends the process, and so may a conflict over the maps:
  `PanicHasCause` says that there is no third way, and in particular that the
  callbacks, which outlive their handler, do no harm once it has cancelled. What a
  client is shown of an infrastructure goes back when a Get fails (it is shown as
  "False") or when another call was in the maps: `BaseInfoGoesForward` says that
  it does so in no other case. `SendEnds`, that a callback does not block for ever
  on the unbuffered channel, has two ways out: the loop takes the answer, or the
  close ends the process. `ChangeShown` speaks of changes that a running informer
  learns of after the registration, when no call fails any more; one between the
  first answer and the registration is shown with the next. Changes of the
  component statuses are never shown, for nobody starts their informer. The stream
  of the cluster is shown the first answer of the resource that did not change.
- *infra_api.* `AloneIsExact` and `ErrorHasCause` say what a request may rely on
  without a lock. `ConfigSettles`: once assigned, the ConfigMap stays what it is,
  and that includes an empty one after a failed first Get, with which every later
  request is refused until the process ends. None of these properties excludes the
  empty ConfigMap, a failed Get shown as "False", the Service of an earlier request
  in an answer, or mixed answers of requests that meet; the code does all of it.
- *cluster_resources.* Of two pods with one name on a node both are counted and
  only one contributes its requests, so sums may be too small and are never too
  large. `CalmIsWhole` asks that no call failed and nothing changed; a node whose
  pods cannot be listed is left out of every sum.

Disagreements between comments and code that are part of the models and have no
run of their own:

- an error of `syncHandler` does not put the key back on the queue
  (`infra_controller.go:189` and `:268` say that it does); `FinishWorkItem` never
  adds the key, and the liveness runs show that the resync is enough;
- `Run` does not wait for its workers (`infra_controller.go:139`); after `Stop` a
  worker goes on, and the process may end at any point of it;
- scaling Longhorn or RancherVM never reaches the deployment
  (`infra_controller.go:283` says "we should update the Deployment resource"):
  their update functions create; `ReplicasConverge` is checked for the Dashboard;
- after scaling RancherVM the status comes from the empty deployment that the
  client returns beside `AlreadyExists` (`infra_controller.go:298`);
- an update that rests on a cached deployment overwrites one that was put in its
  place since (`infra_controller.go:1638`, no resource version), which is why
  `SeenForeignKept` speaks of what the worker has seen;
- an event for a ClusterRole or binding never finds its User
  (`user_controller.go:498`); `handleObject` looks in an empty namespace;
- `EnsureUser` never creates a user, for `CheckUserCache` never returns nil;
- `ClusterList` registers for changes of the component statuses
  (`api/cluster.go:58`) with an informer that is made there, after the factory was
  started, and that nobody starts.

**Bounds.** A budget says how often each event outside the program's control may
happen; the controllers take a set of budgets, each a scenario of events that may
meet in one behaviour. One of each is enough for the properties at hand, because
each needs one disturbance at the worst moment, and two deployments are enough
for a successor to meet its predecessor's objects. Where a run has all three kinds
the one deployment may be of any of them; the kinds share nothing but the queue,
which has a run of its own with three keys. `MaxLag = 1` stops the garbage
collector from running ahead of the informers without end; it bounds only the
collector. The collector takes the objects of an Infrastructure in one order: no
step of the controller depends on which of them are there except the watched
service. Two replica counts suffice to differ. Two workers matter for the queue
and for two Users; with one key the second worker only waits, so the liveness runs
use one.

Two processes are enough in `startup` for a race, and one crash for any torn state;
a second process and the restarted one meet what the first left. In `tokens` two
tokens suffice for a shared key and two seconds for a lifetime to end; one login
at a time is under way, since logins share nothing but the store, in which a
finished one and a new one already meet. In `event_stream` two changes let a
second answer overtake or follow a first, and the two infrastructures give
`statusGet` a first and a last; the streams share the maps only, so one client at
a time and one other caller (`Others`) meet in every way a pair can. A budget of
one is spent on a failed call, on an update without a change, or on the other
caller. In `infra_api` two requests show every
conflict of a pair, and two kinds give `statusGet` a first and a last one; more of
either repeat the same steps.

Deadlock is checked in `work_queue` only: in the other runs the system rests when
every budget is spent and nothing is left to do. `infra_safety` and
`user_shared_principal` use the symmetry of the workers, which no definition tells
apart; no run with a liveness property uses symmetry.

**Fairness.** The informers deliver, a delay expires, the resync period (30s in
`backend/client.go`) keeps expiring, a worker takes a queued key, a sync goes on,
and for Infrastructures the garbage collector takes what is left in a namespace
(`CollectNamespaced`). No user, administrator, failure or restart is forced to
happen. In `UserController` nothing restarts the
process after a panic, since the repository holds no supervisor; the liveness
property asks for a process that in the end stays up. The collector gets no
fairness there, nor in `InfraController` for the role and the binding of an
Infrastructure, which are cluster-scoped: what it does to such an object with a
namespaced owner is not defined. `NoOrphans` is about the others. In `Startup` a process that ended is started again, as its
Deployment does. In `TokenService` time passes, the informer delivers and the
daemon goes on (`wait.JitterUntil`); no login has to proceed. In `EventStream`
the handlers, the callbacks, the calls of `BaseInfoGet` they make and the informers
that were started go on; no client has to come or leave, no resource has to change,
and the other callers of `BaseInfoGet` need not go on. In `InfraApi` a call returns and `syncService` counts its rounds; no
Service has to appear, and the service informer is taken to have synced.

## 4. Proofs

Every safety property of the passing runs is proved. The theorems hold for any number of keys, workers, processes, users, tokens,
requests, clients and nodes, and for any budgets, under the assumptions named in
the modules. These are the types of the constants; that the values standing for
"none" and "somebody else" differ from the others (`NoKey`, `Foreign`, `Torn`,
`NoUser`, `None`, `Unknown`); that a clock can tick (`MaxTime` is at least 1); that
the list of kinds of the Infrastructure API is not empty and has no kind twice, as
`statusGet` has it; and, of what the API server admits, that a pod is on one of the
nodes and that its containers request quantities of resources, pods not being one
of these (`PodsAssumption`, `ResourcesAssumption`). TLC evaluates them in the runs, and the inductive
invariants were checked with TLC on the instances of the runs before the proofs.

- `WorkQueueProofs`: `QTypeCorrect`, `QueueCorrect` and `QueueRefinesPendingWork`.
  `QueueInv` is inductive together with the types: mutual exclusion needs that
  queued keys are not in processing, that the keys in processing are the held
  ones, and that the queue has no duplicates. The refinement maps the pending keys
  to those that are dirty or waiting; it needs the invariant in one place, that a
  key taken from the queue is in nobody's hands.
- `InfraControllerProofs`: `QueueCorrectInController` (the controller uses the
  queue only through its operations; a restart makes a new one), `TypeCorrect`
  (with `WorkersHold`: a worker in `syncHandler` holds a key), `SyncInvariant`, and
  three safety properties, none of them inductive. `StatusWriteSafe` rests on
  `CopiesAreOld`: every copy in a cache, an event or a worker is a version of
  the stored Infrastructure or of a predecessor, and only the current version
  carries the current number. `PrerequisitesBeforeDeployment` rests on
  `BundleInOrder`: while the first Infrastructure of a kind lives nothing it owns
  disappears, so what a worker has passed is there, and a deployment seen anywhere
  means that all is there; `OwnersKnown` gives that an owner is an Infrastructure
  that existed. `ForeignDeploymentsKept` rests on `SeenOwn`, that a worker in an
  update function keeps a copy of a deployment that its Infrastructure owned, and
  on going through every write to a deployment: only `updateDashboard` puts one in
  the place of another.
- `UserControllerProofs`: `TypeCorrect`; `UpdateKeepsUser`, from the same
  `CopiesAreOld` argument; `SyncedMeansRights`, from `RightsHeld`: an object that
  was ever seen, in a cache, an event or by a worker, to belong to a User is there
  while the User lives and no administrator interferes. So what a worker has
  passed still holds when it reports the User, and as an object has one owner, two
  Users with one principal are never both reported.
- `StartupProofs`: `TypeCorrect`; `EditedAdminStays`; `ServersShareOneKeyPair`. A
  process overwrites its files in one order, so a public key is absent, torn or
  that of the private key beside it (`FilesInOrder`); the secret is created once,
  from such a pair (`SecretFromFiles`); what a process has in hand comes from its
  files (`PairInHand`); and it serves only with what the secret holds
  (`ServesSecret`).
- `TokenServiceProofs`: `TypeCorrect`, `RequestsRunForOwner`,
  `TokensRemovedForAReason`, and `ServiceKeepsPromise`, the refinement of
  `TokenLife` with its steps matched one by one. The invariant says of a login
  under way and of a token what the code never writes down: the principal is the
  one of the name that logged in or empty, the user is that principal or empty,
  and the key expires one lifetime after it was issued.
- `InfraApiProofs`: `TypeCorrect`, with what a request has settled by the time it
  is where it is (`Located`); `ErrorsHaveCauses`, with the errors on their way;
  `ConfigMapSettles`; `AnswersOfTheAlone`, which needs that a request that counts as
  alone shares `statusGet` with nobody (`AloneInside`), that the shared maps hold
  what it has read up to its position in the list of kinds, and its answer what it
  has copied from them so far (`Exact`), and whose the variable `Service` is
  (`Owned`).
- `EventStreamProofs`: `TypeCorrect`, with the positions of handlers and callbacks
  and the fact that a stream makes one call of `BaseInfoGet` at a time (`Serials`).
  `EndHasCause` (`PanicHasCause`) rests on `LateOK`: a callback that took its
  notification after the cancel is at the latest before its look at the context,
  which stays cancelled. `BaseInfoForward` (`BaseInfoGoesForward`) rests on three
  facts: nothing that was read, stored or made is newer than the resource
  (`NoNewer`); a call that still counts as alone is the only one in the maps
  (`AloneInside`); and such a call, if none of its Gets failed, has read, entered
  and copied, up to where it is, versions as new as what its client is shown
  (`AsNews`), wherever the answer is on its way to the client.
- `ClusterResourcesProofs`: `CalmAnswersAreWhole` and `AnswersNeverOverstate`. For
  the first, the rows and the counted pods are those of the nodes that are done
  (`Covered`), and no pod runs on a node that is not there; the sums over the rows
  and over the cluster are sums of the same function, so nothing about sums is
  needed. For the second, much is: `addMap` adds the quantities of each resource
  and `addMapForInit` maximises them (`AddMapAdds`, `AddMapForInitMaximises`), so
  the folds of `getPodData` give what the pod needs by definition
  (`PodDataIsNeeds`), and the aggregation over `podsData`, in any order, gives at
  most the sum over the node's pods, and exactly that sum when no name occurs
  twice (`AggregateIsRight`). The invariant (`RowsOK`) says that each row is right
  about the counted pods of its node, that no node is listed twice and that no pod
  is counted whose node has no row; adding up the rows is then adding up the parts
  of a partition (`SumOverNodes`). A fold is treated as a function on the subsets
  of its index set: that one exists (`FoldExists`), that it is the only one
  (`FoldUnique`) and that a sum does not depend on the order (`AddsAny`) follow by
  induction on the strict subsets of a finite set (`SubsetInduction`), which the
  library has as a fact about sets and not about operators.

`PrerequisitesFirst` speaks of the first Infrastructure of a kind on purpose: for
a successor it is false, as `infra_bundle_gap` shows.

Only model-checked: all liveness properties (fairness and `ENABLED` are out of the
prover's reach), and the two expected violations.

## 5. Not modelled, and the plan

Not modelled for good: the construction of clients and impersonation, node reads,
the schemas and conversions of `api/model.go` other than
`toInfrastructureResource`, generated code, cryptography, HTTP itself, the
contents of templates and definitions, and code no route reaches
(`SearchPrincipals`, `GetPrincipal`, `checkLabels`).

What is left: the composition of `InfraApi` with `InfraController`, in place of
the external actions `Report`, `ServiceAppears` and `ServiceGone`.
