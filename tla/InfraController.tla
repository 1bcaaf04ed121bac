--------------------------- MODULE InfraController ---------------------------
(***************************************************************************)
(* The Infrastructure controller (controller/infra_controller.go): two     *)
(* workers that take the key of an Infrastructure from the work queue,     *)
(* create the bundle of objects that its kind needs, scale the deployment  *)
(* and write the status back.                                              *)
(*                                                                         *)
(* The module keeps three kinds of state:                                  *)
(*   - what the Kubernetes API server stores (external), which survives a  *)
(*     crash of this program;                                              *)
(*   - the informer caches and the watch events not yet applied to them;   *)
(*   - the local variables of each worker's syncHandler.                   *)
(* Every read of a cache and every call to the API server is a step of its *)
(* own, so any other process may run between two of them.                  *)
(*                                                                         *)
(* One Infrastructure exists per kind, in its own namespace and with the   *)
(* name that its deployment has too, so a key is its kind.  The namespace  *)
(* exists whenever the Infrastructure does; only the failure of the call   *)
(* that ensures it matters.                                                *)
(***************************************************************************)
EXTENDS WorkQueue

CONSTANTS
    Replicas,   \* the values spec.replicas takes
    Foreign,    \* the owner of an object that no Infrastructure owns
    Budgets,    \* how often events outside the program's control happen together
    MaxLag      \* bound on the events the garbage collector may leave undelivered

Kinds == {"Dashboard", "Longhorn", "RancherVM"}

Costs == {"deploy", "delete", "scale", "avail", "admin", "fault", "crash", "stop"}

ASSUME KeysAreKinds == Keys \subseteq Kinds
ASSUME ReplicasAssumption == Replicas \subseteq Nat /\ 1 \in Replicas
ASSUME ForeignAssumption == Foreign \notin Nat
ASSUME BudgetAssumption == Budgets \subseteq [Costs -> Nat]
ASSUME MaxLagAssumption == MaxLag \in Nat \ {0}

VARIABLES
    infra,      \* API server: the Infrastructure of each kind
    lives,      \* API server: how many Infrastructures of the kind there were
    prereq,     \* API server: the owner of each object the deployment needs
    dep,        \* API server: the deployment named after the Infrastructure
    infraCache, depCache, svcCache,     \* what the listers return
    infraEv, depEv, svcEv,              \* watch events not yet delivered
    pc,         \* where each worker is in syncHandler
    step,       \* the position in the create or update function
    snap,       \* the local variable infra
    view,       \* the local variable deployment
    healthy,    \* what detectService returned
    failed,     \* syncHandler returns an error
    running,    \* Run has not returned
    spent       \* how often each event has happened

storeVars == <<infra, lives, prereq, dep>>
cacheVars == <<infraCache, depCache, svcCache>>
eventVars == <<infraEv, depEv, svcEv>>
syncVars == <<pc, step, snap, view, healthy, failed>>
vars == <<queueVars, storeVars, cacheVars, eventVars, syncVars, running, spent>>

NoInfra == [uid |-> 0, rv |-> 0, replicas |-> 0, avail |-> 0, state |-> "",
            message |-> ""]
NoDep == [owner |-> 0, replicas |-> 0, avail |-> 0]

-----------------------------------------------------------------------------
(* The objects each create function makes, in its order, before the        *)
(* deployment that carries the name of the Infrastructure.                 *)

(* The secret, the service account and its permissions. *)
DashboardAccess ==
    <<"secret", "serviceAccount", "role", "roleBinding", "clusterRoleBinding">>

createDashboard == DashboardAccess \o <<"frontendService">>

LonghornAccess == <<"serviceAccount", "clusterRole", "clusterRoleBinding">>

LonghornBackend == <<"managerDaemonSet", "backendService">>

createLonghorn ==
    LonghornAccess \o LonghornBackend \o <<"frontendService", "driverDeployment">>

RancherVMAccess == <<"serviceAccount", "clusterRole", "clusterRoleBinding">>

RancherVMBackend == <<"ipDaemonSet", "backendService", "frontendService">>

createRancherVM ==
    RancherVMAccess \o RancherVMBackend \o
        <<"controllerDeployment", "backendDeployment">>

(* The objects each update function CREATES before it returns or comes to  *)
(* the deployment.                                                         *)
updateLonghorn == <<"driverDeployment">>

updateRancherVM == <<"controllerDeployment", "backendDeployment">>

Objects ==
    {"secret", "serviceAccount", "role", "roleBinding", "clusterRole",
     "clusterRoleBinding", "managerDaemonSet", "ipDaemonSet", "backendService",
     "frontendService", "driverDeployment", "controllerDeployment",
     "backendDeployment"}

bundleCreate ==
    [Dashboard |-> createDashboard, Longhorn |-> createLonghorn,
     RancherVM |-> createRancherVM]

bundleUpdate ==
    [Dashboard |-> << >>, Longhorn |-> updateLonghorn,
     RancherVM |-> updateRancherVM]

(* Mutant of Creates: syncHandler calls bundleCreate and bundleUpdate the  *)
(* wrong way round.                                                        *)
CreatesSwapped(w) ==
    IF pc[w] = "create" THEN bundleUpdate[holding[w]] ELSE bundleCreate[holding[w]]

(* What syncHandler of worker w creates before the deployment, on the way  *)
(* it has taken.                                                           *)
Creates(w) ==
    IF pc[w] = "create" THEN bundleCreate[holding[w]] ELSE bundleUpdate[holding[w]]

Needs(k) == {bundleCreate[k][i] : i \in 1 .. Len(bundleCreate[k])}

-----------------------------------------------------------------------------
(* Init: the program has just been started in a cluster without            *)
(* Infrastructures.                                                        *)
Init ==
    /\ QInit
    /\ infra = [k \in Keys |-> NoInfra]
    /\ lives = [k \in Keys |-> 0]
    /\ prereq = [k \in Keys |-> [o \in Objects |-> 0]]
    /\ dep = [k \in Keys |-> NoDep]
    /\ infraCache = infra
    /\ depCache = dep
    /\ svcCache = [k \in Keys |-> FALSE]
    /\ infraEv = [k \in Keys |-> << >>]
    /\ depEv = [k \in Keys |-> << >>]
    /\ svcEv = [k \in Keys |-> << >>]
    /\ pc = [w \in Workers |-> "idle"]
    /\ step = [w \in Workers |-> 0]
    /\ snap = [w \in Workers |-> NoInfra]
    /\ view = [w \in Workers |-> NoDep]
    /\ healthy = [w \in Workers |-> FALSE]
    /\ failed = [w \in Workers |-> FALSE]
    /\ running = TRUE
    /\ spent = [c \in Costs |-> 0]

Spend(c) ==
    /\ spent' = [spent EXCEPT ![c] = @ + 1]
    /\ \E b \in Budgets : \A d \in Costs : spent'[d] <= b[d]

-----------------------------------------------------------------------------
(* The API server.  Each write to an object is followed by a watch event.  *)

PutInfra(k, i) ==
    /\ infra' = [infra EXCEPT ![k] = i]
    /\ infraEv' = [infraEv EXCEPT ![k] = Append(@, i)]

PutDep(k, d) ==
    /\ dep' = [dep EXCEPT ![k] = d]
    /\ depEv' = [depEv EXCEPT ![k] = Append(@, d)]

(* Only the frontend service is watched by an informer the controller uses. *)
PutPrereq(k, o, u) ==
    /\ prereq' = [prereq EXCEPT ![k][o] = u]
    /\ svcEv' = IF o = "frontendService"
                THEN [svcEv EXCEPT ![k] = Append(@, u # 0)] ELSE svcEv

(* InfrastructureDeploy: the handler behind POST /infrastructures creates  *)
(* the Infrastructure with one replica.  AlreadyExists changes nothing.    *)
(* The wait for the service that follows changes nothing kept here.        *)
InfrastructureDeploy(k) ==
    /\ Spend("deploy")
    /\ infra[k] = NoInfra
    /\ lives' = [lives EXCEPT ![k] = @ + 1]
    /\ PutInfra(k, [NoInfra EXCEPT !.uid = lives[k] + 1, !.rv = 1, !.replicas = 1])
    /\ UNCHANGED <<queueVars, prereq, dep, cacheVars, depEv, svcEv, syncVars, running>>

(* InfrastructureDelete: the handler behind DELETE /infrastructures.  The  *)
(* objects it owned are left to the garbage collector.  The engine         *)
(* DaemonSets it deletes first for Longhorn are made by Longhorn itself    *)
(* and are not kept here.                                                  *)
InfrastructureDelete(k) ==
    /\ Spend("delete")
    /\ infra[k] # NoInfra
    /\ PutInfra(k, NoInfra)
    /\ UNCHANGED <<queueVars, lives, prereq, dep, cacheVars, depEv, svcEv, syncVars,
                   running>>

(* Somebody edits spec.replicas. *)
Scale(k, n) ==
    /\ Spend("scale")
    /\ infra[k] # NoInfra
    /\ n # infra[k].replicas
    /\ PutInfra(k, [infra[k] EXCEPT !.replicas = n, !.rv = @ + 1])
    /\ UNCHANGED <<queueVars, lives, prereq, dep, cacheVars, depEv, svcEv, syncVars,
                   running>>

(* The cluster starts or loses pods of the deployment. *)
AvailabilityChanges(k, n) ==
    /\ Spend("avail")
    /\ dep[k] # NoDep
    /\ n # dep[k].avail
    /\ PutDep(k, [dep[k] EXCEPT !.avail = n])
    /\ UNCHANGED <<queueVars, infra, lives, prereq, cacheVars, infraEv, svcEv, syncVars,
                   running>>

(* An administrator deletes the deployment, or puts one of his own in its  *)
(* place.                                                                  *)
AdminDeletes(k) ==
    /\ Spend("admin")
    /\ dep[k] # NoDep
    /\ PutDep(k, NoDep)
    /\ UNCHANGED <<queueVars, infra, lives, prereq, cacheVars, infraEv, svcEv, syncVars,
                   running>>

AdminCreates(k) ==
    /\ Spend("admin")
    /\ dep[k] = NoDep
    /\ \E n \in Replicas : PutDep(k, [NoDep EXCEPT !.owner = Foreign, !.replicas = n])
    /\ UNCHANGED <<queueVars, infra, lives, prereq, cacheVars, infraEv, svcEv, syncVars,
                   running>>

(* The garbage collector may remove an object whose owner is gone, at any  *)
(* later time.  It goes through the objects in their order of creation: no *)
(* step of the controller depends on which of them are there, except for   *)
(* the watched service.  It never runs more than MaxLag events ahead of    *)
(* the informers.                                                          *)
Dangling(k, u) == u \notin {0, infra[k].uid, Foreign}

(* Infrastructures are namespaced, and what the collector does to an       *)
(* object without a namespace that names one as its owner is not defined:  *)
(* it may leave it there, and goes on with the others.                     *)
ClusterScoped == {"clusterRole", "clusterRoleBinding"}

CollectPrereq(k, i) ==
    /\ Dangling(k, prereq[k][bundleCreate[k][i]])
    /\ \A j \in 1 .. i - 1 :
        Dangling(k, prereq[k][bundleCreate[k][j]]) => bundleCreate[k][j] \in ClusterScoped
    /\ Len(svcEv[k]) < MaxLag
    /\ PutPrereq(k, bundleCreate[k][i], 0)
    /\ UNCHANGED <<queueVars, infra, lives, dep, cacheVars, infraEv, depEv, syncVars,
                   running, spent>>

CollectDep(k) ==
    /\ Dangling(k, dep[k].owner)
    /\ Len(depEv[k]) < MaxLag
    /\ PutDep(k, NoDep)
    /\ UNCHANGED <<queueVars, infra, lives, prereq, cacheVars, infraEv, svcEv, syncVars,
                   running, spent>>

-----------------------------------------------------------------------------
(* The informers and the event handlers of NewInfraController.             *)

(* Mutant of enqueueInfra: no return after an error of the key function, so *)
(* the zero value of the key is queued.                                     *)
enqueueInfraZeroKey(k) == k \in Keys /\ AddRateLimited(NoKey)

enqueueInfra(k) == AddRateLimited(k)

(* handleObject: the owner is looked up by name, never by UID. *)
handleObject(k, d) ==
    IF d.owner # Foreign /\ infraCache[k] # NoInfra
    THEN enqueueInfra(k) ELSE UNCHANGED queueVars

(* There is no DeleteFunc for Infrastructures. *)
DeliverInfra(k) ==
    /\ infraEv[k] # << >>
    /\ infraCache' = [infraCache EXCEPT ![k] = Head(infraEv[k])]
    /\ infraEv' = [infraEv EXCEPT ![k] = Tail(@)]
    /\ IF Head(infraEv[k]) = NoInfra THEN UNCHANGED queueVars ELSE enqueueInfra(k)
    /\ UNCHANGED <<storeVars, depCache, svcCache, depEv, svcEv, syncVars, running, spent>>

(* DeleteFunc is given the last known object. *)
DeliverDep(k) ==
    /\ depEv[k] # << >>
    /\ depCache' = [depCache EXCEPT ![k] = Head(depEv[k])]
    /\ depEv' = [depEv EXCEPT ![k] = Tail(@)]
    /\ handleObject(k, IF Head(depEv[k]) = NoDep THEN depCache[k] ELSE Head(depEv[k]))
    /\ UNCHANGED <<storeVars, infraCache, svcCache, infraEv, svcEv, syncVars, running,
                   spent>>

(* No handler is registered for services. *)
DeliverSvc(k) ==
    /\ svcEv[k] # << >>
    /\ svcCache' = [svcCache EXCEPT ![k] = Head(svcEv[k])]
    /\ svcEv' = [svcEv EXCEPT ![k] = Tail(@)]
    /\ UNCHANGED <<queueVars, storeVars, infraCache, depCache, infraEv, depEv, syncVars,
                   running, spent>>

(* Mutant of Resync: an unchanged Infrastructure is skipped, as the other  *)
(* handlers skip an unchanged object.                                      *)
ResyncSkipped(k) == FALSE /\ UNCHANGED vars /\ k \in Keys

(* The periodic resync calls UpdateFunc for every cached Infrastructure.   *)
(* The same step stands for the events of the other deployments that the   *)
(* Infrastructure owns: handleObject enqueues the owner and nothing else.  *)
Resync(k) ==
    /\ infraCache[k] # NoInfra
    /\ enqueueInfra(k)
    /\ UNCHANGED <<storeVars, cacheVars, eventVars, syncVars, running, spent>>

-----------------------------------------------------------------------------
(* syncHandler, one step for each read of a cache and each call.           *)

(* Mutant of Judge: the comparison of the replicas is gone. *)
JudgeIgnoringReplicas(w, d) ==
    /\ pc' = [pc EXCEPT ![w] = IF d.owner # snap[w].uid THEN "done" ELSE "detect"]
    /\ failed' = [failed EXCEPT ![w] = d.owner # snap[w].uid]
    /\ view' = [view EXCEPT ![w] = d]
    /\ step' = [step EXCEPT ![w] = 0]
    /\ UNCHANGED <<snap, healthy>>

(* Mutant of Judge: the comparison of the owner is gone. *)
JudgeIgnoringOwner(w, d) ==
    /\ pc' = [pc EXCEPT ![w] = IF d.replicas # snap[w].replicas THEN "update" ELSE "detect"]
    /\ view' = [view EXCEPT ![w] = d]
    /\ step' = [step EXCEPT ![w] = 0]
    /\ UNCHANGED <<snap, healthy, failed>>

(* How syncHandler goes on with the deployment d that it found or created. *)
Judge(w, d) ==
    /\ pc' = [pc EXCEPT ![w] = CASE d.owner # snap[w].uid -> "done"
                                 [] d.owner = snap[w].uid
                                    /\ d.replicas # snap[w].replicas -> "update"
                                 [] OTHER -> "detect"]
    /\ failed' = [failed EXCEPT ![w] = d.owner # snap[w].uid]
    /\ view' = [view EXCEPT ![w] = d]
    /\ step' = [step EXCEPT ![w] = 0]
    /\ UNCHANGED <<snap, healthy>>

(* syncHandler goes on to updateInfra with the deployment that bundleUpdate *)
(* returned.                                                                *)
Updated(w, d) ==
    /\ pc' = [pc EXCEPT ![w] = "detect"]
    /\ view' = [view EXCEPT ![w] = d]
    /\ step' = [step EXCEPT ![w] = 0]
    /\ UNCHANGED <<snap, healthy, failed>>

(* syncHandler returns. *)
Return(w, err) ==
    /\ pc' = [pc EXCEPT ![w] = "done"]
    /\ failed' = [failed EXCEPT ![w] = err]
    /\ UNCHANGED <<step, snap, view, healthy>>

(* processNextWorkItem takes a key. *)
processNextWorkItem(w) ==
    /\ pc[w] = "idle"
    /\ Get(w)
    /\ pc' = [pc EXCEPT ![w] = "lookup"]
    /\ UNCHANGED <<storeVars, cacheVars, eventVars, step, snap, view, healthy, failed,
                   running, spent>>

(* infraLister.Get: an Infrastructure that is gone is not an error. *)
LookupInfra(w) ==
    /\ pc[w] = "lookup"
    /\ IF infraCache[holding[w]] = NoInfra
       THEN Return(w, FALSE)
       ELSE /\ snap' = [snap EXCEPT ![w] = infraCache[holding[w]]]
            /\ pc' = [pc EXCEPT ![w] = "deployment"]
            /\ UNCHANGED <<step, view, healthy, failed>>
    /\ UNCHANGED <<queueVars, storeVars, cacheVars, eventVars, running, spent>>

(* deploymentsLister.Get *)
LookupDeployment(w) ==
    /\ pc[w] = "deployment"
    /\ IF depCache[holding[w]] = NoDep
       THEN /\ pc' = [pc EXCEPT ![w] = "create"]
            /\ step' = [step EXCEPT ![w] = 0]
            /\ UNCHANGED <<snap, view, healthy, failed>>
       ELSE Judge(w, depCache[holding[w]])
    /\ UNCHANGED <<queueVars, storeVars, cacheVars, eventVars, running, spent>>

(* ensureNamespaceExists, the first call of every create and update        *)
(* function.                                                               *)
EnsureNamespace(w) ==
    /\ pc[w] \in {"create", "update"}
    /\ step[w] = 0
    /\ \/ /\ step' = [step EXCEPT ![w] = 1]
          /\ UNCHANGED <<pc, snap, view, healthy, failed, spent>>
       \/ /\ Spend("fault")
          /\ Return(w, TRUE)
    /\ UNCHANGED <<queueVars, storeVars, cacheVars, eventVars, running>>

(* Mutant of CallFails: the error of a Create is dropped and the function   *)
(* goes on to the next object.                                              *)
CallFailsUnnoticed(w) ==
    /\ Spend("fault")
    /\ step' = [step EXCEPT ![w] = @ + 1]
    /\ UNCHANGED <<pc, snap, view, healthy, failed>>

(* A call that fails may have been carried out. *)
CallFails(w) == Spend("fault") /\ Return(w, TRUE)

(* Mutant of CreateObject: the object carries no owner reference. *)
CreateUnowned(w, k, o) ==
    IF prereq[k][o] = 0
    THEN PutPrereq(k, o, Foreign) ELSE UNCHANGED <<prereq, svcEv>>

(* Worker w asks for the object o of kind k, with its copy of the          *)
(* Infrastructure as the owner; the API server keeps an object that exists. *)
CreateObject(w, k, o) ==
    IF prereq[k][o] = 0
    THEN PutPrereq(k, o, snap[w].uid) ELSE UNCHANGED <<prereq, svcEv>>

(* The Create call of a prerequisite.  AlreadyExists is no error, whoever  *)
(* owns the object.  updateLonghorn returns what its last Create returned: *)
(* a deployment without pods, or an empty one.                             *)
CreatePrerequisite(w) ==
    LET k == holding[w]
        o == Creates(w)[step[w]]
    IN  /\ pc[w] \in {"create", "update"}
        /\ step[w] \in 1 .. Len(Creates(w))
        /\ \/ /\ CreateObject(w, k, o)
              /\ IF pc[w] = "update" /\ k = "Longhorn"
                 THEN Updated(w, NoDep)
                 ELSE /\ step' = [step EXCEPT ![w] = @ + 1]
                      /\ UNCHANGED <<pc, snap, view, healthy, failed>>
              /\ UNCHANGED spent
           \/ /\ CallFails(w)
              /\ CreateObject(w, k, o) \/ UNCHANGED <<prereq, svcEv>>
        /\ UNCHANGED <<queueVars, infra, lives, dep, cacheVars, infraEv, depEv, running>>

(* The Create call of the deployment, the last call of the create          *)
(* functions and of updateRancherVM.  On AlreadyExists the client returns  *)
(* an empty deployment and the error is dropped.                           *)
CreateDeployment(w) ==
    LET k == holding[w]
        new == [owner |-> snap[w].uid, replicas |-> snap[w].replicas, avail |-> 0]
    IN  /\ \/ pc[w] = "create"
           \/ pc[w] = "update" /\ k = "RancherVM"
        /\ step[w] = Len(Creates(w)) + 1
        /\ \/ /\ IF dep[k] = NoDep THEN PutDep(k, new) ELSE UNCHANGED <<dep, depEv>>
              /\ LET d == IF dep[k] = NoDep THEN new ELSE NoDep
                 IN  IF pc[w] = "create" THEN Judge(w, d) ELSE Updated(w, d)
              /\ UNCHANGED spent
           \/ /\ CallFails(w)
              /\ \/ dep[k] = NoDep /\ PutDep(k, new)
                 \/ UNCHANGED <<dep, depEv>>
        /\ UNCHANGED <<queueVars, infra, lives, prereq, cacheVars, infraEv, svcEv, running>>

(* updateDashboard's Update carries no resource version and no UID, so it  *)
(* replaces whatever deployment has the name; only its status is kept.     *)
updateDashboard(w) ==
    LET k == holding[w]
        new == [dep[k] EXCEPT !.owner = snap[w].uid, !.replicas = snap[w].replicas]
    IN  /\ pc[w] = "update"
        /\ k = "Dashboard"
        /\ step[w] = 1
        /\ \/ /\ dep[k] # NoDep
              /\ IF new # dep[k] THEN PutDep(k, new) ELSE UNCHANGED <<dep, depEv>>
              /\ Updated(w, new)
              /\ UNCHANGED spent
           \/ /\ dep[k] = NoDep
              /\ Return(w, TRUE)
              /\ UNCHANGED <<dep, depEv, spent>>
           \/ /\ CallFails(w)
              /\ \/ dep[k] # NoDep /\ new # dep[k] /\ PutDep(k, new)
                 \/ UNCHANGED <<dep, depEv>>
        /\ UNCHANGED <<queueVars, infra, lives, prereq, cacheVars, infraEv, svcEv, running>>

(* detectService looks for the frontend service in the lister. *)
detectService(w) ==
    /\ pc[w] = "detect"
    /\ healthy' = [healthy EXCEPT ![w] = svcCache[holding[w]]]
    /\ pc' = [pc EXCEPT ![w] = "write"]
    /\ UNCHANGED <<queueVars, storeVars, cacheVars, eventVars, step, snap, view, failed,
                   running, spent>>

(* Mutant of InfraCopy: the available replicas are not copied. *)
InfraCopyOldAvail(w) ==
    LET ok == healthy[w] /\ view[w].avail > 0
    IN  [snap[w] EXCEPT !.state = IF ok THEN "Healthy" ELSE "UnHealthy",
                        !.message = IF healthy[w] THEN @ ELSE "not found"]

(* Mutant of InfraCopy: the status is put into a copy that takes its        *)
(* resource version from a later read, as a retry after Conflict would.     *)
InfraCopyFreshVersion(w) ==
    [snap[w] EXCEPT !.avail = view[w].avail,
                    !.rv = infra[holding[w]].rv]

(* The copy of the Infrastructure that updateInfra sends.  The message of  *)
(* an earlier failure is never cleared.                                    *)
InfraCopy(w) ==
    LET ok == healthy[w] /\ view[w].avail > 0
    IN  [snap[w] EXCEPT !.avail = view[w].avail,
                        !.state = IF ok THEN "Healthy" ELSE "UnHealthy",
                        !.message = IF healthy[w] THEN @ ELSE "not found"]

(* The API server's answer to an Update of an Infrastructure: NotFound or  *)
(* Conflict unless the copy carries the stored UID and resource version;   *)
(* an Update that changes nothing produces no event.                       *)
Accepts(k, i) == infra[k].uid = i.uid /\ infra[k].rv = i.rv

Store(k, i) ==
    IF i = infra[k]
    THEN UNCHANGED <<infra, infraEv>>
    ELSE PutInfra(k, [i EXCEPT !.rv = @ + 1])

(* updateInfra: the Update call. *)
updateInfra(w) ==
    LET k == holding[w]
    IN  /\ pc[w] = "write"
        /\ \/ /\ Accepts(k, InfraCopy(w))
              /\ Store(k, InfraCopy(w))
              /\ Return(w, FALSE)
              /\ UNCHANGED spent
           \/ /\ ~Accepts(k, InfraCopy(w))
              /\ Return(w, TRUE)
              /\ UNCHANGED <<infra, infraEv, spent>>
           \/ /\ CallFails(w)
              /\ \/ Accepts(k, InfraCopy(w)) /\ Store(k, InfraCopy(w))
                 \/ UNCHANGED <<infra, infraEv>>
        /\ UNCHANGED <<queueVars, lives, prereq, dep, cacheVars, depEv, svcEv, running>>

(* The rest of processNextWorkItem: Forget after a success, Done always.   *)
(* After an error the key is not added again.                              *)
FinishWorkItem(w) ==
    /\ pc[w] = "done"
    /\ Done(w)
    /\ pc' = [pc EXCEPT ![w] = "idle"]
    /\ step' = [step EXCEPT ![w] = 0]
    /\ snap' = [snap EXCEPT ![w] = NoInfra]
    /\ view' = [view EXCEPT ![w] = NoDep]
    /\ healthy' = [healthy EXCEPT ![w] = FALSE]
    /\ failed' = [failed EXCEPT ![w] = FALSE]
    /\ UNCHANGED <<storeVars, cacheVars, eventVars, running, spent>>

-----------------------------------------------------------------------------
(* The stop channel is closed: Run returns, and its deferred call shuts    *)
(* the queue down.  The workers go on until the process exits.             *)
Stop ==
    /\ Spend("stop")
    /\ running
    /\ running' = FALSE
    /\ ShutDown
    /\ UNCHANGED <<storeVars, cacheVars, eventVars, syncVars>>

(* The process dies at any point and is started again: the informers list  *)
(* what is stored and AddFunc is called for every Infrastructure.          *)
Restart ==
    /\ Spend("crash")
    /\ queue' = << >>
    /\ dirty' = {}
    /\ processing' = {}
    /\ waiting' = {k \in Keys : infra[k] # NoInfra}
    /\ shuttingDown' = FALSE
    /\ holding' = [w \in Workers |-> NoKey]
    /\ infraCache' = infra
    /\ depCache' = dep
    /\ svcCache' = [k \in Keys |-> prereq[k]["frontendService"] # 0]
    /\ infraEv' = [k \in Keys |-> << >>]
    /\ depEv' = [k \in Keys |-> << >>]
    /\ svcEv' = [k \in Keys |-> << >>]
    /\ pc' = [w \in Workers |-> "idle"]
    /\ step' = [w \in Workers |-> 0]
    /\ snap' = [w \in Workers |-> NoInfra]
    /\ view' = [w \in Workers |-> NoDep]
    /\ healthy' = [w \in Workers |-> FALSE]
    /\ failed' = [w \in Workers |-> FALSE]
    /\ running' = TRUE
    /\ UNCHANGED storeVars

(* The delay of a key expires. *)
KeyReady(k) ==
    /\ WaitingReady(k)
    /\ UNCHANGED <<storeVars, cacheVars, eventVars, syncVars, running, spent>>

Environment(k) ==
    \/ InfrastructureDeploy(k)
    \/ InfrastructureDelete(k)
    \/ \E n \in Replicas : Scale(k, n)
    \/ \E n \in 0 .. dep[k].replicas : AvailabilityChanges(k, n)
    \/ AdminDeletes(k)
    \/ AdminCreates(k)

Collect(k) ==
    CollectDep(k) \/ \E i \in 1 .. Len(bundleCreate[k]) : CollectPrereq(k, i)

(* What the collector is bound to do. *)
CollectNamespaced(k) ==
    \/ CollectDep(k)
    \/ \E i \in 1 .. Len(bundleCreate[k]) :
        bundleCreate[k][i] \notin ClusterScoped /\ CollectPrereq(k, i)

Informer(k) ==
    \/ DeliverInfra(k)
    \/ DeliverDep(k)
    \/ DeliverSvc(k)
    \/ Resync(k)
    \/ KeyReady(k)

Sync(w) ==
    \/ LookupInfra(w)
    \/ LookupDeployment(w)
    \/ EnsureNamespace(w)
    \/ CreatePrerequisite(w)
    \/ CreateDeployment(w)
    \/ updateDashboard(w)
    \/ detectService(w)
    \/ updateInfra(w)
    \/ FinishWorkItem(w)

Next ==
    \/ \E k \in Keys : Environment(k) \/ Collect(k) \/ Informer(k)
    \/ \E w \in Workers : processNextWorkItem(w) \/ Sync(w)
    \/ Stop
    \/ Restart

Spec == Init /\ [][Next]_vars

(* The informers, the waiting loop, the garbage collector and the workers  *)
(* keep running, and the resync period keeps expiring.  Any blocked worker *)
(* may be the one that is woken.  Nothing makes the environment act, nor   *)
(* the collector take a cluster-scoped object.                             *)
Fairness ==
    /\ \A k \in Keys :
        /\ WF_vars(DeliverInfra(k))
        /\ WF_vars(DeliverDep(k))
        /\ WF_vars(DeliverSvc(k))
        /\ WF_vars(Resync(k))
        /\ WF_vars(KeyReady(k))
        /\ WF_vars(CollectNamespaced(k))
    /\ WF_vars(\E w \in Workers : processNextWorkItem(w))
    /\ \A w \in Workers : WF_vars(Sync(w))

LiveSpec == Spec /\ Fairness

-----------------------------------------------------------------------------
States == {"", "Healthy", "UnHealthy"}

Messages == {"", "not found"}

InfraRecord ==
    [uid : Nat, rv : Nat, replicas : Nat, avail : Nat, state : States, message : Messages]

Owner == Nat \union {Foreign}

DepRecord == [owner : Owner, replicas : Nat, avail : Nat]

Steps == {"idle", "lookup", "deployment", "create", "update", "detect", "write", "done"}

StoreTypeOK ==
    /\ infra \in [Keys -> InfraRecord]
    /\ lives \in [Keys -> Nat]
    /\ prereq \in [Keys -> [Objects -> Owner]]
    /\ dep \in [Keys -> DepRecord]

CacheTypeOK ==
    /\ infraCache \in [Keys -> InfraRecord]
    /\ depCache \in [Keys -> DepRecord]
    /\ svcCache \in [Keys -> BOOLEAN]

EventTypeOK ==
    /\ infraEv \in [Keys -> Seq(InfraRecord)]
    /\ depEv \in [Keys -> Seq(DepRecord)]
    /\ svcEv \in [Keys -> Seq(BOOLEAN)]

SyncTypeOK ==
    /\ pc \in [Workers -> Steps]
    /\ step \in [Workers -> Nat]
    /\ snap \in [Workers -> InfraRecord]
    /\ view \in [Workers -> DepRecord]
    /\ healthy \in [Workers -> BOOLEAN]
    /\ failed \in [Workers -> BOOLEAN]

TypeOK ==
    /\ QTypeOK
    /\ StoreTypeOK
    /\ CacheTypeOK
    /\ EventTypeOK
    /\ SyncTypeOK
    /\ running \in BOOLEAN
    /\ spent \in [Costs -> Nat]

(* While the first Infrastructure of a kind lives, a deployment it owns is *)
(* never without the objects it needs, whatever calls failed and whenever  *)
(* the process was restarted in the middle of a create function.           *)
PrerequisitesFirst ==
    \A k \in Keys :
        lives[k] = 1 /\ infra[k] # NoInfra /\ dep[k].owner = infra[k].uid
            => \A o \in Needs(k) : prereq[k][o] = infra[k].uid

(* Why PrerequisitesFirst holds: an owner is an Infrastructure that exists *)
(* or existed, ...                                                         *)
KnownOwner(k, d) == d.owner = Foreign \/ d.owner \in 0 .. lives[k]

OwnersKnown ==
    \A k \in Keys :
        /\ \A o \in Objects : prereq[k][o] \in 0 .. lives[k]
        /\ KnownOwner(k, dep[k])
        /\ KnownOwner(k, depCache[k])
        /\ \A i \in 1 .. Len(depEv[k]) : KnownOwner(k, depEv[k][i])

(* ... and while the first one lives, what it owns stays, so the objects   *)
(* that a worker has passed are there, and all of them are there once a    *)
(* deployment was seen.                                                    *)
FirstLife(k) == lives[k] = 1 /\ infra[k] # NoInfra

Complete(k) == \A o \in Needs(k) : prereq[k][o] = 1

BundleInOrder ==
    \A k \in Keys : FirstLife(k) =>
        /\ dep[k].owner = 1 => Complete(k)
        /\ depCache[k].owner = 1 => Complete(k)
        /\ \A i \in 1 .. Len(depEv[k]) : depEv[k][i].owner = 1 => Complete(k)
        /\ \A w \in Workers : holding[w] = k =>
            /\ pc[w] = "create" =>
                \A i \in 1 .. Len(bundleCreate[k]) :
                    i < step[w] => prereq[k][bundleCreate[k][i]] = 1
            /\ pc[w] = "update" => Complete(k)

(* Why StatusWriteKeepsSpec holds: c is a copy of the n-th Infrastructure, *)
(* i, or of one before it, and only the current version of i equals i.     *)
IsCopy(c, i, n) ==
    c # NoInfra =>
        /\ c.uid \in 1 .. n
        /\ c.uid = i.uid => c.rv <= i.rv /\ (c.rv = i.rv => c = i)

Syncing == {"deployment", "create", "update", "detect", "write"}

(* The caches, the undelivered events and the workers hold versions of the *)
(* stored Infrastructure or of its predecessors, and the version number    *)
(* tells an old one.                                                       *)
CopiesAreOld ==
    \A k \in Keys :
        /\ infra[k] # NoInfra => infra[k].uid = lives[k] /\ lives[k] > 0
        /\ IsCopy(infraCache[k], infra[k], lives[k])
        /\ \A i \in 1 .. Len(infraEv[k]) : IsCopy(infraEv[k][i], infra[k], lives[k])
        /\ \A w \in Workers : holding[w] = k /\ pc[w] \in Syncing =>
            snap[w] # NoInfra /\ IsCopy(snap[w], infra[k], lives[k])

SyncInv == CopiesAreOld /\ OwnersKnown /\ BundleInOrder

(* Writing the status through Update never undoes a change of the spec     *)
(* made since the Infrastructure was read, and never brings back an        *)
(* Infrastructure that was deleted since.                                  *)
StatusWriteKeepsSpec ==
    [][\A w \in Workers : pc[w] = "write" /\ pc'[w] = "done" =>
        \A k \in Keys : /\ infra'[k].uid = infra[k].uid
                        /\ infra'[k].replicas = infra[k].replicas]_vars

(* A deployment of somebody else is replaced only by a worker that has     *)
(* seen one of its own in the cache, which was replaced since: what        *)
(* syncHandler has seen to be foreign it leaves alone.                     *)
SeenForeignKept ==
    [][\A k \in Keys : dep[k].owner = Foreign /\ dep'[k].owner \notin {Foreign, 0} =>
        \E w \in Workers : /\ holding[w] = k
                           /\ pc[w] = "update"
                           /\ view[w].owner = snap[w].uid]_vars

(* An Infrastructure that stays gets its deployment, although a failed     *)
(* sync is not queued again and a deployment of its predecessor may still  *)
(* have the name.                                                          *)
DeploymentAppears ==
    \A k \in Keys :
        <>[](infra[k] # NoInfra) => <>[](dep[k].owner = infra[k].uid)

(* The deployment gets the number of replicas of the spec ("should update  *)
(* the Deployment resource").                                              *)
ReplicasConverge ==
    \A k \in Keys :
        <>[](infra[k] # NoInfra) => <>[](dep[k].replicas = infra[k].replicas)

(* The status comes to tell the current state of the resource: its         *)
(* available replicas, and whether it has any and its service exists.      *)
StatusConverges ==
    \A k \in Keys :
        <>[](infra[k] # NoInfra) =>
            <>[]( /\ infra[k].avail = dep[k].avail
                  /\ infra[k].state =
                        IF dep[k].avail > 0 /\ prereq[k]["frontendService"] # 0
                        THEN "Healthy" ELSE "UnHealthy")

(* Of a deleted Infrastructure nothing stays behind in its namespace, also *)
(* not what a worker created after the deletion from its old copy: every   *)
(* object is created with its owner.  The cluster-scoped objects are left  *)
(* out: nothing guarantees that they go.                                   *)
NoOrphans ==
    \A k \in Keys :
        <>[](infra[k] = NoInfra) =>
            <>[](dep[k] = NoDep /\ \A o \in Objects \ ClusterScoped : prereq[k][o] = 0)

-----------------------------------------------------------------------------
(* What comments in the source say and the code does not do.               *)

(* "bundleCreate will create all Infrastructure needed"                    *)
(* (infra_controller.go:389): an Infrastructure that stays, with its       *)
(* deployment, comes to have every object it needs.                        *)
BundleComplete ==
    \A k \in Keys :
        <>[](infra[k] # NoInfra) =>
            <>[](\A o \in Needs(k) : prereq[k][o] = infra[k].uid)

=============================================================================
